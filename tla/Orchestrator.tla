---------------------------- MODULE Orchestrator ----------------------------
(***************************************************************************)
(* A request for several agents (runtime/orchestrator.c): the roster the   *)
(* client restricts it to is stored with the task, the model's plan is     *)
(* read step by step into a graph, and Flow runs the graph; agents are     *)
(* added and removed meanwhile, and the process may die and the task be    *)
(* resumed from its checkpoint.  A client may also ask for the graph alone *)
(* - while the API, which takes one request at a time, waits - and hand it *)
(* in later, perhaps with an edge more.                                    *)
(*                                                                         *)
(* A plan that cannot be read at all, or is empty, has no steps; one with  *)
(* a step that is not as asked for is refused as a whole.                  *)
(***************************************************************************)
EXTENDS Integers, Sequences, FiniteSets

CONSTANTS
    Agents,
    Unknown,        \* a name the model invents
    None,
    MaxSteps,       \* ORCH_MAX_STEPS
    MaxCrashes, MaxChanges      \* bounds: crashes, changes of the pool

VARIABLES
    phase,      \* of the request
    kind,       \* what is asked for: "plan", "preview", or "graph" once handed in
    pool,       \* the agents there are
    scope,      \* the roster stored with the task, or None
    steps,      \* the steps read: agent, after
    at,         \* where each step is
    how,        \* what was done: "flow", "single agent", or why nothing
    crashes, changes,
    asked       \* ghost: the roster the client named, or None

orchestratorVars == <<phase, kind, pool, scope, steps, at, how, crashes, changes, asked>>

Init ==
    /\ phase = "new" /\ kind = None /\ pool \in SUBSET Agents
    /\ scope = None /\ steps = <<>> /\ at = <<>> /\ how = None
    /\ crashes = 0 /\ changes = 0 /\ asked = None

Ends(why) == phase' = "over" /\ how' = why

\* flow_scope_task: a request for agents that are not all there is refused.
Scoped(s) == IF s = None THEN TRUE ELSE s # {} /\ s \subseteq pool

\* Credentials that cannot be stored, a workspace that is not there and a full
\* queue are other reasons to refuse.
Submit(k) ==
    /\ phase = "new" /\ kind' = k
    /\ \E s \in {None} \cup SUBSET Agents :
          /\ asked' = s
          /\ \/ Scoped(s) /\ phase' = "accepted" /\ scope' = s /\ UNCHANGED how
             \/ Ends("refused") /\ UNCHANGED scope
    /\ UNCHANGED <<pool, steps, at, crashes, changes>>

Orchestrate == Submit("plan")           \* POST /v1/orchestrate
AskForGraph == Submit("preview")        \* POST /v1/flows/decompose

\* roster_text
Offered == IF scope = None THEN pool ELSE pool \cap scope

\* decompose_task: every agent of the roster must still be there; without
\* agents or a model nobody is asked for a plan.
Decompose ==
    /\ phase = "accepted"
    /\ IF scope # None /\ ~(scope \subseteq pool) THEN Ends("invalid plan")
       ELSE /\ phase' \in (IF Offered # {} THEN {"reading"} ELSE {}) \cup {"no plan"}
            /\ UNCHANGED how
    /\ UNCHANGED <<kind, pool, scope, steps, at, crashes, changes, asked>>

-----------------------------------------------------------------------------
\* parse_plan

\* A step names steps before it, by their numbers from 1.
Earlier(after, n) == after \subseteq 1 .. n

\* A step without "after" follows the one before it.
Prerequisites(after, n) == IF after = None THEN (IF n > 0 THEN {n} ELSE {}) ELSE after

InRoster(a) == scope # None => a \in scope

\* One more element of the array: it is read, or the whole plan is refused.
ReadStep ==
    /\ phase = "reading" /\ Len(steps) < MaxSteps
    /\ \E a \in Agents \cup {Unknown}, after \in {None} \cup SUBSET (0 .. MaxSteps) :
          IF a \in pool /\ (after # None => Earlier(after, Len(steps)))
          THEN /\ steps' = Append(steps, [agent |-> a, after |-> Prerequisites(after, Len(steps))])
               /\ UNCHANGED <<phase, how>>
          ELSE Ends("invalid plan") /\ UNCHANGED steps
    /\ UNCHANGED <<kind, pool, scope, at, crashes, changes, asked>>

\* An element that is no step, or more of them than a plan may have.
ReadFails ==
    /\ phase = "reading" /\ Ends("invalid plan")
    /\ UNCHANGED <<kind, pool, scope, steps, at, crashes, changes, asked>>

\* "never fall back outside a restricted roster"
FallBack ==
    IF scope # None THEN Ends("invalid plan")
    ELSE phase' = "single agent" /\ how' = "single agent"

\* build_dag_json
Compiled == [i \in DOMAIN steps |-> "waiting"]

\* The end of the array.  The roster is compared when all steps are read.
Read == phase \in {"reading", "no plan"}
Usable == steps # <<>> /\ \A i \in DOMAIN steps : InRoster(steps[i].agent)

ReadEnds ==
    /\ Read /\ kind = "plan"
    /\ IF steps = <<>> THEN FallBack /\ UNCHANGED at
       ELSE IF ~Usable THEN Ends("invalid plan") /\ UNCHANGED at
       ELSE phase' = "graph" /\ at' = Compiled /\ UNCHANGED how
    /\ UNCHANGED <<kind, pool, scope, steps, crashes, changes, asked>>

\* flow_decompose: the client is given the graph, or nothing.
PreviewEnds ==
    /\ Read /\ kind = "preview"
    /\ IF Usable THEN phase' = "given" /\ at' = Compiled /\ UNCHANGED how
       ELSE Ends("no graph") /\ UNCHANGED at
    /\ UNCHANGED <<kind, pool, scope, steps, crashes, changes, asked>>

\* flow_validate: every set of steps has one that waits for none of them.
Layered(graph) ==
    \A S \in SUBSET DOMAIN graph \ {{}} : \E i \in S : graph[i].after \cap S = {}

\* POST /v1/flows; who is to do the steps is not looked at.
HandIn ==
    /\ phase = "given"
    /\ \E i, k \in DOMAIN steps :
          steps' \in {steps, [steps EXCEPT ![i].after = @ \cup {k}]}
    /\ Layered(steps')
    /\ phase' = "graph" /\ kind' = "graph"
    /\ UNCHANGED <<pool, scope, at, how, crashes, changes, asked>>

-----------------------------------------------------------------------------
\* flow_run, as far as it concerns the agents; its order of layers is in Flow

\* The agents must be there when the flow begins.
FlowStarts ==
    /\ phase = "graph"
    /\ IF \A i \in DOMAIN steps : steps[i].agent \in pool
       THEN phase' = "flow" /\ how' = "flow"
       ELSE Ends("unknown agent")
    /\ UNCHANGED <<kind, pool, scope, steps, at, crashes, changes, asked>>

Over(i) == at[i] \in {"done", "failed", "blocked"}

\* flow_worker: without its agent a node has no prompt and fails.
NodeStarts(i) ==
    /\ phase = "flow" /\ at[i] = "waiting"
    /\ \A k \in steps[i].after : at[k] = "done"
    /\ at' = [at EXCEPT ![i] = IF steps[i].agent \in pool THEN "running" ELSE "failed"]
    /\ UNCHANGED <<phase, kind, pool, scope, steps, how, crashes, changes, asked>>

NodeBlocked(i) ==
    /\ phase = "flow" /\ at[i] = "waiting"
    /\ \E k \in steps[i].after : at[k] \in {"failed", "blocked"}
    /\ at' = [at EXCEPT ![i] = "blocked"]
    /\ UNCHANGED <<phase, kind, pool, scope, steps, how, crashes, changes, asked>>

NodeEnds(i) ==
    /\ phase = "flow" /\ at[i] = "running"
    /\ \E result \in {"done", "failed"} : at' = [at EXCEPT ![i] = result]
    /\ UNCHANGED <<phase, kind, pool, scope, steps, how, crashes, changes, asked>>

\* The results are merged only if every node is done.
FlowEnds ==
    /\ phase = "flow" /\ \A i \in DOMAIN steps : Over(i)
    /\ Ends(IF \A i \in DOMAIN steps : at[i] = "done" THEN "answered" ELSE "incomplete")
    /\ UNCHANGED <<kind, pool, scope, steps, at, crashes, changes, asked>>

SingleEnds ==
    /\ phase = "single agent" /\ Ends("answered alone")
    /\ UNCHANGED <<kind, pool, scope, steps, at, crashes, changes, asked>>

-----------------------------------------------------------------------------
\* /v1/agents
PoolChanges ==
    /\ ~(kind = "preview" /\ phase \in {"accepted", "reading", "no plan"})
    /\ changes < MaxChanges /\ changes' = changes + 1
    /\ \E a \in Agents : pool' \in {pool \cup {a}, pool \ {a}}
    /\ UNCHANGED <<phase, kind, scope, steps, at, how, crashes, asked>>

ResumesScope == UNCHANGED scope

\* The process dies; a resumed task begins again with its stored input, and
\* the pool holds the agents registered at the next start.  A graph that was
\* given is with its client; a request for one is lost.
CrashAndResume ==
    /\ phase \notin {"new", "over"} /\ crashes < MaxCrashes /\ crashes' = crashes + 1
    /\ phase' = CASE kind = "plan" -> "accepted"
                   [] kind = "graph" -> "graph"
                   [] phase = "given" -> "given"
                   [] OTHER -> "over"
    /\ how' = IF phase' = "over" THEN "lost" ELSE None
    /\ steps' = IF phase' \in {"graph", "given"} THEN steps ELSE <<>>
    /\ at' = [i \in DOMAIN steps' |-> "waiting"]
    /\ ResumesScope
    /\ pool' \in SUBSET Agents
    /\ UNCHANGED <<kind, changes, asked>>

Next ==
    \/ Orchestrate \/ AskForGraph \/ Decompose \/ ReadStep \/ ReadFails \/ ReadEnds
    \/ PreviewEnds \/ HandIn
    \/ FlowStarts \/ FlowEnds \/ SingleEnds \/ PoolChanges \/ CrashAndResume
    \/ \E i \in DOMAIN at : NodeStarts(i) \/ NodeBlocked(i) \/ NodeEnds(i)

Spec == Init /\ [][Next]_orchestratorVars
-----------------------------------------------------------------------------
Ran(i) == at[i] \in {"running", "done"}

\* "Persist the execution roster with the task so resume cannot broaden it":
\* no agent outside the roster the client named runs a step, and a request
\* with a roster is never answered by an agent of no name.
StaysInRoster ==
    asked # None => /\ \A i \in DOMAIN at : Ran(i) => steps[i].agent \in asked
                    /\ how \notin {"single agent", "answered alone"}

\* The graph a plan becomes has no cycle, so that nodes start after, and with,
\* what they depend on; nothing runs of a plan that was refused, nor of a graph
\* before it is handed in.
PlanIsOrdered ==
    /\ Layered(steps)
    /\ \A i \in DOMAIN at : Ran(i) => \A k \in steps[i].after : at[k] = "done"
    /\ (how \in {"refused", "invalid plan", "unknown agent", "lost"} \/ kind = "preview") =>
         \A i \in DOMAIN at : ~Ran(i)

OrchestratorSafe == StaysInRoster /\ PlanIsOrdered
=============================================================================
