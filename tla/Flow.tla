-------------------------------- MODULE Flow --------------------------------
(***************************************************************************)
(* A flow run (runtime/flow.c): the graph is read edge by edge and layered *)
(* by Kahn's algorithm, which finds cycles; then the nodes of one layer    *)
(* after the other run in batches of threads, each with an engine of its   *)
(* own.  A table of running flows shows the nodes to those who ask over    *)
(* HTTP; it points to the engines, and another flow may take its slot.     *)
(***************************************************************************)
EXTENDS Integers, Sequences, FiniteSets

CONSTANTS
    N,              \* nodes are numbered 1 .. N
    MaxParallel     \* FLOW_MAX_PARALLEL

Nodes == 1 .. N

VARIABLES
    phase,
    edges, indeg,           \* adj and indeg of the nodes
    queue, pending, layer,  \* Kahn's queue, the copy of indeg, the layers
    level,                  \* the layer that runs
    at,                     \* where each node is
    rc,                     \* how it ended
    engine,                 \* its engine
    shown, attached,        \* its state and engine in the table
    held,                   \* the flow has a slot in the table
    abort,                  \* the task was cancelled, or its time is over
    verdict

graph == <<edges, indeg, queue, pending, layer>>
table == <<shown, attached, held>>
flowVars == <<phase, graph, level, at, rc, engine, table, abort, verdict>>

All(x) == [i \in Nodes |-> x]

Init ==
    /\ phase = "parsing"
    /\ edges = {} /\ indeg = All(0)
    /\ queue = <<>> /\ pending = All(0) /\ layer = All(0)
    /\ level = 0
    /\ at = All("waiting") /\ rc = All("none") /\ engine = All("none")
    /\ shown = All("none") /\ attached = All(FALSE) /\ held = FALSE
    /\ abort = FALSE /\ verdict = "none"

Refuse(why) == phase' = why /\ UNCHANGED <<level, at, rc, engine, table, abort, verdict>>

-----------------------------------------------------------------------------
\* flow_add_edge, for the edges and for the references in the tasks.
\* Mutated form: the degree grows before the duplicate is noticed.
CountBeforeLook(u, v) ==
    /\ edges' = edges \cup {<<u, v>>}
    /\ indeg' = [indeg EXCEPT ![v] = IF @ < N THEN @ + 1 ELSE @]

Count(u, v) ==
    /\ edges' = edges \cup {<<u, v>>}
    /\ indeg' = IF <<u, v>> \in edges THEN indeg ELSE [indeg EXCEPT ![v] = @ + 1]

AddEdge(u, v) ==
    /\ phase = "parsing" /\ u # v
    /\ Count(u, v)
    /\ UNCHANGED <<phase, queue, pending, layer, level, at, rc, engine, table, abort, verdict>>

\* A node that depends on itself, or another mistake in the document.
ParseFails == phase = "parsing" /\ Refuse("malformed") /\ UNCHANGED graph

InOrder(S) == CHOOSE q \in [1 .. Cardinality(S) -> S] :
                 \A i, j \in 1 .. Cardinality(S) : i < j => q[i] < q[j]

\* flow_layer
LayerStarts ==
    /\ phase = "parsing" /\ phase' = "layering"
    /\ queue' = InOrder({i \in Nodes : indeg[i] = 0})
    /\ pending' = indeg /\ layer' = All(0)
    /\ UNCHANGED <<edges, indeg, level, at, rc, engine, table, abort, verdict>>

Succ(u) == {v \in Nodes : <<u, v>> \in edges}
Pred(v) == {u \in Nodes : <<u, v>> \in edges}

LayerNext ==
    /\ phase = "layering" /\ queue # <<>>
    /\ LET u == Head(queue)
       IN  /\ layer' = [v \in Nodes |-> IF v \in Succ(u) /\ layer[u] + 1 > layer[v]
                                        THEN layer[u] + 1 ELSE layer[v]]
           /\ pending' = [v \in Nodes |-> IF v \in Succ(u) THEN pending[v] - 1 ELSE pending[v]]
           /\ queue' = Tail(queue) \o InOrder({v \in Succ(u) : pending[v] = 1})
    /\ UNCHANGED <<phase, edges, indeg, level, at, rc, engine, table, abort, verdict>>

\* The nodes assigned are those whose edges have all been used.
Cyclic == \E v \in Nodes : pending[v] # 0

\* flow_run: refused for a cycle or an agent that is not there; otherwise
\* the flow takes a slot of the table.
CycleFound ==
    /\ phase = "layering" /\ queue = <<>> /\ Cyclic
    /\ Refuse("cyclic") /\ UNCHANGED graph

NoAgent ==
    /\ phase = "layering" /\ queue = <<>> /\ ~Cyclic
    /\ Refuse("unknown agent") /\ UNCHANGED graph

Begin ==
    /\ phase = "layering" /\ queue = <<>> /\ ~Cyclic
    /\ phase' = "running"
    /\ held' = TRUE /\ shown' = All("queued") /\ attached' = All(FALSE)
    /\ UNCHANGED <<graph, level, at, rc, engine, abort, verdict>>

\* Another flow begins while the table is full, and takes the first slot.
SlotTaken ==
    /\ held /\ phase = "running"
    /\ held' = FALSE /\ shown' = All("none") /\ attached' = All(FALSE)
    /\ UNCHANGED <<phase, graph, level, at, rc, engine, abort, verdict>>

Abort ==
    /\ ~abort /\ phase = "running" /\ abort' = TRUE
    /\ UNCHANGED <<phase, graph, level, at, rc, engine, table, verdict>>

-----------------------------------------------------------------------------
\* flow_prog_node_mark: does nothing when the slot has been taken.
Mark(i, state) == shown' = IF held THEN [shown EXCEPT ![i] = state] ELSE shown

AtLevel == {i \in Nodes : layer[i] = level}
Undecided == {i \in AtLevel : at[i] = "waiting"}
First(S) == CHOOSE i \in S : \A j \in S : i <= j

Blocked(i) == \E u \in Pred(i) : rc[u] # "ok"

\* The next node of the layer: cancelled, blocked by a predecessor, or ready.
Look ==
    /\ phase = "running" /\ Undecided # {}
    /\ LET i == First(Undecided)
           end == IF abort THEN "stopped" ELSE IF Blocked(i) THEN "blocked" ELSE "none"
       IN  /\ rc' = [rc EXCEPT ![i] = end]
           /\ at' = [at EXCEPT ![i] = IF end = "none" THEN "ready" ELSE "over"]
           /\ IF end = "none" THEN UNCHANGED shown ELSE Mark(i, end)
    /\ UNCHANGED <<phase, graph, level, engine, attached, held, abort, verdict>>

Ready == {i \in AtLevel : at[i] = "ready"}
Busy == {i \in Nodes : at[i] \notin {"waiting", "ready", "over"}}

\* A batch of threads, when all of the batch before have been joined.
StartBatch ==
    /\ phase = "running" /\ Undecided = {} /\ Busy = {} /\ Ready # {}
    /\ at' = [i \in Nodes |->
                 IF i \in Ready /\ Cardinality({j \in Ready : j < i}) < MaxParallel
                 THEN "spawned" ELSE at[i]]
    /\ UNCHANGED <<phase, graph, level, rc, engine, table, abort, verdict>>

\* flow_worker: the node runs.
WorkerStarts(i) ==
    /\ at[i] = "spawned" /\ at' = [at EXCEPT ![i] = "started"]
    /\ Mark(i, "running")
    /\ UNCHANGED <<phase, graph, level, rc, engine, attached, held, abort, verdict>>

\* The text of the task could not be put together.
NoTask(i) ==
    /\ at[i] = "spawned" /\ at' = [at EXCEPT ![i] = "over"]
    /\ rc' = [rc EXCEPT ![i] = "error"]
    /\ Mark(i, "error")
    /\ UNCHANGED <<phase, graph, level, engine, attached, held, abort, verdict>>

\* The engine could not be made.
NoEngine(i) ==
    /\ at[i] = "started" /\ at' = [at EXCEPT ![i] = "ended"]
    /\ rc' = [rc EXCEPT ![i] = IF abort THEN "stopped" ELSE "error"]
    /\ UNCHANGED <<phase, graph, level, engine, table, abort, verdict>>

\* The engine is made and shown.
Attach(i) ==
    /\ at[i] = "started" /\ at' = [at EXCEPT ![i] = "reasoning"]
    /\ engine' = [engine EXCEPT ![i] = "live"]
    /\ attached' = IF held THEN [attached EXCEPT ![i] = TRUE] ELSE attached
    /\ UNCHANGED <<phase, graph, level, rc, shown, held, abort, verdict>>

\* Mutated form: the engine is freed before it is taken out of the table.
FreedFirst(i) ==
    /\ at[i] = "reasoning" /\ at' = [at EXCEPT ![i] = "detached"]
    /\ \E end \in {"ok", "error"} : rc' = [rc EXCEPT ![i] = end]
    /\ engine' = [engine EXCEPT ![i] = "freed"]
    /\ UNCHANGED <<phase, graph, level, table, abort, verdict>>

\* It answers or fails, and is taken out of the table ...
Detach(i) ==
    /\ at[i] = "reasoning" /\ at' = [at EXCEPT ![i] = "detached"]
    /\ \E end \in {"ok", "error"} : rc' = [rc EXCEPT ![i] = end]
    /\ attached' = [attached EXCEPT ![i] = FALSE]
    /\ UNCHANGED <<phase, graph, level, engine, shown, held, abort, verdict>>

\* ... before it is freed; a task that ended in between was cancelled.
Free(i) ==
    /\ at[i] = "detached" /\ at' = [at EXCEPT ![i] = "ended"]
    /\ engine' = [engine EXCEPT ![i] = "freed"]
    /\ attached' = [attached EXCEPT ![i] = FALSE]
    /\ rc' = IF abort THEN [rc EXCEPT ![i] = "stopped"] ELSE rc
    /\ UNCHANGED <<phase, graph, level, shown, held, abort, verdict>>

WorkerEnds(i) ==
    /\ at[i] = "ended" /\ at' = [at EXCEPT ![i] = "over"]
    /\ Mark(i, rc[i])
    /\ UNCHANGED <<phase, graph, level, rc, engine, attached, held, abort, verdict>>

NextLevel ==
    /\ phase = "running" /\ \A i \in AtLevel : at[i] = "over"
    /\ \E i \in Nodes : layer[i] > level
    /\ level' = level + 1
    /\ UNCHANGED <<phase, graph, at, rc, engine, table, abort, verdict>>

\* All layers are through: failed if any node is.  The slot may be reused.
End ==
    /\ phase = "running" /\ \A i \in Nodes : at[i] = "over"
    /\ phase' = "over"
    /\ verdict' = IF \E i \in Nodes : rc[i] # "ok" THEN "failed" ELSE "ok"
    /\ UNCHANGED <<graph, level, at, rc, engine, table, abort>>

Next ==
    \/ \E u, v \in Nodes : AddEdge(u, v)
    \/ ParseFails \/ LayerStarts \/ LayerNext \/ CycleFound \/ NoAgent \/ Begin
    \/ SlotTaken \/ Abort \/ Look \/ StartBatch \/ NextLevel \/ End
    \/ \E i \in Nodes : \/ WorkerStarts(i) \/ NoTask(i) \/ NoEngine(i) \/ Attach(i)
                        \/ Detach(i) \/ Free(i) \/ WorkerEnds(i)

Spec == Init /\ [][Next]_flowVars
-----------------------------------------------------------------------------
\* A document is refused for a cycle only if it has one, and in a graph that
\* is accepted every edge leads to a later layer.
LayersFit ==
    /\ phase = "cyclic" => \E S \in (SUBSET Nodes) \ {{}} : \A v \in S : Pred(v) \cap S # {}
    /\ phase = "running" => \A e \in edges : layer[e[1]] < layer[e[2]]

\* A node begins only when everything it builds on ended well.
NodeHasInputs ==
    \A i \in Busy : \A u \in Pred(i) : at[u] = "over" /\ rc[u] = "ok"

\* A flow counts as done exactly if all of its nodes are; a node was left
\* out only if a node before it failed; and the table shows the same.
VerdictFits ==
    phase = "over" =>
        /\ verdict = "ok" <=> \A i \in Nodes : rc[i] = "ok"
        /\ \A i \in Nodes : rc[i] = "blocked" => \E u \in Pred(i) : rc[u] # "ok"
        /\ held => shown = rc

\* Whoever asks for the progress of a flow finds engines that are alive:
\* the table never points to one that was freed.
EngineLives ==
    /\ \A i \in Nodes : attached[i] => engine[i] = "live"
    /\ Cardinality(Busy) <= MaxParallel

FlowSafe == LayersFit /\ NodeHasInputs /\ VerdictFits /\ EngineLives
=============================================================================
