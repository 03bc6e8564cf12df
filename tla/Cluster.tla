------------------------------ MODULE Cluster ------------------------------
(***************************************************************************)
(* The registry of nodes (cluster/node.c), the requests to it and the      *)
(* thread that beats for this node and marks the silent ones               *)
(* (heartbeat_loop).  Time is counted in periods of that thread, which     *)
(* starts a pass when it is due and takes less than one.  Every operation  *)
(* holds the lock; the clock is read before.  Nothing is kept on disk;     *)
(* a node is its liveness: endpoint, role and tags change nothing here.    *)
(***************************************************************************)
EXTENDS Integers

CONSTANTS
    Self, Others,
    Stale,          \* periods of silence until a node is down; 3
    None,
    MaxTime         \* bound

VARIABLES nodes, now, beat

clusterVars == <<nodes, now, beat>>

Nodes == Others \union {Self}
Members == {n \in Nodes : nodes[n] # None}
Up(t) == [status |-> "up", seen |-> t]

Init ==
    /\ nodes = [n \in Nodes |-> IF n = Self THEN Up(0) ELSE None]
    /\ now = 0 /\ beat = [step |-> "wait", due |-> 0, clock |-> 0]

\* cluster_upsert_ex: "keeps liveness" of a node that is known.
Join(n) ==
    /\ nodes' = IF nodes[n] = None THEN [nodes EXCEPT ![n] = Up(now)] ELSE nodes
    /\ UNCHANGED <<now, beat>>

\* cluster_heartbeat; an unknown node is refused.
Heartbeat(n) == nodes' = IF nodes[n] = None THEN nodes ELSE [nodes EXCEPT ![n] = Up(now)]

\* h_cluster_heartbeat
Call(n) == nodes[n] # None /\ Heartbeat(n) /\ UNCHANGED <<now, beat>>

\* cluster_remove, of this node too
Leave(n) ==
    /\ nodes[n] # None /\ nodes' = [nodes EXCEPT ![n] = None]
    /\ UNCHANGED <<now, beat>>

\* heartbeat_loop
BeatSelf ==
    /\ beat.step = "wait" /\ beat.due = now
    /\ Heartbeat(Self) /\ beat' = [beat EXCEPT !.step = "clock"] /\ UNCHANGED now

\* cluster_mark_down reads the clock, waits for the lock, and marks.
ReadClock ==
    /\ beat.step = "clock"
    /\ beat' = [beat EXCEPT !.step = "mark", !.clock = now] /\ UNCHANGED <<nodes, now>>

Silent(n) == beat.clock - nodes[n].seen > Stale
MarkDown ==
    /\ beat.step = "mark"
    /\ nodes' = [n \in Nodes |-> IF n \in Members /\ Silent(n)
                                 THEN [nodes[n] EXCEPT !.status = "down"] ELSE nodes[n]]
    /\ beat' = [beat EXCEPT !.step = "wait", !.due = now + 1] /\ UNCHANGED now

Tick ==
    /\ now < MaxTime /\ now' = now + 1
    /\ IF beat.step = "wait" THEN now < beat.due ELSE now <= beat.due
    /\ UNCHANGED <<nodes, beat>>

Next ==
    \/ \E n \in Nodes : Join(n) \/ Call(n) \/ Leave(n)
    \/ BeatSelf \/ ReadClock \/ MarkDown \/ Tick

Spec == Init /\ [][Next]_clusterVars
-----------------------------------------------------------------------------
\* A node is shown as down only while nothing was heard of it for long enough,
\* although the clock is read before a late sign comes in ...
DownWasSilent ==
    \A n \in Members : nodes[n].status = "down" => now - nodes[n].seen > Stale

\* ... and as up only if it was heard of, with three periods for the pass that finds out.
UpWasHeard ==
    \A n \in Members : nodes[n].status = "up" => now - nodes[n].seen <= Stale + 3

\* This node is up as long as it is in its own list.
SelfIsUp == Self \in Members => nodes[Self].status = "up"

ClusterSafe == DownWasSilent /\ UpWasHeard /\ SelfIsUp
=============================================================================
