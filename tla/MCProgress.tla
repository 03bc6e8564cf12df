----------------------------- MODULE MCProgress -----------------------------
(***************************************************************************)
(* What must eventually happen, in small instances of three components     *)
(* that share no state here: the chat lanes (module Lanes), the workers of *)
(* the scheduler and the publishers of the event bus.  The variable part   *)
(* says which of them a behaviour is about.                                *)
(***************************************************************************)
EXTENDS Lanes, TLC

CONSTANTS
    t1, t2, t3, s1, s2,                                             \* Lanes
    MaxId, MaxWorkers, InitWorkers, MaxActive, MaxRejected,         \* Scheduler
    Priorities, HistoryLimits, JournalMarks, Borrowable, Clients,
    Capacity, Items, Threads, Subscribers, MaxPublish, MaxDispatch, \* EventBus
    StoreBuffers

\* Two tasks of one session, one of another.
OneShared == t1 :> s1 @@ t2 :> s1 @@ t3 :> s2

VARIABLES
    part,
    queue, all, yield_list, workers, active, completing, exited, rejected,
    next_id, shutdown_flag, history_count, priority, status, completed,
    users, borrowed, timed_out, execution_failed, cancel_flag, run, home,
    pc, cur, holding, asked, closer,
    enq, deq, item, ready, busy, got, draining, buffered, subs, since,
    spot, slot, dispatched, snap, published, delivered, lost

Sched == INSTANCE Scheduler WITH references <- users, owner <- home, held <- holding
Bus == INSTANCE EventBus WITH pc <- spot

schedVars == <<queue, all, yield_list, workers, active, completing, exited, rejected,
               next_id, shutdown_flag, history_count, priority, status, completed,
               users, borrowed, timed_out, execution_failed, cancel_flag, run, home,
               pc, cur, holding, asked, closer>>
busVars == <<enq, deq, item, ready, busy, got, draining, buffered, subs, since,
             spot, slot, dispatched, snap, published, delivered, lost>>
allVars == <<part, lanesVars, schedVars, busVars>>

Lane(A) == part = "lanes" /\ A /\ UNCHANGED <<part, schedVars, busVars>>
Worker(A) == part = "scheduler" /\ A /\ UNCHANGED <<part, lanesVars, busVars>>
Publisher(A) == part = "bus" /\ A /\ UNCHANGED <<part, lanesVars, schedVars>>

ProgressInit ==
    /\ part \in {"lanes", "scheduler", "bus"}
    /\ Init /\ Sched!Init /\ Bus!Init

ProgressNext == Lane(Next) \/ Worker(Sched!Next) \/ Publisher(Bus!Next)

\* The fairness of each module.
ProgressSpec ==
    /\ ProgressInit /\ [][ProgressNext]_allVars
    /\ \A t \in Tasks : WF_allVars(Lane(Run(t)))
    /\ \A w \in Sched!Worker : WF_allVars(Worker(Sched!Work(w)))
    /\ \A t \in Threads :
        /\ WF_allVars(Publisher(Bus!Pushed(t) \/ Bus!Drain(t)))
        /\ WF_allVars(Publisher(Bus!StoreVisible(t)))

-----------------------------------------------------------------------------
\* Every chat task gets its session and a lane, or gives up.
EveryChatLeaves == part = "lanes" => EveryTaskLeaves

\* Every accepted task reaches a terminal status.
AcceptedCompletes == Sched!AcceptedCompletes

\* After a shutdown request the workers drain the queue and leave.
ShutdownDrains == Sched!ShutdownDrains

\* Every accepted event is dispatched though its publisher may have lost the
\* flag and gone.
AcceptedIsDispatched == Bus!AcceptedIsDispatched
=============================================================================
