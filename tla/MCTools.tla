------------------------------ MODULE MCTools ------------------------------
(***************************************************************************)
(* Small instances of what a tool call goes through: the transaction       *)
(* around it, the shell command, the events it publishes, and the text     *)
(* that goes to a model and comes from it.  The variable part says which   *)
(* of them a behaviour is about, the others stay in their initial states.  *)
(***************************************************************************)
EXTENDS Transaction, TLC

CONSTANTS
    Parts,                                                                  \* those looked at
    f, g,                                                                   \* Transaction
    Capacity, Items, Threads, Subscribers, MaxPublish, MaxDispatch, StoreBuffers, \* EventBus
    Plain, Quote, Least, MaxText, MaxDelta, MaxFailures,                     \* Secrets
    FirstRoom, Slack, PipeRoom, Limit, MaxOutput                             \* Processes

OneFileCalls == {<<f>>}
EitherFile == {<<f>>, <<g>>}
TwoFileCalls == {<<f, g>>}
OnceOrTwice == {<<f>>, <<f, f>>}   \* a selection may name a file twice

VARIABLES
    part,
    enq, deq, item, ready, busy, got, draining, buffered, subs, since,
    spot, slot, dispatched, snap, published, delivered, lost,
    listed, unlisted, strict, stage, message, sent, text, start, matches, cut,
    out, answer, failures, before,
    backend, order, place, child, status, stray, wrote, read, room, late, at,
    exit, timedOut, failed, result, saved, misses, wroteBefore, unseen

Bus == INSTANCE EventBus WITH pc <- spot
Secret == INSTANCE Secrets WITH
    Chars <- {Plain, Quote}, Quoted <- {Quote}, Escape <- Plain,
    Passwords <- {<<Quote, Plain>>}, Messages <- {<<Plain, Quote, Plain>>},
    since <- listed, pending <- unlisted
Shell == INSTANCE Processes WITH
    call <- order, failures <- misses, before <- wroteBefore

busVars == <<enq, deq, item, ready, busy, got, draining, buffered, subs, since,
             spot, slot, dispatched, snap, published, delivered, lost>>
secretVars == <<listed, unlisted, strict, stage, message, sent, text, start, matches,
                cut, out, answer, failures, before>>
shellVars == <<backend, order, place, child, status, stray, wrote, read, room, late, at,
               exit, timedOut, failed, result, saved, misses, wroteBefore, unseen>>
toolVars == <<part, vars, busVars, secretVars, shellVars>>

\* Transaction and Processes start in many states; elsewhere one of them is enough.
ToolsInit ==
    /\ part \in Parts
    /\ Init /\ Bus!Init /\ Secret!Init /\ Shell!Init
    /\ part # "transaction" => file = [p \in Paths |-> Absent]
    /\ part # "shell" => backend = "local" /\ order = [command |-> TRUE, cmd |-> FALSE]

ToolsNext ==
    /\ UNCHANGED part
    /\ \/ part = "transaction" /\ Next /\ UNCHANGED <<busVars, secretVars, shellVars>>
       \/ part = "bus" /\ Bus!Next /\ UNCHANGED <<vars, secretVars, shellVars>>
       \/ part = "secrets" /\ Secret!Next /\ UNCHANGED <<vars, busVars, shellVars>>
       \/ part = "shell" /\ Shell!Next /\ UNCHANGED <<vars, busVars, secretVars>>

ToolsSpec == ToolsInit /\ [][ToolsNext]_toolVars

\* A buffer starts with room for its terminator.
ASSUME ShellAssumption ==
    /\ FirstRoom \in Nat \ {0}
    /\ Slack \in Nat /\ PipeRoom \in Nat /\ Limit \in Nat /\ MaxFailures \in Nat

\* The threads differ in nothing.
ThreadSymmetry == Permutations(Threads)
-----------------------------------------------------------------------------
\* Every handler is given every event published after it was registered, in the
\* order of their positions, whoever delivers.
BusSafe == Bus!BusSafe

\* No password that was known in time is sent to a model or shown from its
\* answer, however the answer is cut into pieces, and nothing else is withheld.
SecretsSafe == Secret!SecretsSafe

\* A shell command's result agrees with how it ended, its output is read to the
\* end, and it is gone when the run goes on.
CommandsSafe == Shell!CommandsSafe
=============================================================================
