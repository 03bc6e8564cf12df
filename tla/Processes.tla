----------------------------- MODULE Processes -----------------------------
(***************************************************************************)
(* One shell command of a run: the way to it (execution/executor.c,        *)
(* action/tools.c, action/tool_shell.c), the parent that reads its output  *)
(* and waits for it (os/posix/proc.c), and what the run is told of it.     *)
(*                                                                         *)
(* Output is counted in units: of a buffer of Room units the last is kept  *)
(* for the terminator, and the buffer doubles when less than Slack is left.*)
(* The figure for its size is doubled first: without memory for the larger *)
(* buffer the old one stays under the doubled figure, the reads after that *)
(* may run past its end, and what happens then is undefined - here, the    *)
(* process dies of it at some point or goes on.                            *)
(* Policy, metrics, character sets and Windows are left out.               *)
(***************************************************************************)
EXTENDS Integers

CONSTANTS
    FirstRoom, Slack,   \* 65536 and 1024 bytes
    PipeRoom,           \* what a pipe holds
    Limit,              \* the longest output a model is shown whole
    MaxOutput, MaxFailures

VARIABLES
    backend,            \* where commands are configured to run
    call,               \* which arguments the model gave, and what it is now
    place,              \* where the command was started
    child,              \* "none", "running", "ended" or "reaped"
    status,             \* how it ended
    stray,              \* whether something it started keeps the pipe open
    wrote, read, room,  \* output: written, read; the figure for the buffer's size
    late,               \* the deadline has passed
    at,                 \* where the parent is
    exit, timedOut,     \* proc_result
    failed,             \* memory ran out while reading
    result, saved,      \* what the run is told; the file with the whole output
    failures,
    before,             \* history: what the child had written when it ended
    unseen              \* history: it had ended when the parent stopped looking

procVars == <<backend, call, place, child, status, stray, wrote, read, room, late, at,
              exit, timedOut, failed, result, saved, failures, before, unseen>>

Backends == {"local", "wsl", "remote"}
Calls == [command : BOOLEAN, cmd : BOOLEAN]

Init ==
    /\ backend \in Backends /\ call \in Calls /\ place = "none"
    /\ child = "none" /\ status = "none" /\ stray = FALSE
    /\ wrote = 0 /\ read = 0 /\ room = FirstRoom
    /\ late = FALSE /\ at = "route"
    /\ exit = 0 /\ timedOut = FALSE /\ failed = FALSE
    /\ result = "none" /\ saved = FALSE /\ failures = 0
    /\ before = 0 /\ unseen = FALSE

output == <<wrote, read, room>>
outcome == <<exit, timedOut, failed>>
answer == <<result, saved>>
history == <<before, unseen>>

Fault == failures < MaxFailures /\ failures' = failures + 1

-----------------------------------------------------------------------------
(* The way to the command *)

\* executor_new_wsl, executor_new_remote and route_execute: a shell command that
\* is given as "cmd" is wrapped for its target, and nothing but "cmd" is kept.
Route ==
    /\ at = "route" /\ at' = "start"
    /\ call' = IF backend # "local" /\ call.cmd THEN [command |-> FALSE, cmd |-> TRUE] ELSE call
    /\ UNCHANGED <<backend, place, child, status, stray, output, late, outcome, answer,
                   failures, history>>

\* local_execute, tool_execute, shell_exec_impl: the command is in "command".
Refuse ==
    /\ at = "start" /\ ~call.command
    /\ at' = "over" /\ result' = "failed"
    /\ UNCHANGED <<backend, call, place, child, status, stray, output, late, outcome,
                   saved, failures, history>>

Start ==
    /\ at = "start" /\ call.command
    /\ at' = "read" /\ child' = "running" /\ place' = "here"
    /\ UNCHANGED <<backend, call, status, stray, output, late, outcome, answer, failures,
                   history>>

\* No pipe, no process, or no memory: then the child is killed at once.
StartFails ==
    /\ at = "start" /\ call.command /\ Fault
    /\ at' = "over" /\ result' = "failed"
    /\ \/ UNCHANGED <<child, status, place>>
       \/ child' = "reaped" /\ status' = "killed" /\ place' = "here"
    /\ UNCHANGED <<backend, call, stray, output, late, outcome, saved, history>>

-----------------------------------------------------------------------------
(* The child and the clock *)

Write ==
    /\ child = "running" \/ stray
    /\ wrote < MaxOutput /\ wrote - read < PipeRoom
    /\ at \notin {"spill", "over", "dead"}  \* then nobody holds the other end
    /\ wrote' = wrote + 1
    /\ UNCHANGED <<backend, call, place, child, status, stray, read, room, late, at,
                   outcome, answer, failures, history>>

\* The shell ends; what it started in the background may keep its output open.
Exit ==
    /\ child = "running" /\ child' = "ended"
    /\ status' \in {"zero", "error"} /\ stray' \in BOOLEAN
    /\ before' = wrote
    /\ unseen' = (at \in {"last", "kill"})
    /\ UNCHANGED <<backend, call, place, output, late, at, outcome, answer, failures>>

Expire ==
    /\ ~late /\ at \in {"read", "look", "wait"} /\ late' = TRUE
    /\ UNCHANGED <<backend, call, place, child, status, stray, output, at, outcome, answer,
                   failures, history>>

-----------------------------------------------------------------------------
(* proc_run_in *)

Free == room - read - 1

\* The buffer as it was allocated.
Held == IF failed THEN room \div 2 ELSE room

\* Room after a read.
Grown(n) == IF n + Slack > room THEN 2 * room ELSE room

\* The deadline is looked at before every read.
GiveUp ==
    /\ at = "read" /\ late
    /\ at' = "last" /\ unseen' = (child = "ended")
    /\ UNCHANGED <<backend, call, place, child, status, stray, output, late, outcome,
                   answer, failures, before>>

ReadSome(n) ==
    /\ at = "read" /\ ~late /\ n <= wrote - read /\ n <= Free
    /\ read' = read + n /\ room' = Grown(read')
    /\ UNCHANGED <<backend, call, place, child, status, stray, wrote, late, at, outcome,
                   answer, failures, history>>

\* Without memory for a larger buffer the loop is left; the figure is doubled.
GrowFails(n) ==
    /\ at = "read" /\ ~late /\ n <= wrote - read /\ n <= Free
    /\ read + n + Slack > room /\ Fault
    /\ read' = read + n /\ room' = 2 * room /\ failed' = TRUE
    /\ at' = "last" /\ unseen' = (child = "ended")
    /\ UNCHANGED <<backend, call, place, child, status, stray, wrote, late, exit,
                   timedOut, answer, before>>

ReadNothing ==
    /\ at = "read" /\ ~late /\ wrote = read /\ at' = "look"
    /\ UNCHANGED <<backend, call, place, child, status, stray, output, late, outcome,
                   answer, failures, history>>

\* waitpid gives the status once.
Reap ==
    /\ at = "look" /\ child = "ended"
    /\ child' = "reaped" /\ exit' = IF status = "zero" THEN 0 ELSE 1
    /\ at' = "last"
    /\ UNCHANGED <<backend, call, place, status, stray, output, late, timedOut, failed,
                   answer, failures, history>>

\* time_sleep_ms
Sleep ==
    /\ at = "look" /\ child = "running" /\ at' = "read"
    /\ UNCHANGED <<backend, call, place, child, status, stray, output, late, outcome,
                   answer, failures, history>>

\* The second waitpid: a child that has ended is reaped, its status is not read.
LastLook ==
    /\ at = "last"
    /\ IF child = "running" THEN at' = "kill" /\ UNCHANGED child
       ELSE at' = "drain" /\ child' = "reaped"
    /\ UNCHANGED <<backend, call, place, status, stray, output, late, outcome, answer,
                   failures, history>>

\* The signal reaches the shell only, and comes too late for one that has ended.
Kill ==
    /\ at = "kill" /\ at' = "drain"
    /\ child' = "reaped" /\ timedOut' = TRUE /\ exit' = -1
    /\ IF child = "running"
       THEN status' = "killed" /\ stray' \in BOOLEAN /\ before' = wrote
       ELSE UNCHANGED <<status, stray, before>>
    /\ UNCHANGED <<backend, call, place, output, late, failed, answer, failures, unseen>>

Drain(n) ==
    /\ at = "drain" /\ n <= wrote - read /\ n <= Free
    /\ read' = read + n
    /\ UNCHANGED <<backend, call, place, child, status, stray, wrote, room, late, at,
                   outcome, answer, failures, history>>

\* Mutated form: what the last reads missed is not looked for.
DrainedAtOnce ==
    /\ at = "drain" /\ at' = "spill"
    /\ UNCHANGED <<backend, call, place, child, status, stray, output, late, outcome,
                   answer, failures, history>>

\* Nothing is left to read, or no room for it.
Drained ==
    /\ at = "drain" /\ (wrote = read \/ Free = 0)
    /\ at' = "spill"
    /\ UNCHANGED <<backend, call, place, child, status, stray, output, late, outcome,
                   answer, failures, history>>

\* Output, or the terminator, was written behind the end of the buffer.
Overrun ==
    /\ at \in {"drain", "spill"} /\ read >= Held
    /\ at' = "dead"
    /\ UNCHANGED <<backend, call, place, child, status, stray, output, late, outcome,
                   answer, failures, history>>

-----------------------------------------------------------------------------
(* What the run is told *)

\* shell_exec_impl
Ok == ~timedOut /\ exit = 0

\* tool_execute, truncate_output: what is too long to be shown is saved.
Short ==
    /\ at = "spill" /\ read <= Limit
    /\ at' = "over" /\ result' = IF Ok THEN "ok" ELSE "failed"
    /\ UNCHANGED <<backend, call, place, child, status, stray, output, late, outcome,
                   saved, failures, history>>

Spill ==
    /\ at = "spill" /\ read > Limit
    /\ at' = "over" /\ result' = (IF Ok THEN "ok" ELSE "failed") /\ saved' = TRUE
    /\ UNCHANGED <<backend, call, place, child, status, stray, output, late, outcome,
                   failures, history>>

SpillFails ==
    /\ at = "spill" /\ read > Limit /\ Fault
    /\ at' = "over" /\ result' = "failed"
    /\ UNCHANGED <<backend, call, place, child, status, stray, output, late, outcome,
                   saved, history>>

Next ==
    \/ Route \/ Refuse \/ Start \/ StartFails
    \/ Write \/ Exit \/ Expire
    \/ GiveUp \/ ReadNothing \/ Reap \/ Sleep \/ LastLook \/ Kill \/ Drained \/ Overrun
    \/ \E n \in 1..PipeRoom : ReadSome(n) \/ GrowFails(n) \/ Drain(n)
    \/ Short \/ Spill \/ SpillFails

Spec == Init /\ [][Next]_procVars

-----------------------------------------------------------------------------
(* Properties *)

\* A command that failed is reported so, unless it ended while the parent was
\* leaving for the deadline or for want of memory; and one that was in time is
\* not reported as late. (proc.c, the two waitpids)
ResultFits ==
    at = "over" /\ child = "reaped" =>
        /\ result = "ok" => status = "zero" \/ unseen
        /\ timedOut => late \/ failed
        /\ status = "killed" => result = "failed"

\* What a command wrote before it ended is read to the end, however the reads,
\* its end and the deadline fall, unless the last look found no room for it.
\* (proc.c "drain remaining")
OutputFits ==
    at \in {"spill", "over"} /\ child = "reaped" /\ place = "here" =>
        read >= before \/ Free = 0

\* The command is gone when its result is given or the process dies, what was
\* read never exceeds the buffer unless memory ran out - so nothing else kills the
\* process -, and a result that is called good is shown or saved whole.
NothingLeft ==
    /\ at \in {"over", "dead"} => child \in {"none", "reaped"}
    /\ read < room
    /\ read >= Held \/ at = "dead" => failed
    /\ result = "ok" => read <= Limit \/ saved

CommandsSafe == ResultFits /\ OutputFits /\ NothingLeft

\* executor.h: "rewriting `shell` tool commands to run inside the target
\* environment".
RunsInItsTarget == place = "here" => backend = "local"
=============================================================================
