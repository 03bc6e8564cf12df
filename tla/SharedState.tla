---------------------------- MODULE SharedState ----------------------------
(***************************************************************************)
(* What all components and clients share: the namespaced slots of          *)
(* runtime/state_store.c, the blackboard (cognition/blackboard.c), and the *)
(* export and import of the whole state (cognitive_os_agent.c).  Each      *)
(* store writes its file anew, in place, under its lock, with every change.*)
(*                                                                         *)
(* API requests take turns and may have several steps (request); tasks end *)
(* and flows post their results beside them.  Facts are long-term memory,  *)
(* kept here only so far as an export takes them.                          *)
(***************************************************************************)
EXTENDS Integers, FiniteSets

CONSTANTS
    Slots, Tasks,       \* keys of clients, and the namespace "task"
    Topics, Facts,      \* keys of the blackboard, and of long-term memory
    Values, Queued, Done,
    None, Torn,
    MaxChanges, MaxFailures, MaxCrashes     \* bounds

VARIABLES
    store, stateFile, bound,    \* bound: the path is set, changes are flushed
    board, boardFile,
    facts, export,              \* the exported file: [store, facts], or None, Torn
    task,                       \* task |-> None, "accepted", "ended", "gone" at restart
    request,
    changes, failures, crashes,
    unsaved,    \* ghost: imported or failed to save since the last flush
    missed,     \* ghost: the board's file misses a change
    late        \* ghost: tasks whose slot was written after they ended

sharedVars == <<store, stateFile, bound, board, boardFile, facts, export, task, request,
                changes, failures, crashes, unsaved, missed, late>>

Keys == Slots \union Tasks
Empty == [k \in Keys |-> None]
Bare == [t \in Topics |-> None]
NoRequest == [step |-> "none", task |-> None, copy |-> None]

Init ==
    /\ store = Empty /\ stateFile = Empty /\ bound = TRUE
    /\ board = Bare /\ boardFile = Bare
    /\ facts = [f \in Facts |-> None] /\ export = None
    /\ task = [t \in Tasks |-> None] /\ request = NoRequest
    /\ changes = 0 /\ failures = 0 /\ crashes = 0
    /\ unsaved = FALSE /\ missed = FALSE /\ late = {}

-----------------------------------------------------------------------------
KeepStore == UNCHANGED <<store, stateFile, bound, unsaved>>
KeepBoard == UNCHANGED <<board, boardFile, missed>>
KeepRest == UNCHANGED <<facts, export, crashes>>
Counted == changes < MaxChanges /\ changes' = changes + 1

\* fs_write_file, in place: with failure what was there, or a part.
Written(file, old, new) ==
    \/ file = new /\ UNCHANGED failures
    \/ failures < MaxFailures /\ failures' = failures + 1 /\ file \in {old, Torn}

\* ss_flush.  Nothing looks at its result.
Flush ==
    IF bound THEN /\ stateFile' \in {store', stateFile, Torn}
                  /\ Written(stateFile', stateFile, store')
                  /\ unsaved' = (stateFile' # store')
    ELSE unsaved' = TRUE /\ UNCHANGED <<stateFile, failures>>

\* state_store_set, state_store_remove: what is there already is not flushed.
Set(k, v) ==
    /\ store' = [store EXCEPT ![k] = v] /\ UNCHANGED bound
    /\ IF store[k] = v THEN UNCHANGED <<stateFile, failures, unsaved>> ELSE Flush

\* state_store_task_set; what was there is freed, and whoever has borrowed it has
\* nothing any more.
SetTask(t, v) == Set(t, v)
Lent(k, v) == request.step = "reply" /\ request.task = k /\ store[k] # v

\* save_locked
Mirror ==
    /\ boardFile' \in {board', boardFile, Torn}
    /\ Written(boardFile', boardFile, board') /\ missed' = (boardFile' # board')

\* blackboard_put; an agent or a flow that posts.
Post(t, v) ==
    /\ Counted /\ board' = [board EXCEPT ![t] = v] /\ Mirror
    /\ KeepStore /\ KeepRest /\ UNCHANGED <<task, request, late>>

-----------------------------------------------------------------------------
\* Requests

\* h_state_put, h_state_del
Put(k, v) ==
    /\ request = NoRequest /\ Counted /\ Set(k, v)
    /\ KeepBoard /\ KeepRest /\ UNCHANGED <<task, request, late>>

\* h_blackboard_put, of a client
PutTopic(t, v) == request = NoRequest /\ Post(t, v)

\* h_state_get, of one slot: a borrowed value, and then the answer.
Get(k) ==
    /\ request = NoRequest /\ Counted /\ store[k] # None
    /\ request' = [step |-> "reply", task |-> k, copy |-> store[k]]
    /\ KeepStore /\ KeepBoard /\ KeepRest /\ UNCHANGED <<task, failures, late>>

Reply ==
    /\ request.step = "reply" /\ request' = NoRequest
    /\ KeepStore /\ KeepBoard /\ KeepRest /\ UNCHANGED <<task, changes, failures, late>>

\* memory_remember
Remember(f, v) ==
    /\ Counted /\ facts' = [facts EXCEPT ![f] = v]
    /\ KeepStore /\ KeepBoard
    /\ UNCHANGED <<export, task, request, failures, crashes, late>>

\* h_task_create submits the task; a worker may end it before the request
\* has recorded it.
CreateTask(t) ==
    /\ request = NoRequest /\ Counted /\ task[t] = None
    /\ task' = [task EXCEPT ![t] = "accepted"]
    /\ request' = [NoRequest EXCEPT !.step = "record", !.task = t]
    /\ KeepStore /\ KeepBoard /\ KeepRest /\ UNCHANGED <<failures, late>>

RecordTask ==
    LET t == request.task IN
    /\ request.step = "record" /\ request' = NoRequest
    /\ SetTask(t, Queued)
    /\ late' = IF task[t] = "ended" THEN late \union {t} ELSE late
    /\ KeepBoard /\ KeepRest /\ UNCHANGED <<task, changes>>

\* task_done
EndTask(t) ==
    /\ task[t] = "accepted" /\ task' = [task EXCEPT ![t] = "ended"]
    /\ SetTask(t, Done)
    /\ request' = IF Lent(t, Done) THEN [request EXCEPT !.copy = Torn] ELSE request
    /\ KeepBoard /\ KeepRest /\ UNCHANGED <<changes, late>>

\* state_store_json: all slots, under the lock.
Copied == [store |-> store, facts |-> None]

\* state_export copies the slots, then the facts, and writes both.
StartExport ==
    /\ request' = [NoRequest EXCEPT !.step = "facts", !.copy = Copied]
    /\ KeepStore /\ KeepBoard /\ KeepRest /\ UNCHANGED <<task, failures, late>>

\* h_state_snapshot
Snapshot == request = NoRequest /\ Counted /\ StartExport

ExportFacts ==
    /\ request.step = "facts"
    /\ request' = [request EXCEPT !.step = "write", !.copy.facts = facts]
    /\ KeepStore /\ KeepBoard /\ KeepRest /\ UNCHANGED <<task, changes, failures, late>>

WriteExport ==
    /\ request.step = "write" /\ request' = NoRequest
    /\ export' \in {request.copy, export, Torn} /\ Written(export', export, request.copy)
    /\ KeepStore /\ KeepBoard /\ UNCHANGED <<facts, task, changes, crashes, late>>

\* What an import makes of old: nothing is removed.
Merged(old, new) == [k \in DOMAIN old |-> IF new[k] = None THEN old[k] ELSE new[k]]

\* state_import; state_store_load_json does not flush.
StartImport ==
    /\ export \notin {None, Torn}
    /\ store' = Merged(store, export.store)
    /\ unsaved' = (unsaved \/ store' # store)
    /\ late' = late \union {t \in Tasks : task[t] = "ended" /\ store'[t] # store[t]}
    /\ request' = [NoRequest EXCEPT !.step = "import", !.copy = export]
    /\ KeepBoard /\ KeepRest /\ UNCHANGED <<stateFile, bound, task, failures>>

\* h_state_restore
Restore == request = NoRequest /\ Counted /\ StartImport

ImportFacts ==
    /\ request.step = "import" /\ request' = NoRequest
    /\ facts' = Merged(facts, request.copy.facts)
    /\ KeepStore /\ KeepBoard
    /\ UNCHANGED <<export, task, changes, failures, crashes, late>>

-----------------------------------------------------------------------------
\* runtime_init: a file that cannot be read gives an empty store, which is
\* saved over it; if that fails, nothing is flushed from then on.  The board
\* leaves its file alone until the next post.  Facts are not looked at here.
Restart(file, posts) ==
    /\ store' = IF file = Torn THEN Empty ELSE file
    /\ IF file # Torn THEN stateFile' = file /\ bound' = TRUE /\ UNCHANGED failures
       ELSE /\ stateFile' \in {Empty, Torn} /\ Written(stateFile', file, Empty)
            /\ bound' = (stateFile' = Empty)
    /\ unsaved' = (stateFile' # store')
    /\ board' = IF posts = Torn THEN Bare ELSE posts
    /\ boardFile' = posts /\ missed' = (posts = Torn)

Crash ==
    /\ crashes < MaxCrashes /\ crashes' = crashes + 1
    /\ \E file \in {stateFile, Torn}, posts \in {boardFile, Torn} : Restart(file, posts)
    /\ export' \in IF request.step = "write" THEN {export, Torn} ELSE {export}
    /\ request' = NoRequest
    /\ task' = [t \in Tasks |-> IF task[t] = None THEN None ELSE "gone"]
    /\ UNCHANGED <<facts, changes, late>>

Next ==
    \/ \E k \in Slots, v \in Values \union {None} : Put(k, v)
    \/ \E t \in Topics, v \in Values : Post(t, v) \/ PutTopic(t, v)
    \/ \E k \in Keys : Get(k)
    \/ \E f \in Facts, v \in Values : Remember(f, v)
    \/ \E t \in Tasks : CreateTask(t) \/ EndTask(t)
    \/ Reply \/ RecordTask \/ Snapshot \/ ExportFacts \/ WriteExport
    \/ Restore \/ ImportFacts \/ Crash

Spec == Init /\ [][Next]_sharedVars
-----------------------------------------------------------------------------
\* "after either call the store auto-flushes on every mutation" (state_store.h),
\* "mirror every put/remove" (blackboard.h): a restart finds what there is,
\* while nobody sees it written.  Not so of what was imported, or while the
\* last write of a change has failed.
RestartKeepsShared ==
    /\ ~unsaved => stateFile = store
    /\ ~missed => boardFile = board

\* "queued -> terminal" (state_store.h): the slot of a task that has ended says
\* so, and no other slot does.  Unless the request that created the task was
\* slower than the task, or an import brought back an older state.
SlotFollowsTask ==
    \A t \in Tasks :
        /\ task[t] = "ended" /\ t \notin late => store[t] = Done
        /\ store[t] = Done => task[t] \in {"ended", "gone"}

\* An export holds slots as they were together; an import brings every one of
\* them back, and keeps what was made since.
ImportBringsBack ==
    request.step = "import" =>
        \A k \in Slots : request.copy.store[k] # None => store[k] = request.copy.store[k]

\* "one entry (borrowed value)" (api_rest.c): what a client's slot held is still
\* there when the answer is written, since requests take turns; what a task's
\* slot held is lost when the task ends meanwhile, and only then.
BorrowedLasts ==
    request.step = "reply" =>
        IF request.copy = Torn THEN request.task \in Tasks /\ store[request.task] = Done
        ELSE request.copy = store[request.task]

SharedSafe == RestartKeepsShared /\ SlotFollowsTask /\ ImportBringsBack /\ BorrowedLasts
=============================================================================
