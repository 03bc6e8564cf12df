--------------------------------- MODULE Mcp ---------------------------------
(***************************************************************************)
(* Calls of a tool server over its standard input and output               *)
(* (action/mcp_conn.c).  The server is a process, started when needed and  *)
(* greeted with a handshake before its tools are listed or called; it may  *)
(* die at any time and answers when it likes.  Callers hold the manager's  *)
(* lock for a whole call and wait for the answer with their number until   *)
(* their time is over; what comes later stays in the buffer of the         *)
(* process.  A test of a connection has a process of its own, but takes    *)
(* its numbers from the same counter, without the lock.                    *)
(***************************************************************************)
EXTENDS Integers, Sequences, FiniteSets

CONSTANTS
    Callers,        \* tool calls of tasks, and syncs of the tools
    MaxId,          \* bound of the request numbers
    MaxProcess,     \* bound of the processes started
    MaxTests        \* bound of the connection tests

Free == "free"

VARIABLES
    process,        \* the number of the process, 0 before the first
    alive,
    greeted,        \* history: this process has answered the handshake
    asked,          \* requests the process has and has not answered
    buffer,         \* its answers, as read or waiting to be read
    initialized,    \* s->initialized
    tools,          \* s->tools, by the process that listed them; 0 for none
    jsonrpcId,      \* g_jsonrpc_id
    lock,           \* the manager's mutex
    call,           \* where each caller is
    test, tests,    \* the number a connection test has read, and how many did
    wrong,          \* history: numbers of answers others than the caller asked for
    handed, twice   \* history: the last number of a call; those given twice

server == <<process, alive, greeted, asked, buffer>>
session == <<initialized, tools>>
testing == <<test, tests>>
numbers == <<handed, twice>>
mcpVars == <<server, session, jsonrpcId, lock, call, testing, wrong, numbers>>

Idle == [at |-> "idle", list |-> FALSE, id |-> 0]

Init ==
    /\ process = 0 /\ alive = FALSE /\ greeted = FALSE /\ asked = {} /\ buffer = <<>>
    /\ initialized = FALSE /\ tools = 0
    /\ jsonrpcId = 1 /\ lock = Free
    /\ call = [c \in Callers |-> Idle]
    /\ test = 0 /\ tests = 0
    /\ wrong = {} /\ handed = 0 /\ twice = {}

To(c, at) == call' = [call EXCEPT ![c].at = at]

\* mcp_manager_call, or a sync of the tools.
Begin(c, list) ==
    /\ call[c].at = "idle" /\ lock = Free
    /\ lock' = c /\ call' = [call EXCEPT ![c] = [at |-> "ensuring", list |-> list, id |-> 0]]
    /\ UNCHANGED <<server, session, jsonrpcId, wrong, testing, numbers>>

End(c) ==
    /\ lock = c /\ call[c].at = "done"
    /\ lock' = Free /\ call' = [call EXCEPT ![c] = Idle]
    /\ UNCHANGED <<server, session, jsonrpcId, wrong, testing, numbers>>

\* A process of its own buffer and requests.
NewProcess ==
    /\ process < MaxProcess
    /\ process' = process + 1 /\ alive' = TRUE /\ greeted' = FALSE
    /\ asked' = {} /\ buffer' = <<>>

\* Mutated form: what was known of the process before is kept.
SpawnKeepsSession == NewProcess /\ UNCHANGED session

\* stdio_ensure, when the process is not there (any more).
Spawn == NewProcess /\ initialized' = FALSE /\ tools' = 0

SpawnFails(c) ==
    /\ ~alive /\ lock = c /\ call[c].at \in {"ensuring", "greet", "send"}
    /\ process' = process /\ alive' = FALSE /\ greeted' = FALSE /\ asked' = {} /\ buffer' = <<>>
    /\ initialized' = FALSE /\ tools' = 0
    /\ To(c, "done") /\ UNCHANGED <<jsonrpcId, lock, wrong, testing, numbers>>

\* stdio_ensure comes before the handshake and again before every request.
Ensure(c) ==
    /\ ~alive /\ lock = c /\ call[c].at \in {"ensuring", "greet", "send"} /\ Spawn
    /\ UNCHANGED <<call, jsonrpcId, lock, wrong, testing, numbers>>

\* ensure_initialized: the handshake is skipped when it is done, and the
\* list of the tools is when it is known.
Ensured(c) ==
    /\ alive /\ lock = c /\ call[c].at = "ensuring"
    /\ To(c, IF ~initialized THEN "greet"
             ELSE IF call[c].list /\ tools # 0 THEN "done" ELSE "send")
    /\ UNCHANGED <<server, session, jsonrpcId, lock, wrong, testing, numbers>>

\* rpc_stdio: a request with a number of its own.
Request(c) ==
    /\ alive /\ lock = c /\ call[c].at \in {"greet", "send"}
    /\ jsonrpcId + Cardinality(twice) <= MaxId
    /\ asked' = asked \cup {[id |-> jsonrpcId, of |-> c, greet |-> call[c].at = "greet"]}
    /\ jsonrpcId' = jsonrpcId + 1
    /\ call' = [call EXCEPT ![c].id = jsonrpcId,
                            ![c].at = IF @ = "greet" THEN "greeting" ELSE "calling"]
    /\ handed' = IF jsonrpcId > handed THEN jsonrpcId ELSE handed
    /\ twice' = IF jsonrpcId > handed THEN twice ELSE twice \cup {jsonrpcId}
    /\ UNCHANGED <<process, alive, greeted, buffer, session, lock, wrong, testing>>

\* The pipe is closed.
WriteFails(c) ==
    /\ lock = c /\ call[c].at \in {"greet", "send"}
    /\ To(c, "done") /\ UNCHANGED <<server, session, jsonrpcId, lock, wrong, testing, numbers>>

\* Mutated form: the first answer in the buffer.
TakeFirst(id) == IF buffer = <<>> THEN {} ELSE {1}

\* stdio_take_response: the line with this number; all before it go too.
Take(id) == {i \in DOMAIN buffer : buffer[i].id = id}

Receive(c) ==
    /\ lock = c /\ call[c].at \in {"greeting", "calling"}
    /\ \E i \in Take(call[c].id) :
          /\ buffer' = SubSeq(buffer, i + 1, Len(buffer))
          /\ wrong' = IF call[c].at = "calling" /\ buffer[i].of # c
                      THEN wrong \cup {buffer[i].id} ELSE wrong
    /\ IF call[c].at = "greeting"
       THEN \* the handshake went well, or was answered with an error
            \/ /\ initialized' = TRUE /\ UNCHANGED tools
               /\ To(c, IF call[c].list /\ tools # 0 THEN "done" ELSE "send")
            \/ To(c, "done") /\ UNCHANGED session
       ELSE /\ To(c, "done") /\ UNCHANGED initialized
            /\ tools' \in IF call[c].list THEN {tools, process} ELSE {tools}
    /\ UNCHANGED <<process, alive, greeted, asked, jsonrpcId, lock, testing, numbers>>

\* The time is over, or the process is dead.
GiveUp(c) ==
    /\ lock = c /\ call[c].at \in {"greeting", "calling"}
    /\ To(c, "done") /\ UNCHANGED <<server, session, jsonrpcId, lock, wrong, testing, numbers>>

\* mcp_manager_add_ex under a name in use, and mcp_manager_remove followed
\* by an addition: the process is ended and the session forgotten.
Replace ==
    /\ lock = Free /\ process > 0
    /\ alive' = FALSE /\ greeted' = FALSE /\ asked' = {} /\ buffer' = <<>>
    /\ initialized' = FALSE /\ tools' = 0
    /\ UNCHANGED <<process, jsonrpcId, lock, call, wrong, testing, numbers>>

\* mcp_test_json: the number is read and written back with no lock, while calls
\* go on (data race).
TestReads ==
    /\ test = 0 /\ tests < MaxTests /\ tests' = tests + 1
    /\ test' = jsonrpcId
    /\ UNCHANGED <<server, session, jsonrpcId, lock, call, wrong, numbers>>

TestWrites ==
    /\ test # 0 /\ test' = 0
    /\ jsonrpcId' = test + 1
    /\ UNCHANGED <<server, session, lock, call, tests, wrong, numbers>>

-----------------------------------------------------------------------------
\* The process, outside the program: answers its requests in any order,
\* and may die; what it wrote can still be read.
Answer ==
    \E r \in asked :
        /\ alive
        /\ asked' = asked \ {r} /\ buffer' = Append(buffer, r)
        /\ greeted' = (greeted \/ r.greet)
        /\ UNCHANGED <<process, alive, session, jsonrpcId, lock, call, wrong, testing,
                       numbers>>

Die ==
    /\ alive /\ alive' = FALSE /\ asked' = {}
    /\ UNCHANGED <<process, greeted, buffer, session, jsonrpcId, lock, call, wrong, testing,
                   numbers>>

Next ==
    \/ Answer \/ Die \/ Replace \/ TestReads \/ TestWrites
    \/ \E c \in Callers :
          \/ \E list \in BOOLEAN : Begin(c, list)
          \/ Ensure(c) \/ SpawnFails(c) \/ Ensured(c) \/ Request(c) \/ WriteFails(c)
          \/ Receive(c) \/ GiveUp(c) \/ End(c)

Spec == Init /\ [][Next]_mcpVars

-----------------------------------------------------------------------------
\* An answer goes to the call it answers, although answers that came too late
\* for their callers are still in the buffer; unless its number was given twice,
\* because a connection test wrote an old one back.
AnswersFit == wrong \subseteq twice

\* What is remembered of a server is true of the process that runs: it has
\* answered the handshake (or a number was given twice), and the list is its own.
SessionFits ==
    alive => /\ initialized => greeted \/ twice # {}
             /\ tools # 0 => tools = process

McpSafe == AnswersFit /\ SessionFits
=============================================================================
