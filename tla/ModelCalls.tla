----------------------------- MODULE ModelCalls -----------------------------
(***************************************************************************)
(* Calls of a language model (llm/llm.c, openai.c, anthropic.c,            *)
(* native_preview.h) over the program's HTTP client (os/linux/http.c,      *)
(* os/http_dispatch.c), and the account of the tokens they cost            *)
(* (llm/usage.c and the bookings of cognition/reasoning.c and              *)
(* runtime/orchestrator.c).                                                *)
(*                                                                         *)
(* An answer is a number of parts and a last mark: the end of the JSON     *)
(* text, or "[DONE]" of a stream.  Every part costs one token.             *)
(***************************************************************************)
EXTENDS Integers

CONSTANTS
    Parts,          \* parts of an answer before its last mark
    MaxCalls,       \* calls of the run
    MaxSimple,      \* calls beside it that are booked without a task
    MaxCrashes

Whole == Parts + 1

\* What a provider may answer: tool calls, calls without a name or with
\* arguments that are no object, text, nothing that can be seen; and why it
\* stopped, where that matters.  "garbled" is a part that is not JSON.
Answers == [kind : {"calls", "text"}, finish : {"stop", "length", "tools", "none"}]
           \cup [kind : {"bad", "nothing", "garbled"}, finish : {"stop"}]

\* How it is asked: in one piece or, for an answer shown while it comes, as a
\* stream; over the program's own sockets or libcurl; with or without a length
\* or chunks that tell where the body ends.
Requests == [stream : BOOLEAN, curl : BOOLEAN, framed : BOOLEAN, answer : Answers]

VARIABLES
    at,             \* where the run's thread is
    req,            \* its request
    status,         \* 200, 500 (any other) or 0 before the head has come
    sent, gone,     \* parts the provider sent; whether it closed the connection
    got, readFailed,\* parts read; h->read_failed
    sock,           \* the socket: "none", "open", "shut" or "closed"
    guard,          \* the thread that watches for a cancellation
    cancelled,      \* the task's cancel flag
    outcome,        \* what llm_chat returned: "none", "error", "text" or "actions"
    spent,          \* thread_in and thread_out of the run's thread
    base,           \* usage_base_in and usage_base_out of the run
    model,          \* usage_in and usage_out of the model's object
    simple,         \* the other thread: where it is and what it still has to book
    total, rows,    \* the account: its totals and its breakdown
    ledger,         \* usage.jsonl: the tokens its lines give back, and whether the
                    \* last one has no end: [tokens, torn]
    calls, others, crashes,
    reported,       \* history: tokens providers reported since the start
    late,           \* history: the guard touched a closed socket
    loaded,         \* history: tokens the file gave back at the start
    direct,         \* history: tokens booked without a row since the start
    lost            \* history: tokens booked since that the file will not give back

callVars == <<at, req, status, sent, gone, got, readFailed, sock, guard, cancelled,
              outcome, spent, base, model, simple, total, rows, ledger, calls,
              others, crashes, reported, late, loaded, direct, lost>>

NoRequest == [stream |-> FALSE, curl |-> FALSE, framed |-> FALSE,
              answer |-> [kind |-> "text", finish |-> "stop"]]

Init ==
    /\ at = "idle" /\ req = NoRequest /\ status = 0
    /\ sent = 0 /\ gone = FALSE /\ got = 0 /\ readFailed = FALSE
    /\ sock = "none" /\ guard = "none" /\ cancelled = FALSE
    /\ outcome = "none"
    /\ spent = 0 /\ base = 0 /\ model = 0
    /\ simple = [at |-> "idle", due |-> 0]
    /\ total = 0 /\ rows = 0 /\ ledger = [tokens |-> 0, torn |-> FALSE]
    /\ calls = 0 /\ others = 0 /\ crashes = 0
    /\ reported = 0 /\ late = FALSE /\ loaded = 0 /\ direct = 0 /\ lost = 0

wire == <<status, sent, gone, got, readFailed, sock, guard>>
NoWire ==
    /\ status' = 0 /\ sent' = 0 /\ gone' = FALSE /\ got' = 0 /\ readFailed' = FALSE
    /\ sock' = "none" /\ guard' = "none"
NoCall == req' = NoRequest /\ NoWire /\ outcome' = "none"
account == <<total, rows, ledger>>
counters == <<calls, others, crashes>>
tokens == <<spent, model, reported>>
history == <<late, loaded, direct, lost>>

-----------------------------------------------------------------------------
(* llm.c *)

\* llm_chat up to the adapter.
Ask(r) ==
    /\ at = "idle" /\ calls < MaxCalls
    /\ calls' = calls + 1
    /\ req' = r /\ at' = "opening"
    /\ UNCHANGED <<wire, outcome, cancelled, tokens, base, simple, account, others,
                   crashes, history>>

\* llm_chat: the strict policy found a secret, or nothing could be redacted.
Refuse ==
    /\ at = "idle" /\ calls < MaxCalls
    /\ calls' = calls + 1 /\ at' = "booking" /\ outcome' = "error"
    /\ UNCHANGED <<req, wire, cancelled, tokens, base, simple, account, others,
                   crashes, history>>

\* llm_record_usage
RecordUsage(n) ==
    /\ spent' = spent + n /\ model' = model + n /\ reported' = reported + n

-----------------------------------------------------------------------------
(* The HTTP client *)

\* parse_response_head
AnswerHead == status' \in {200, 500}

\* http_open, curl_open: the connection, the request and the head of the answer.
\* Own sockets get a guard.
Open ==
    /\ at = "opening"
    /\ sock' = IF req.curl THEN "none" ELSE "open"
    /\ guard' = IF req.curl THEN "none" ELSE "on"
    /\ AnswerHead
    /\ at' = "reading"
    /\ UNCHANGED <<req, sent, gone, got, readFailed, cancelled, outcome, tokens,
                   base, simple, account, counters, history>>

\* No connection, no library, a send that failed or a head that did not come.
OpenFails ==
    /\ at = "opening"
    /\ at' = "booking" /\ outcome' = "error"
    /\ UNCHANGED <<req, wire, cancelled, tokens, base, simple, account, counters,
                   history>>

\* The provider.
Send ==
    /\ at = "reading" /\ ~gone /\ sent < Whole
    /\ sent' = sent + 1
    /\ UNCHANGED <<at, req, status, gone, got, readFailed, sock, guard, cancelled,
                   outcome, tokens, base, simple, account, counters, history>>

HangUp ==
    /\ at = "reading" /\ ~gone
    /\ gone' = TRUE
    /\ UNCHANGED <<at, req, status, sent, got, readFailed, sock, guard, cancelled,
                   outcome, tokens, base, simple, account, counters, history>>

\* Streams of other than status 200 are not read.
Wanted == at = "reading" /\ (req.stream => status = 200)
Garbled == req.answer.kind = "garbled"
CutShort == got < Whole

\* http_stream_read, decode_getc and curl_pump hand over what has come.  In a
\* stream a part is an event: its usage is recorded, by the difference to the
\* event before.
Read ==
    /\ Wanted /\ got < sent /\ sock # "shut" /\ ~readFailed
    /\ ~(req.stream /\ Garbled /\ got > 0)
    /\ ~(req.curl /\ cancelled)
    /\ got' = got + 1
    /\ IF req.stream /\ got' <= Parts /\ ~Garbled
       THEN RecordUsage(1)
       ELSE UNCHANGED tokens
    /\ UNCHANGED <<at, req, status, sent, gone, readFailed, sock, guard, cancelled,
                   outcome, base, simple, account, counters, history>>

\* http_stream_read has nothing more to give, and needs nothing more.
ReadDone ==
    /\ at = "reading"
    /\ ~Wanted \/ got = Whole \/ (req.stream /\ Garbled /\ got > 0)
    /\ at' = "closing"
    /\ UNCHANGED <<req, wire, cancelled, outcome, tokens, base, simple, account,
                   counters, history>>

\* http_fill, curl_open and curl_pump: the deadline has passed; the provider
\* is gone or the socket was shut, which is a failure only where the end of the
\* body is known; libcurl's callback saw the cancellation.
ReadFails ==
    /\ Wanted /\ got < Whole
    /\ \/ readFailed' = TRUE
       \/ (sock = "shut" \/ (gone /\ got = sent)) /\ readFailed' = req.framed
       \/ req.curl /\ cancelled /\ readFailed' = TRUE
    /\ at' = "closing"
    /\ UNCHANGED <<req, status, sent, gone, got, sock, guard, cancelled, outcome,
                   tokens, base, simple, account, counters, history>>

\* task_cancel and task_should_abort, from another thread.
Cancel ==
    /\ ~cancelled /\ at # "idle"
    /\ cancelled' = TRUE
    /\ UNCHANGED <<at, req, wire, outcome, tokens, base, simple, account, counters,
                   history>>

\* cancellation_worker: it looks at the flags, and then shuts the socket.
Watch ==
    /\ guard = "on"
    /\ \/ cancelled /\ guard' = "noticed"
       \/ at = "joining" /\ guard' = "over"
    /\ UNCHANGED <<at, req, status, sent, gone, got, readFailed, sock, cancelled,
                   outcome, tokens, base, simple, account, counters, history>>

Interrupt ==
    /\ guard = "noticed"
    /\ guard' = "over"
    /\ sock' = IF sock = "open" THEN "shut" ELSE sock
    /\ late' = (late \/ sock = "closed")
    /\ UNCHANGED <<at, req, status, sent, gone, got, readFailed, cancelled,
                   outcome, tokens, base, simple, account, counters, loaded, direct, lost>>

\* http_stream_close and http_cancel_unwatch: the guard is told to stop, waited
\* for, and then the socket is closed.
StopGuard ==
    /\ at = "closing" /\ at' = "joining"
    /\ UNCHANGED <<req, wire, cancelled, outcome, tokens, base, simple, account,
                   counters, history>>

CloseStream ==
    /\ at = "joining" /\ guard \in {"none", "over"}
    /\ sock' = IF sock = "none" THEN "none" ELSE "closed"
    /\ at' = "answered"
    /\ UNCHANGED <<req, status, sent, gone, got, readFailed, guard, cancelled,
                   outcome, tokens, base, simple, account, counters, history>>

-----------------------------------------------------------------------------
(* The adapters *)

\* openai_chat and anthropic_chat, from a body they could parse: calls of an
\* answer that was cut at its limit, or one of which is not well formed, are
\* all refused, and so is a stop for calls without any.
Judge(answer) ==
    CASE answer.kind = "calls" /\ answer.finish # "length" -> "actions"
      [] answer.kind = "text" /\ answer.finish # "tools" -> "text"
      [] OTHER -> "error"

\* A full answer: the transport failed, the provider refused, the body is no
\* JSON text; otherwise its usage is recorded whatever becomes of it.
JudgeFull ==
    /\ at = "answered" /\ ~req.stream
    /\ IF readFailed \/ status # 200 \/ CutShort \/ Garbled
       THEN outcome' = "error" /\ UNCHANGED tokens
       ELSE outcome' = Judge(req.answer) /\ RecordUsage(Parts)
    /\ at' = "booking"
    /\ UNCHANGED <<req, wire, cancelled, base, simple, account, counters, history>>

\* A stream that takes the end of the connection for its last mark.
JudgeStreamAnyEnd ==
    /\ at = "answered" /\ req.stream
    /\ outcome' = IF status # 200 \/ Garbled \/ req.answer.finish = "none"
                  THEN "error" ELSE Judge(req.answer)
    /\ at' = "booking"
    /\ UNCHANGED <<req, wire, cancelled, tokens, base, simple, account, counters,
                   history>>

\* openai_native_stream: without its last mark, with an event it could not read
\* or without a reason to stop a stream is not an answer.  Its usage has been
\* recorded part by part.
JudgeStream ==
    /\ at = "answered" /\ req.stream
    /\ outcome' = IF status # 200 \/ CutShort \/ Garbled \/ req.answer.finish = "none"
                  THEN "error" ELSE Judge(req.answer)
    /\ at' = "booking"
    /\ UNCHANGED <<req, wire, cancelled, tokens, base, simple, account, counters,
                   history>>

-----------------------------------------------------------------------------
(* The account *)

\* usage_book_round and usage_add_ex: what the run's thread has spent since the
\* last round goes to the totals.  The lock is released before the next step.
Book ==
    /\ at = "booking"
    /\ IF spent > base
       THEN total' = total + (spent - base) /\ at' = "recording"
       ELSE at' = "idle" /\ UNCHANGED total
    /\ NoCall
    /\ UNCHANGED <<cancelled, tokens, base, simple, rows, ledger, counters, history>>

\* A line of usage.jsonl that follows one without an end cannot be read either.
Appended(due) ==
    IF ledger.torn THEN [ledger EXCEPT !.torn = FALSE]
    ELSE [ledger EXCEPT !.tokens = @ + due]

\* usage_event: a row of the breakdown and a line of usage.jsonl; nobody asks
\* whether it was written, or how much of it.
Record ==
    /\ at = "recording"
    /\ LET due == spent - base IN
       /\ rows' = rows + due
       /\ \/ ledger' \in {ledger, Appended(due)}
          \/ \E file \in {ledger, Appended(due)} : ledger' = [file EXCEPT !.torn = TRUE]
       /\ lost' = lost + due - (ledger'.tokens - ledger.tokens)
    /\ base' = spent /\ at' = "idle"
    /\ UNCHANGED <<req, wire, cancelled, outcome, tokens, simple, total, calls,
                   others, crashes, reported, late, loaded, direct>>

\* llm_simple_booked: a call of another thread, booked to the totals alone.
SimpleCall ==
    /\ simple.at = "idle" /\ others < MaxSimple
    /\ others' = others + 1
    /\ simple' = [at |-> "booking", due |-> 1]
    /\ model' = model + 1 /\ reported' = reported + 1
    /\ UNCHANGED <<at, req, wire, cancelled, outcome, spent, base, account, calls,
                   crashes, history>>

SimpleBook ==
    /\ simple.at = "booking"
    /\ simple' = [at |-> "idle", due |-> 0]
    /\ total' = total + simple.due /\ direct' = direct + simple.due
    /\ UNCHANGED <<at, req, wire, cancelled, outcome, tokens, base, rows, ledger,
                   counters, late, loaded, lost>>

\* usage_new and usage_set_state after the process died.  Of a line that was being
\* appended there may be a part, or all but its end, which can be read.
Restart ==
    /\ crashes < MaxCrashes
    /\ crashes' = crashes + 1
    /\ \/ UNCHANGED ledger
       \/ /\ at = "recording" /\ ~ledger.torn
          /\ \E readable \in {0, spent - base} :
                ledger' = [tokens |-> ledger.tokens + readable, torn |-> TRUE]
    /\ total' = ledger'.tokens /\ rows' = total' /\ loaded' = total'
    /\ at' = "idle" /\ cancelled' = FALSE /\ NoCall
    /\ spent' = 0 /\ base' = 0 /\ model' = 0 /\ simple' = [at |-> "idle", due |-> 0]
    /\ direct' = 0 /\ lost' = 0 /\ reported' = 0
    /\ UNCHANGED <<calls, others, late>>

Next ==
    \/ \E r \in Requests : Ask(r)
    \/ Refuse \/ Open \/ OpenFails \/ Send \/ HangUp
    \/ Read \/ ReadDone \/ ReadFails
    \/ Cancel \/ Watch \/ Interrupt \/ StopGuard \/ CloseStream
    \/ JudgeFull \/ JudgeStream
    \/ Book \/ Record \/ SimpleCall \/ SimpleBook
    \/ Restart

Spec == Init /\ [][Next]_callVars

-----------------------------------------------------------------------------
\* Actions are handed on only from an answer that came whole, was not cut at its
\* limit and in which every call is well formed; text only from one that came
\* whole.  ("no actions executed", openai.c, anthropic.c and native_preview.h)
WholeAnswersOnly ==
    /\ outcome \in {"actions", "text"} => got = Whole /\ status = 200
    /\ outcome = "actions" => req.answer.kind = "calls" /\ req.answer.finish # "length"

\* The thread that watches for a cancellation never shuts a socket that has been
\* closed: its number may belong to another connection.  (http_dispatch.c)
GuardEndsFirst == ~late

\* Every token a provider reported is booked once: when nobody is under way the
\* totals are what was loaded and what was reported since; what has rows and
\* what was booked directly make the totals; and the file gives back the rows,
\* but for lines that were not written or stuck to a torn one.  (usage.c,
\* usage_book_round in reasoning.c, llm_simple_booked in orchestrator.c)
AccountIsComplete ==
    /\ at = "idle" /\ simple.at = "idle" => total = loaded + reported
    /\ at # "recording" => rows + direct = total
    /\ ledger.tokens + lost = rows

CallsSafe == WholeAnswersOnly /\ GuardEndsFirst /\ AccountIsComplete
=============================================================================
