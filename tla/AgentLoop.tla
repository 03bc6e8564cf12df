------------------------------ MODULE AgentLoop ------------------------------
(***************************************************************************)
(* One run of the agent: reasoning_run_ex (reasoning.c) with the stages    *)
(* the state machine calls in every round (REASON, ACT in a transaction,   *)
(* VERIFY), the steering messages and approvals of task.c and api_rest.c   *)
(* that reach a running task, cancellation and its deadline.               *)
(*                                                                         *)
(* The model's reply is a free choice among the kinds the loop tells       *)
(* apart.  An action is named by its target: the invocation that           *)
(* note_failed_tool and resolve_failed_tool match.                         *)
(***************************************************************************)
EXTENDS Integers, FiniteSets, Sequences, SequencesExt

CONSTANTS
    Targets,
    Reads,          \* searches and file reads: no effect, remembered
    Gated,          \* actions that wait for an approval
    Native,         \* does the model use the native tool protocol
    MaxRounds,      \* r->max_rounds
    FailLimit,      \* REASONING_CONSEC_FAIL_ABORT; 5 in the code
    ToolLimit,      \* equal failures that end the run; 3
    StallAfter,     \* rounds without evidence that stop the run; 8
    SpeechLimit,    \* rounds of comment alone; 3
    MaxMessages,    \* update_count limit; 32
    MaxActions      \* bound: actions of one plan

ASSUME AgentAssumption ==
    /\ Gated \subseteq Targets /\ Reads \subseteq Targets /\ Native \in BOOLEAN
    /\ {MaxRounds, FailLimit, ToolLimit, SpeechLimit, StallAfter, MaxActions} \subseteq Nat \ {0}
    /\ MaxMessages \in Nat

VARIABLES
    pc,
    task,       \* what the API and the run share, under progress_mtx
    loop,       \* counters of the loop
    tools,      \* what is remembered of tool calls
    now,        \* the round: its reply, its actions, what came of them
    end,        \* why and with what the loop was left
    outcome,
    ghost

vars == <<pc, task, loop, tools, now, end, outcome, ghost>>

FreshEnd == [final |-> FALSE, stalled |-> FALSE, failed |-> FALSE,
             unfinished |-> FALSE, synthesized |-> FALSE, error |-> FALSE]
NoRound == [reply |-> "none", plan |-> <<>>, new |-> 0, repeats |-> 0, cached |-> 0,
            oks |-> 0, denied |-> 0, allOk |-> TRUE, st |-> "FAILED", heard |-> 0,
            staged |-> {}, same |-> FALSE, called |-> FALSE, n |-> 0,
            only |-> FALSE]
FreshLoop == [round |-> 1, grace |-> FALSE, fails |-> 0, transport |-> 0, silent |-> 0,
              cuts |-> 0, pressed |-> FALSE, reviewed |-> FALSE, idle |-> 0, repeats |-> 0,
              stalledOnce |-> FALSE, rejected |-> 0, prefix |-> FALSE]
FreshTools == [open |-> {}, seen |-> {}, last |-> {}, streak |-> 0, invalid |-> [t \in Targets |-> 0],
               aborted |-> FALSE, success |-> FALSE]

Init ==
    /\ pc = "queued"
    /\ task = [cancel |-> FALSE, expired |-> FALSE, pending |-> 0, accepted |-> 0,
               closed |-> FALSE, ask |-> 0, waiting |-> FALSE, decision |-> 0]
    /\ loop = FreshLoop /\ tools = FreshTools /\ now = NoRound /\ end = FreshEnd
    /\ outcome = [st |-> "none", cancelled |-> FALSE, remembered |-> FALSE]
    /\ ghost = [stale |-> FALSE, lost |-> "none", rounds |-> 0, allowed |-> 0, undone |-> {}]

\* Only the present request and the one before it are told apart.
Serials == 1 .. 2

Aborted == task.cancel \/ task.expired
HasMessages == task.pending > 0
Running == pc \notin {"queued", "over"}
Goto(place) == pc' = place

-----------------------------------------------------------------------------
\* Outside the run

\* task_add_message: refused once the run has closed its messages.
AddMessage ==
    /\ pc # "over" /\ ~task.closed /\ ~task.cancel /\ task.accepted < MaxMessages
    /\ task' = [task EXCEPT !.pending = @ + 1, !.accepted = @ + 1]
    /\ ghost' = [ghost EXCEPT !.stale = TRUE]
    /\ UNCHANGED <<pc, loop, tools, now, end, outcome>>

Cancel ==
    /\ pc # "over" /\ ~task.cancel
    /\ task' = [task EXCEPT !.cancel = TRUE]
    /\ UNCHANGED <<pc, loop, tools, now, end, outcome, ghost>>

\* The deadline of the task passes.
Expire ==
    /\ Running /\ ~Aborted
    /\ task' = [task EXCEPT !.expired = TRUE]
    /\ UNCHANGED <<pc, loop, tools, now, end, outcome, ghost>>

\* Mutated form: an answer to any request counts for the present one.
AnswerAny(id, allow) ==
    /\ Running /\ task.waiting /\ task.decision = 0 /\ id \in Serials
    /\ task' = [task EXCEPT !.decision = IF allow THEN 1 ELSE -1]
    /\ ghost' = [ghost EXCEPT !.allowed = IF allow THEN id ELSE @]
    /\ UNCHANGED <<pc, loop, tools, now, end, outcome>>

\* h_task_approval: the first answer to the request that is open.
Answer(id, allow) ==
    /\ Running /\ task.waiting /\ task.decision = 0 /\ id = task.ask
    /\ task' = [task EXCEPT !.decision = IF allow THEN 1 ELSE -1]
    /\ ghost' = [ghost EXCEPT !.allowed = IF allow THEN id ELSE @]
    /\ UNCHANGED <<pc, loop, tools, now, end, outcome>>

-----------------------------------------------------------------------------
\* Entering

\* The run is turned away: no session, a busy one, no vault, a blocking hook.
Refuse ==
    /\ pc = "queued"
    /\ outcome' = [outcome EXCEPT !.st = "REFUSED"]
    /\ Goto("over")
    /\ UNCHANGED <<task, loop, tools, now, end, ghost>>

Enter ==
    /\ pc = "queued"
    /\ Goto("top")
    /\ UNCHANGED <<task, loop, tools, now, end, outcome, ghost>>

\* Leaving the loop, and going on with it: the condition of the for.
Leave == Goto("synthesis")

\* Mutated form: the one round more is granted again and again.
GoOnRenewed(l) ==
    /\ loop' = [l EXCEPT !.round = IF @ > MaxRounds THEN @ ELSE @ + 1]
    /\ IF l.round + 1 <= MaxRounds \/ l.grace THEN Goto("top") ELSE Leave

GoOn(l) ==
    /\ loop' = [l EXCEPT !.round = @ + 1]
    /\ IF l.round + 1 <= MaxRounds \/ (l.grace /\ l.round = MaxRounds)
       THEN Goto("top") ELSE Leave

-----------------------------------------------------------------------------
\* A round

\* A round past the budget may finish the run but not act.  The messages
\* accepted so far become part of the prompt; with them the round budget and
\* the stall counters start anew.
Top ==
    /\ pc = "top"
    /\ IF Aborted
       THEN /\ now' = [now EXCEPT !.st = "FAILED"] /\ Leave
            /\ UNCHANGED <<task, loop, tools, ghost>>
       ELSE /\ task' = [task EXCEPT !.pending = 0]
            /\ IF HasMessages
               THEN /\ loop' = [loop EXCEPT !.round = 0, !.silent = 0, !.idle = 0, !.repeats = 0,
                                            !.stalledOnce = FALSE, !.rejected = 0]
                    /\ tools' = [tools EXCEPT !.invalid = [t \in Targets |-> 0], !.seen = {}]
               ELSE UNCHANGED <<loop, tools>>
            /\ ghost' = [ghost EXCEPT !.rounds = IF HasMessages THEN 1 ELSE @ + 1]
            /\ now' = [NoRound EXCEPT !.only = loop.round > MaxRounds]
            /\ Goto("model")
    /\ UNCHANGED <<end, outcome>>

\* Messages that were taken cannot be made part of the prompt (the vault for
\* what they contain cannot be written, or memory is short): they are dropped,
\* and the loop is left.
TopFails ==
    /\ pc = "top" /\ ~Aborted /\ HasMessages
    /\ task' = [task EXCEPT !.pending = 0]
    /\ now' = [now EXCEPT !.st = "FAILED"]
    /\ ghost' = [ghost EXCEPT !.lost = "now"]
    /\ Leave
    /\ UNCHANGED <<loop, tools, end, outcome>>

Failures == {"truncated", "refused", "transport", "noAction", "error"}
Candidates == {"answer", "complete", "blocked", "comment", "unverified", "cut"}
Plans == SeqOf(Targets, MaxActions) \ {<<>>}

\* A rejected batch leaves its target open; a completion may give up reads.
Recalled(r) ==
    {tools.open} \cup
    (IF r = "error" THEN {tools.open \cup {t} : t \in Targets} ELSE {}) \cup
    (IF r = "complete" THEN {tools.open \ s : s \in SUBSET Reads} ELSE {})

\* h_reason.  "refused": HTTP 429 or a failed image request; "blocked": also
\* an answer that repeats itself; "contract": a plan without actions.
Reason ==
    /\ pc = "model"
    /\ \/ \E r \in Failures :
             /\ now' = [now EXCEPT !.reply = r, !.st = "FAILED"]
             /\ end' = [end EXCEPT !.error = TRUE]
             /\ \E open \in Recalled(r) : tools' = [tools EXCEPT !.open = open]
             /\ Goto("after")
       \/ \E r \in Candidates \cup {"contract"}, same \in BOOLEAN :
             /\ r \in {"complete", "comment"} => Native
             /\ same => r = "contract"
             /\ now' = [now EXCEPT !.reply = r, !.st = "DONE", !.same = same]
             /\ end' = [end EXCEPT !.error = FALSE]
             /\ \E open \in Recalled(r) : tools' = [tools EXCEPT !.open = open]
             /\ Goto("after")
       \/ \E p \in Plans, same \in BOOLEAN :
             /\ now' = [now EXCEPT !.reply = "plan", !.plan = p, !.n = Len(p), !.same = same,
                                   !.st = IF now.only THEN "FAILED" ELSE "DONE"]
             /\ end' = [end EXCEPT !.error = FALSE]
             /\ Goto(IF now.only THEN "after" ELSE "acting")
             /\ UNCHANGED tools
    /\ UNCHANGED <<task, loop, outcome, ghost>>

Acting == pc = "acting" /\ now.plan # <<>> /\ ~Aborted /\ ~HasMessages
Next_(t) == Acting /\ Head(now.plan) = t
Rest(n) == [n EXCEPT !.plan = Tail(@)]

\* The approval loop: request, poll, close.
Ask(t) ==
    /\ Next_(t) /\ t \in Gated /\ now.heard = 0
    /\ task' = [task EXCEPT !.ask = (@ % 2) + 1, !.waiting = TRUE, !.decision = 0]
    /\ ghost' = [ghost EXCEPT !.allowed = 0]
    /\ Goto("asking")
    /\ UNCHANGED <<loop, tools, now, end, outcome>>

\* Mutated form: only an answer ends the waiting.
HearAnswer ==
    /\ pc = "asking" /\ task.decision # 0
    /\ now' = [now EXCEPT !.heard = task.decision]
    /\ Goto("heard")
    /\ UNCHANGED <<task, loop, tools, end, outcome, ghost>>

\* The decision is read, then abort and the five minutes are looked at.
Hear ==
    /\ pc = "asking"
    /\ now' = [now EXCEPT !.heard = IF task.decision = 0 THEN -1 ELSE task.decision]
    /\ Goto("heard")
    /\ UNCHANGED <<task, loop, tools, end, outcome, ghost>>

EndAsk ==
    /\ pc = "heard"
    /\ task' = [task EXCEPT !.waiting = FALSE]
    /\ Goto(IF Aborted THEN "stopping" ELSE "granted")
    /\ UNCHANGED <<loop, tools, now, end, outcome, ghost>>

\* The action at the head of the plan is up, and nothing more is asked.
Up(t) ==
    \/ Next_(t) /\ t \notin Gated
    \/ pc = "granted" /\ Head(now.plan) = t

\* Denied by the answer, by policy or by a hook: no failure.
Deny(t) ==
    /\ Up(t)
    /\ now' = [Rest(now) EXCEPT !.denied = @ + 1, !.heard = 0]
    /\ Goto("acting")
    /\ UNCHANGED <<task, loop, tools, end, outcome, ghost>>

MayRun(t) == Up(t) /\ now.heard # -1

\* The same action failing again and again ends the run.
Failed(t) ==
    LET n == IF tools.last # {t} THEN 1
             ELSE IF tools.streak < ToolLimit THEN tools.streak + 1 ELSE ToolLimit
    IN  [tools EXCEPT !.open = @ \cup {t}, !.last = {t}, !.streak = n,
                      !.aborted = @ \/ n >= ToolLimit]

\* Invalid arguments: the first time the tool is called all the same (and
\* fails), after that it is not.
Invalid(t) ==
    /\ MayRun(t)
    /\ LET n == IF tools.invalid[t] < ToolLimit THEN tools.invalid[t] + 1 ELSE ToolLimit
           failed == Failed(t)
       IN  /\ tools' = IF n = 1 THEN [failed EXCEPT !.invalid[t] = 1]
                       ELSE [tools EXCEPT !.invalid[t] = n, !.open = @ \cup {t},
                                          !.aborted = @ \/ n >= ToolLimit]
           /\ now' = [Rest(now) EXCEPT !.allOk = FALSE, !.heard = 0,
                                       !.called = @ \/ n = 1,
                                       !.repeats = IF n > 1 THEN @ + 1 ELSE @]
    /\ Goto("acting")
    /\ UNCHANGED <<task, loop, end, outcome, ghost>>

\* A read that was already made is answered from memory.
Cached(t) ==
    /\ MayRun(t) /\ t \in tools.seen
    /\ tools' = [tools EXCEPT !.open = @ \ {t}, !.invalid[t] = 0]
    /\ now' = [Rest(now) EXCEPT !.cached = @ + 1, !.repeats = @ + 1, !.oks = @ + 1, !.heard = 0]
    /\ Goto("acting")
    /\ UNCHANGED <<task, loop, end, outcome, ghost>>

\* A read is remembered; what may have changed the files forgets them.
Succeed(t) ==
    /\ MayRun(t)
    /\ \E seen \in IF t \in Reads THEN {tools.seen \cup {t}} ELSE {{}, tools.seen} :
          tools' = [tools EXCEPT !.open = @ \ {t}, !.seen = seen, !.invalid[t] = 0,
                                 !.last = {}, !.streak = 0, !.success = TRUE]
    /\ \E fresh \in BOOLEAN :
          now' = [Rest(now) EXCEPT !.oks = @ + 1, !.called = TRUE, !.heard = 0,
                                   !.staged = @ \cup ({t} \ Reads),
                                   !.new = IF fresh THEN @ + 1 ELSE @,
                                   !.repeats = IF fresh THEN @ ELSE @ + 1]
    /\ Goto("acting")
    /\ UNCHANGED <<task, loop, end, outcome, ghost>>

Fail(t) ==
    /\ MayRun(t)
    /\ tools' = Failed(t)
    /\ now' = [Rest(now) EXCEPT !.allOk = FALSE, !.called = TRUE, !.heard = 0]
    /\ Goto("acting")
    /\ UNCHANGED <<task, loop, end, outcome, ghost>>

\* The plan is through, or cut short by an abort or a message.  The
\* transaction: one failed action undoes the round.  Then VERIFY: something
\* must have succeeded of what was not denied.
FinishActing ==
    /\ pc = "stopping" \/ (pc = "acting" /\ ~Acting)
    /\ ghost' = [ghost EXCEPT !.undone = IF now.allOk THEN @ \ now.staged ELSE @ \cup now.staged]
    /\ now' = [now EXCEPT !.heard = 0,
                  !.st = IF now.n # now.denied /\ now.oks = 0 THEN "FAILED" ELSE "DONE"]
    /\ Goto("after")
    /\ UNCHANGED <<task, loop, tools, end, outcome>>

-----------------------------------------------------------------------------
\* What the loop makes of the round

After(st, replies) ==
    /\ pc = "after" /\ ~Aborted /\ ~tools.aborted /\ ~HasMessages
    /\ now.st = st /\ now.reply \in replies

\* Of the round only the state the stages ended in is used after it.
Forgotten(st) == [NoRound EXCEPT !.st = st]

\* A cancelled or expired run stops, and so does one whose tool keeps failing.
AfterAbort ==
    /\ pc = "after" /\ (Aborted \/ tools.aborted)
    /\ now' = Forgotten("FAILED")
    /\ Leave
    /\ UNCHANGED <<task, loop, tools, end, outcome, ghost>>

\* A message came in: what the round concluded is dropped.
AfterMessage ==
    /\ pc = "after" /\ ~Aborted /\ ~tools.aborted /\ HasMessages
    /\ GoOn(loop)
    /\ now' = Forgotten(now.st)
    /\ UNCHANGED <<task, tools, end, outcome, ghost>>

\* Evidence counts, not rounds: rounds that only repeat what is known.
Acted == now.reply = "plan"
Counted ==
    LET l == IF Acted /\ now.called THEN [loop EXCEPT !.rejected = 0] ELSE loop
    IN  IF ~Acted THEN l
        ELSE IF now.new > 0 THEN [l EXCEPT !.idle = 0, !.repeats = 0]
        ELSE [l EXCEPT !.idle = @ + 1, !.repeats = IF @ + now.repeats > 2 THEN 2 ELSE @ + now.repeats]
Cycling == Counted.idle >= StallAfter /\ Counted.repeats >= 2

AfterCycle ==
    /\ After(now.st, {"plan"}) /\ Cycling
    /\ end' = [end EXCEPT !.stalled = TRUE]
    /\ now' = Forgotten("FAILED")
    /\ loop' = Counted /\ Leave
    /\ UNCHANGED <<task, tools, outcome, ghost>>

\* The loop is left with l, and with these flags of end set.
LeaveWith(l, flags) ==
    /\ loop' = l /\ Leave
    /\ end' = [f \in DOMAIN end |-> end[f] \/ f \in flags]
Again(l) == GoOn(l) /\ end' = end

LastRound == loop.round >= MaxRounds

\* A stage failed: fed back while something may still change.
AfterFailure ==
    /\ After("FAILED", Failures \cup {"plan"}) /\ ~Cycling
    /\ LET l == [Counted EXCEPT !.fails = @ + 1,
                     !.transport = IF now.reply = "transport" THEN @ + 1 ELSE 0]
           silent == IF now.reply = "noAction" THEN l.silent + 1 ELSE l.silent
           m == [l EXCEPT !.silent = silent]
       IN  IF now.reply = "truncated"
           THEN IF l.cuts >= 2 \/ LastRound THEN LeaveWith(l, {"failed", "unfinished"})
                ELSE Again([l EXCEPT !.cuts = @ + 1])
           ELSE IF now.reply = "refused" THEN LeaveWith(l, {"failed", "final"})
           ELSE IF l.transport >= 2 THEN LeaveWith(l, {"failed"})
           ELSE IF now.reply = "noAction" /\ silent >= 2 THEN LeaveWith(m, {"failed", "unfinished"})
           ELSE IF LastRound THEN LeaveWith(m, {})
           ELSE IF l.fails >= FailLimit THEN LeaveWith(m, {"failed"})
           ELSE Again(m)
    /\ now' = Forgotten("FAILED")
    /\ UNCHANGED <<task, tools, outcome, ghost>>

\* No actions planned: a candidate for the answer.
AfterCandidate ==
    /\ After("DONE", Candidates)
    /\ LET l == [Counted EXCEPT !.fails = 0, !.transport = 0]
           spoke == [l EXCEPT !.silent = @ + 1]
           unverified == [l EXCEPT !.rejected = @ + 1]
       IN  CASE now.reply = "blocked" -> LeaveWith(l, {"unfinished", "final"})
             [] now.reply = "comment" ->
                   IF spoke.silent >= SpeechLimit \/ LastRound
                   THEN LeaveWith(spoke, {"unfinished", "final"}) ELSE Again(spoke)
             [] now.reply = "unverified" ->
                   IF unverified.rejected >= 3 \/ LastRound
                   THEN LeaveWith(unverified, {"unfinished", "final"}) ELSE Again(unverified)
             [] OTHER ->
                   IF tools.open # {} /\ ~l.pressed /\ ~LastRound
                   THEN Again([l EXCEPT !.pressed = TRUE])
                   ELSE IF now.reply = "cut"
                   THEN IF l.cuts >= 2 \/ LastRound
                        THEN LeaveWith([l EXCEPT !.prefix = TRUE], {"unfinished", "final"})
                        ELSE Again([l EXCEPT !.cuts = @ + 1, !.prefix = TRUE])
                   ELSE IF l.prefix THEN LeaveWith([l EXCEPT !.prefix = FALSE], {"final"})
                   ELSE IF now.reply = "complete" /\ tools.success /\ ~l.reviewed
                   THEN IF LastRound /\ (l.grace \/ loop.round > MaxRounds)
                        THEN LeaveWith(l, {"unfinished", "final"})
                        ELSE Again([l EXCEPT !.reviewed = TRUE, !.grace = @ \/ LastRound])
                   ELSE LeaveWith(l, {"final"})
    /\ ghost' = [ghost EXCEPT !.stale = FALSE]
    /\ now' = Forgotten("DONE")
    /\ UNCHANGED <<task, tools, outcome>>

\* A round of actions.  The last one may earn one round more, to finish in.
AfterPlan ==
    /\ After("DONE", {"plan", "contract"}) /\ ~Cycling
    /\ LET l == [Counted EXCEPT !.fails = 0, !.transport = 0]
           m == IF now.new > 0 THEN [l EXCEPT !.silent = 0, !.reviewed = FALSE] ELSE l
           earned == /\ Native /\ loop.round = MaxRounds /\ now.new > 0 /\ now.allOk
                     /\ tools.open = {} /\ ~l.grace
           g == IF earned THEN [m EXCEPT !.grace = TRUE, !.reviewed = TRUE] ELSE m
       IN  IF now.n > 0 /\ now.cached = now.n THEN Again(g)
           ELSE IF now.new = 0 /\ now.same
           THEN IF ~g.stalledOnce /\ ~LastRound THEN Again([g EXCEPT !.stalledOnce = TRUE])
                ELSE LeaveWith(g, {"stalled"})
           ELSE Again(g)
    /\ now' = Forgotten("DONE")
    /\ UNCHANGED <<task, tools, outcome, ghost>>

-----------------------------------------------------------------------------
\* After the loop

\* Without an answer, the observations are summed up in one more call.
Synthesize ==
    /\ pc = "synthesis"
    /\ \E answered \in BOOLEAN :
          /\ answered => ~loop.grace /\ ~Aborted /\ ~(end.failed /\ end.error) /\ ~end.final
          /\ end' = [end EXCEPT !.final = @ \/ answered, !.synthesized = answered]
    /\ Goto("closing")
    /\ UNCHANGED <<task, loop, tools, now, outcome, ghost>>

\* Mutated form: the reopened run keeps what the first pass concluded.
CloseKeeping ==
    /\ pc = "closing"
    /\ IF ~Aborted /\ HasMessages
       THEN /\ loop' = [loop EXCEPT !.grace = FALSE, !.round = 1, !.silent = 0, !.fails = 0]
            /\ Goto("top") /\ UNCHANGED task
       ELSE /\ task' = [task EXCEPT !.closed = ~Aborted]
            /\ Goto("settling") /\ UNCHANGED loop
    /\ UNCHANGED <<tools, now, end, outcome, ghost>>

\* Mutated form: the messages are closed whether or not one waits.
CloseAnyway ==
    /\ pc = "closing"
    /\ task' = [task EXCEPT !.closed = ~Aborted]
    /\ Goto("settling")
    /\ UNCHANGED <<loop, tools, now, end, outcome, ghost>>

\* task_close_messages: a message that waits reopens the run.
Close ==
    /\ pc = "closing"
    /\ IF ~Aborted /\ HasMessages
       THEN /\ loop' = [loop EXCEPT !.grace = FALSE, !.round = 1, !.silent = 0, !.fails = 0]
            /\ end' = [FreshEnd EXCEPT !.error = end.error]
            /\ ghost' = [ghost EXCEPT !.lost = IF @ = "now" THEN "before" ELSE @]
            /\ Goto("top") /\ UNCHANGED task
       ELSE /\ task' = [task EXCEPT !.closed = ~Aborted]
            /\ Goto("settling") /\ UNCHANGED <<loop, end, ghost>>
    /\ UNCHANGED <<tools, now, outcome>>

\* The outcome.  A declared artifact or a required read may still fail the
\* last check; what was completed goes into the shared memory.
Settle ==
    /\ pc = "settling"
    /\ \E unmet \in BOOLEAN :
          LET unfinished == \/ end.unfinished \/ end.stalled \/ end.synthesized \/ end.failed
                            \/ tools.aborted \/ tools.open # {} \/ unmet
              st == IF unfinished THEN "FAILED" ELSE now.st
          IN  outcome' = [st |-> st, cancelled |-> Aborted, remembered |-> st = "DONE"]
    /\ loop' = FreshLoop /\ tools' = FreshTools /\ now' = NoRound
    /\ Goto("over")
    /\ UNCHANGED <<task, end, ghost>>

-----------------------------------------------------------------------------
Step ==
    \/ Enter \/ Refuse \/ Top \/ TopFails \/ Reason \/ Hear \/ EndAsk \/ FinishActing
    \/ \E t \in Targets : Ask(t) \/ Deny(t) \/ Invalid(t) \/ Cached(t) \/ Succeed(t) \/ Fail(t)
    \/ AfterAbort \/ AfterMessage \/ AfterCycle \/ AfterFailure \/ AfterCandidate \/ AfterPlan
    \/ Synthesize \/ Close \/ Settle

Environment ==
    \/ AddMessage \/ Cancel \/ Expire
    \/ \E id \in Serials, allow \in BOOLEAN : Answer(id, allow)

Over == pc = "over" /\ UNCHANGED vars

Next == Step \/ Environment \/ Over

Spec == Init /\ [][Next]_vars

\* The worker runs; the model and the tools return (both have timeouts).
FairSpec == Spec /\ WF_vars(Step)

-----------------------------------------------------------------------------
\* An answer that counts was given by a round that knew every message the
\* API had accepted, however late it came (task_close_messages: "a message
\* accepted during synthesis always gets another planning pass"); a pass that
\* could not read one gives none.
AnswerKnowsEveryMessage ==
    outcome.remembered /\ end.final /\ ~outcome.cancelled =>
        ~ghost.stale /\ ghost.lost # "now"

\* No message is accepted that nobody will read: after the run is over one is
\* left only if the run was refused, cancelled or out of time.  A run that
\* took one and could not read it fails, unless yet another one reopens it.
NoMessageIsLost ==
    pc = "over" =>
        /\ task.pending > 0 => outcome.st = "REFUSED" \/ outcome.cancelled
        /\ ghost.lost = "now" => outcome.st = "FAILED"
        /\ ghost.lost = "before" => task.accepted >= 2

\* A tool that needs an approval runs only after that very request was
\* allowed, not by an answer to an earlier one (h_act, h_task_approval).
AllowedFirst ==
    [][\A t \in Gated : Succeed(t) \/ Fail(t) => task.ask = ghost.allowed]_vars

\* Between two messages the model is asked at most two rounds more than the
\* budget: one to finish in, and the one that takes the message (round 0).
RoundsAreBounded == ghost.rounds <= MaxRounds + 2

\* Whatever the model replies and whoever is silent, the run ends.
RunEnds == <>(pc = "over")

\* A completed run did what its tools reported: the effects of every action
\* the model was told had succeeded are in place (evaluator.c: "a run that
\* completed at least one tool action still produced a useful result").
CompletedWorkIsInPlace ==
    outcome.remembered /\ ~outcome.cancelled => ghost.undone = {}
=============================================================================
