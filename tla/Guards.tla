------------------------------- MODULE Guards -------------------------------
(***************************************************************************)
(* What stands between a planned action and its tool: the rules of         *)
(* runtime/policy_engine.c and the hooks of runtime/hook.c, with the       *)
(* requests that change them.  API requests take turns; lanes call tools   *)
(* beside them.  The hooks have a lock, the rules have none: a check that  *)
(* meets a change reads freed or moved entries, and may come to any        *)
(* decision.  Every hook of the program appends a line to a file and lets  *)
(* the call go on, and nothing answers "ask".                              *)
(***************************************************************************)
EXTENDS Integers, FiniteSets, Sequences, SequencesExt

CONSTANTS
    Lanes, Tools, Always,      \* Always: the rule "*"
    HookCap,                \* hooks of one dispatch; 64
    Torn,
    MaxChanges, MaxCalls, MaxFailures, MaxCrashes   \* bounds

VARIABLES
    rules, ruleFile,        \* sequences of [tool, decision], or Torn
    saving,                 \* a request has changed the rules and saves them next
    hooks, nextHook,        \* ids, in the order they were registered
    trail,                  \* the lines hooks appended for the latest call of a lane
    call,                   \* what each lane does
    changes, calls, failures, crashes,
    amiss,                  \* ghost: the last save failed
    wasDenied, stays, unlogged  \* ghosts of a call: denied so far; hooks there
                                \* so far; hooks that could not write their line

guardsVars == <<rules, ruleFile, saving, hooks, nextHook, trail, call, changes, calls, failures,
                crashes, amiss, wasDenied, stays, unlogged>>

Decisions == {"allow", "deny", "ask"}
NoCall == [step |-> "none", tool |-> Always, copied |-> <<>>, fired |-> <<>>,
           met |-> FALSE, unsure |-> FALSE, known |-> 0]
Default == <<[tool |-> Always, decision |-> "allow"]>>

-----------------------------------------------------------------------------
\* policy_check: the last rule for the tool, else the last for all; without
\* rules all is allowed.  What is to be asked is denied, as nobody answers.
Rule(rs, t) == SelectLastInSeq(rs, LAMBDA r : r.tool = t)

Decision(rs, t) ==
    IF Rule(rs, t) # 0 THEN rs[Rule(rs, t)].decision
    ELSE IF Rule(rs, Always) # 0 THEN rs[Rule(rs, Always)].decision
    ELSE IF rs = <<>> THEN "allow" ELSE "unruled"

Allows(d) == d = "allow"
\* h_act goes on unless a tool is denied: "no rule" is left to the next check.
GoesOn(d) == d \in {"allow", "unruled"}

\* runtime_init: the default, then what the file says.
Restarted == Default \o (IF ruleFile = Torn THEN <<>> ELSE ruleFile)

Init ==
    /\ rules = Default /\ ruleFile = <<>> /\ saving = FALSE
    /\ hooks = <<1>> /\ nextHook = 2        \* the audit trail
    /\ trail = {}
    /\ call = [l \in Lanes |-> NoCall]
    /\ changes = 0 /\ calls = 0 /\ failures = 0 /\ crashes = 0
    /\ amiss = FALSE
    /\ wasDenied = [l \in Lanes |-> FALSE] /\ stays = [l \in Lanes |-> {}]
    /\ unlogged = [l \in Lanes |-> {}]

-----------------------------------------------------------------------------
\* Requests

Checking(l) == call[l].step \in {"check", "recheck"}

\* The rules become new; checks that run now meet the change.
Change(new) ==
    /\ ~saving /\ changes < MaxChanges /\ changes' = changes + 1
    /\ rules' = new /\ saving' = TRUE
    /\ call' = [l \in Lanes |-> [call[l] EXCEPT !.met = @ \/ Checking(l)]]
    /\ wasDenied' = [l \in Lanes |-> wasDenied[l] /\ ~Allows(Decision(new, call[l].tool))]
    /\ UNCHANGED <<ruleFile, hooks, nextHook, trail, calls, failures, crashes, amiss, stays,
                   unlogged>>

\* policy_remove_rule
Removed(i) == RemoveAt(rules, i)

\* h_policy_add, h_policy_delete: "index" is the place in the list.
AddRule(t, d) == Change(Append(rules, [tool |-> t, decision |-> d]))
DeleteRule(i) == Change(Removed(i))

\* policy_save_file, in place
SaveRules ==
    /\ saving /\ saving' = FALSE
    /\ \/ ruleFile' = rules /\ amiss' = FALSE /\ UNCHANGED failures
       \/ /\ failures < MaxFailures /\ failures' = failures + 1
          /\ ruleFile' \in {ruleFile, Torn} /\ amiss' = TRUE
    /\ UNCHANGED <<rules, hooks, nextHook, trail, call, changes, calls, crashes, wasDenied,
                   stays, unlogged>>

\* hook_register, hook_unregister
Registered == hooks' = Append(hooks, nextHook) /\ nextHook' = nextHook + 1
Unregistered(id) == hooks' = SelectSeq(hooks, LAMBDA h : h # id) /\ UNCHANGED nextHook

\* h_hook_add
AddHook ==
    /\ ~saving /\ changes < MaxChanges /\ changes' = changes + 1
    /\ Registered
    /\ UNCHANGED <<rules, ruleFile, saving, trail, call, calls, failures, crashes, amiss,
                   wasDenied, stays, unlogged>>

\* h_hook_delete, of any hook, the audit trail too.
DeleteHook(id) ==
    /\ ~saving /\ changes < MaxChanges /\ changes' = changes + 1
    /\ Unregistered(id)
    /\ stays' = [l \in Lanes |-> stays[l] \ {id}]
    /\ UNCHANGED <<rules, ruleFile, saving, trail, call, calls, failures, crashes, amiss,
                   wasDenied, unlogged>>

-----------------------------------------------------------------------------
\* A lane calls a tool: h_act checks the rules and tells the hooks, then
\* tool_execute checks again.

KeepRules == UNCHANGED <<rules, ruleFile, saving, hooks, nextHook, changes, crashes, amiss>>
KeepTrail == UNCHANGED <<trail, failures, unlogged>>
To(l, next) == call' = [call EXCEPT ![l] = next]

StartCall(l, t) ==
    /\ call[l].step \in {"none", "ran", "denied"}
    /\ calls < MaxCalls /\ calls' = calls + 1
    /\ To(l, [NoCall EXCEPT !.step = "check", !.tool = t])
    /\ wasDenied' = [wasDenied EXCEPT ![l] = ~Allows(Decision(rules, t))]
    /\ stays' = [stays EXCEPT ![l] = {}] /\ unlogged' = [unlogged EXCEPT ![l] = {}]
    /\ trail' = {w \in trail : w[2] # l}
    /\ KeepRules /\ UNCHANGED failures

\* A check ends with decision d.
Concludes(l, d) ==
    IF call[l].met THEN d \in Decisions \union {"unruled"}
    ELSE d = Decision(rules, call[l].tool)
Unsure(l) == call[l].unsure \/ call[l].met

Check(l, d) ==
    /\ call[l].step = "check" /\ Concludes(l, d)
    /\ To(l, [call[l] EXCEPT !.step = IF GoesOn(d) THEN "tell" ELSE "denied",
                             !.met = FALSE, !.unsure = Unsure(l)])
    /\ KeepRules /\ KeepTrail /\ UNCHANGED <<calls, wasDenied, stays>>

\* hook_dispatch copies the hooks, the newest first, up to its limit, ...
Copied(hs) == IF Len(hs) <= HookCap THEN hs ELSE SubSeq(hs, Len(hs) - HookCap + 1, Len(hs))
Tell(l) ==
    /\ call[l].step = "tell"
    /\ To(l, [call[l] EXCEPT !.step = "fire", !.copied = Copied(hooks), !.known = nextHook])
    /\ stays' = [stays EXCEPT ![l] = IF Len(hooks) <= HookCap THEN Range(hooks) ELSE {}]
    /\ KeepRules /\ KeepTrail /\ UNCHANGED <<calls, wasDenied>>

\* hook_audit_file, which every hook here is: a line more, or nothing if the
\* file cannot be opened.
Audit(h, l) ==
    \/ trail' = trail \union {<<h, l>>} /\ UNCHANGED <<failures, unlogged>>
    \/ /\ failures < MaxFailures /\ failures' = failures + 1
       /\ unlogged' = [unlogged EXCEPT ![l] = @ \union {h}] /\ UNCHANGED trail

\* ... and calls them without the lock, the oldest first.
Fire(l) ==
    /\ call[l].step = "fire" /\ call[l].copied # <<>>
    /\ Audit(Head(call[l].copied), l)
    /\ To(l, [call[l] EXCEPT !.copied = Tail(@), !.fired = Append(@, Head(call[l].copied))])
    /\ KeepRules /\ UNCHANGED <<calls, wasDenied, stays>>

Fired(l) ==
    /\ call[l].step = "fire" /\ call[l].copied = <<>>
    /\ To(l, [call[l] EXCEPT !.step = "recheck"])
    /\ KeepRules /\ KeepTrail /\ UNCHANGED <<calls, wasDenied, stays>>

\* tool_execute
Recheck(l, d) ==
    /\ call[l].step = "recheck" /\ Concludes(l, d)
    /\ To(l, [call[l] EXCEPT !.step = IF Allows(d) THEN "ran" ELSE "denied",
                             !.met = FALSE, !.unsure = Unsure(l)])
    /\ KeepRules /\ KeepTrail /\ UNCHANGED <<calls, wasDenied, stays>>

-----------------------------------------------------------------------------
\* The hooks of clients are not kept.
Crash ==
    /\ crashes < MaxCrashes /\ crashes' = crashes + 1
    /\ ruleFile' \in IF saving THEN {ruleFile, Torn} ELSE {ruleFile}
    /\ rules' = Default \o (IF ruleFile' = Torn THEN <<>> ELSE ruleFile')
    /\ saving' = FALSE /\ hooks' = <<1>> /\ nextHook' = 2
    /\ call' = [l \in Lanes |-> NoCall]
    /\ wasDenied' = [l \in Lanes |-> FALSE] /\ stays' = [l \in Lanes |-> {}]
    /\ amiss' = (ruleFile' = Torn) /\ unlogged' = [l \in Lanes |-> {}]
    /\ UNCHANGED <<trail, changes, calls, failures>>

Next ==
    \/ \E t \in Tools \union {Always}, d \in Decisions : AddRule(t, d)
    \/ \E i \in DOMAIN rules : DeleteRule(i)
    \/ SaveRules \/ AddHook
    \/ \E h \in Range(hooks) : DeleteHook(h)
    \/ \E l \in Lanes :
        \/ \E t \in Tools : StartCall(l, t)
        \/ \E d \in Decisions \union {"unruled"} : Check(l, d) \/ Recheck(l, d)
        \/ Tell(l) \/ Fire(l) \/ Fired(l)
    \/ Crash

Spec == Init /\ [][Next]_guardsVars
-----------------------------------------------------------------------------
\* "denied tools are hidden from the planner AND hard-blocked at execution
\* time" (cognitive_os_agent.c): a tool is not run that the rules did not
\* allow from the call to its end, whatever else was changed.  Not so of a
\* check that met a change.
DeniedIsNotRun ==
    \A l \in Lanes : call[l].step = "ran" /\ ~call[l].unsure => ~wasDenied[l]

\* A restart decides on every tool as before: the rules come back in their
\* order, behind a default that none of them gives way to.  As long as there is
\* a rule for all, which otherwise the default is, and no save has failed.
RestartKeepsDecisions ==
    ~saving /\ ~amiss =>
        \A t \in Tools :
            (Rule(rules, t) # 0 \/ Rule(rules, Always) # 0) =>
                Decision(Restarted, t) = Decision(rules, t)

\* "Dispatch ... to all matching hooks in registration order" (hook.h), up to
\* the limit: a hook that was there from the dispatch to its end was called,
\* none was called twice or out of order, and none that came later; of a call
\* that has run each has its line, if its file could be opened.
HooksAreCalled ==
    \A l \in Lanes :
        LET done == call[l].fired IN
        /\ \A i, j \in DOMAIN done : i < j => done[i] < done[j]
        /\ call[l].step \in {"recheck", "ran"} => stays[l] \subseteq Range(done)
        /\ call[l].step = "ran" => stays[l] \X {l} \subseteq trail \union unlogged[l] \X {l}
        /\ \A i \in DOMAIN done : done[i] < call[l].known

GuardsSafe == DeniedIsNotRun /\ RestartKeepsDecisions /\ HooksAreCalled
=============================================================================
