------------------------------ MODULE Planning ------------------------------
(***************************************************************************)
(* What the planner makes of a model's reply (cognition/planner.c, and     *)
(* h_reason of cognition/reasoning.c): actions to run, a declaration, text *)
(* that is not one, or an error.  A provider with native tools returns     *)
(* calls beside a text; otherwise the calls are written in the text, as a  *)
(* JSON array, in tags, or in a DSML envelope.                             *)
(***************************************************************************)
EXTENDS Integers, Sequences, SequencesExt

CONSTANTS
    MaxItems,       \* calls of a reply
    Windows, Sizes  \* tokens of a context window; of the prompt's fixed part

\* A call: of a tool, with a name no tool can have, with arguments that do not
\* fit the tool's schema; a completion, one that lacks a field, one whose answer
\* still holds the markup of a call; a declaration of the task, one without its
\* contract.
Completions == {"complete", "blocked", "incomplete", "markup"}
Declarations == {"declare", "undeclared"}
Finishes == Completions \cup Declarations
Kinds == {"run", "badname", "badargs"} \cup Finishes

\* "cut" is the number of calls that are there in full.
\* Calls of a native reply that was cut at its limit do not come this far.
NativeReplies ==
    {r \in [format : {"native"}, items : SeqOf(Kinds, MaxItems), cut : {0},
            text : {"none", "prose", "markup"}, truncated : BOOLEAN] :
        r.truncated => r.items = <<>>}
LegacyReplies ==
    {r \in [format : {"json", "tags", "dsml", "prose", "thinking"},
            items : SeqOf(Kinds, MaxItems), cut : 0 .. MaxItems,
            text : {"prose"}, truncated : BOOLEAN] :
        /\ r.cut <= Len(r.items)
        /\ r.format \in {"prose", "thinking"} => r.items = <<>>}
\* What the one request for a repair may bring: another array, or nothing.
Repairs == {r \in LegacyReplies : r.format = "json" /\ ~r.truncated}
           \cup {[format |-> "prose", items |-> <<>>, cut |-> 0, text |-> "prose",
                  truncated |-> FALSE]}
NoReply == [format |-> "none", items |-> <<>>, cut |-> 0, text |-> "none",
            truncated |-> FALSE]

VARIABLES
    native,         \* the protocol of the run's model
    reply, fixed,   \* the model's reply and that to the request for a repair
    stage,          \* "asking", "repairing" or "planned"
    decision        \* what plan_with returned

planVars == <<native, reply, fixed, stage, decision>>

\* What runs is named by the places its calls have in the reply; they run in
\* this order.
Nothing == [error |-> FALSE, actions |-> {}, end |-> "none"]
Rejected == [Nothing EXCEPT !.error = TRUE]
Run(places) == [Nothing EXCEPT !.actions = places]
Ended(how) == [Nothing EXCEPT !.end = how]

\* Every call of the planner starts afresh: completion_review_required, the one
\* thing h_reason hands on, is set for the legacy protocol before the first call
\* and stays.
Init ==
    /\ native \in BOOLEAN
    /\ reply = NoReply /\ fixed = NoReply /\ stage = "asking"
    /\ decision = Nothing

-----------------------------------------------------------------------------
Whole(r) == r.cut = Len(r.items)

\* Of the first n calls of a reply, those of the given kinds.
Of(r, n, S) == {i \in 1 .. n : r.items[i] \in S}
Has(r, n, S) == Of(r, n, S) # {}

\* What a single completion or declaration stands for.
Meaning(c) ==
    CASE c = "complete" -> Ended("complete")
      [] c = "blocked" -> Ended("blocked")
      [] c = "declare" -> Ended("contract")
      [] OTHER -> Rejected

\* plan_with, native: the whole batch is checked before any of it may run.  A
\* declaration of the task must be alone; a completion beside calls of tools is
\* dropped; a text without calls is a completion, unless it was cut at its limit
\* or holds the markup of a call.
DecideNative(r) ==
    LET size == Len(r.items)
        tools == Of(r, size, Kinds \ Finishes)
        refused == \/ Has(r, size, {"badname", "badargs"})
                   \/ Has(r, size, Declarations) /\ size # 1
    IN  IF refused THEN Rejected
        ELSE IF tools # {} THEN Run(tools)
        ELSE IF size = 1 THEN Meaning(r.items[1])
        ELSE IF size = 0 /\ r.text = "prose" /\ ~r.truncated THEN Ended("complete")
        ELSE Rejected

\* parse_dsml_tool_calls, parse_tagged_tool_calls, parse_plan_actions: a batch of
\* the first calls, none, or one that is refused as a whole.  Names are not
\* looked at in a DSML envelope.
NoBatch == [found |-> FALSE, bad |-> FALSE, size |-> 0]
BadBatch == [NoBatch EXCEPT !.bad = TRUE]
Batch(n) == [NoBatch EXCEPT !.found = TRUE, !.size = n]
ParseDsml(r) == IF Whole(r) /\ r.items # <<>> THEN Batch(r.cut) ELSE BadBatch
ParseTags(r) ==
    IF r.items = <<>> THEN NoBatch
    ELSE IF Whole(r) /\ ~Has(r, r.cut, {"badname"}) THEN Batch(r.cut) ELSE BadBatch
ParseArray(r) == IF Has(r, r.cut, {"badname"}) THEN BadBatch ELSE Batch(r.cut)
Parse(r) ==
    CASE r.format = "dsml" -> ParseDsml(r)
      [] r.format = "tags" -> ParseTags(r)
      [] r.format = "json" /\ Whole(r) -> ParseArray(r)
      [] OTHER -> NoBatch

\* salvage_truncated_array: the calls of a broken array that are there in full.
Salvage(r) ==
    IF r.format = "json" /\ r.cut > 0 /\ ParseArray(r).found THEN ParseArray(r) ELSE NoBatch

\* plan_with, after the parse: the schemas, then completions.  A text without
\* calls does not end a run of the legacy protocol.
Settle(r, n, truncated) ==
    IF Has(r, n, {"badargs"}) THEN Rejected
    ELSE IF Has(r, n, Finishes)
         THEN IF n = 1 /\ ~truncated THEN Meaning(r.items[1]) ELSE Rejected
    ELSE IF n = 0 THEN IF truncated THEN Rejected ELSE Ended("commentary")
    ELSE Run(1 .. n)

\* A reply that looks like a plan but cannot be read, or not salvaged, is sent
\* back once to be repaired.
NeedsRepair(r) == r.format = "json" /\ ~Whole(r) /\ ~Salvage(r).found
DecideLegacy(r) ==
    LET batch == IF Whole(r) \/ r.format # "json" THEN Parse(r) ELSE Salvage(r) IN
    IF r.format = "thinking" \/ batch.bad \/ (r.format # "prose" /\ batch.size = 0)
    THEN Rejected ELSE Settle(r, batch.size, r.truncated)
DecideRepaired(r) ==
    LET batch == IF Whole(r) THEN Parse(r) ELSE Salvage(r)
        second == IF batch.found THEN batch ELSE Salvage(r)
    IN  IF second.size = 0 THEN Rejected ELSE Settle(r, second.size, reply.truncated)

-----------------------------------------------------------------------------
Ask(r) ==
    /\ stage = "asking"
    /\ reply' = r
    /\ IF ~native /\ NeedsRepair(r)
       THEN stage' = "repairing" /\ UNCHANGED decision
       ELSE /\ stage' = "planned"
            /\ decision' = IF native THEN DecideNative(r) ELSE DecideLegacy(r)
    /\ UNCHANGED <<native, fixed>>

\* llm_chat_simple_ex with the broken plan.
Repair(r) ==
    /\ stage = "repairing" /\ stage' = "planned"
    /\ fixed' = r
    /\ decision' = DecideRepaired(r)
    /\ UNCHANGED <<native, reply>>

\* llm_chat failed, in the first request or in that for the repair.
Fails ==
    /\ stage \in {"asking", "repairing"} /\ stage' = "planned"
    /\ decision' = Rejected
    /\ UNCHANGED <<native, reply, fixed>>

Next ==
    \/ \E r \in IF native THEN NativeReplies ELSE LegacyReplies : Ask(r)
    \/ stage = "repairing" /\ \E r \in Repairs : Repair(r)
    \/ Fails

Spec == Init /\ [][Next]_planVars

-----------------------------------------------------------------------------
\* planner_output_tokens: a quarter of the window or, when asked for more, the
\* larger ceiling; never more than half of the window, unless that is less than
\* 1024; never more than the model can give.
Smaller(a, b) == IF a < b THEN a ELSE b
OutputTokens(window, requested, most) ==
    LET wish == IF requested > 0 THEN requested ELSE window \div 4
        ceiling == IF requested > 0 THEN 65536 ELSE 32768
        fits == Smaller(Smaller(wish, window \div 2), ceiling)
        enough == IF fits < 1024 THEN 1024 ELSE fits
    IN  IF most > 0 THEN Smaller(enough, most) ELSE enough

\* planner_input_budget_bytes_with_output: bytes left for what the run knows,
\* two for a token.
InputBudget(window, output, fixedBytes) ==
    LET left == window - output - 1024 - (fixedBytes + 1) \div 2
    IN  IF left > 0 THEN 2 * left ELSE 0

-----------------------------------------------------------------------------
\* Nothing runs from a reply that was refused, and nothing runs beside a
\* declaration; what runs was written by the model, each call in full and none
\* with arguments its tool does not take: all the calls of the tools, or, of an
\* array that was cut, those before the cut.  (plan_with, planner.c)
NothingInPart ==
    /\ decision.error \/ decision.end # "none" => decision.actions = {}
    /\ decision.actions # {} =>
         LET source == IF fixed = NoReply THEN reply ELSE fixed IN
         /\ decision.actions = IF native THEN Of(source, Len(source.items), Kinds \ Finishes)
                               ELSE 1 .. source.cut
         /\ \A i \in decision.actions : source.items[i] \notin Finishes \cup {"badargs"}
         /\ (\E i \in decision.actions : source.items[i] = "badname") => source.format = "dsml"

\* A run ends only by a reply that asks for nothing else: a completion beside
\* calls of tools, a text that was cut, or a text that still holds calls does
\* not end it, and in the legacy protocol neither does any text.  (An array cut
\* after its completion, by a provider that does not say so, is the exception.)
EndsAlone ==
    decision.end \in {"complete", "blocked"} =>
        /\ ~Has(reply, Len(reply.items), Kinds \ Finishes) \/ (~native /\ ~Whole(reply))
        /\ ~reply.truncated
        /\ reply.text # "markup" \/ reply.items # <<>>
        /\ ~native => \/ Has(reply, Len(reply.items), {"complete", "blocked"})
                      \/ Has(fixed, Len(fixed.items), {"complete", "blocked"})

\* What is asked for and what is sent fit the window together, whenever there is
\* anything left to send.  (planner_output_tokens and
\* planner_input_budget_bytes_with_output, planner.c)
BudgetFits ==
    \A window \in Windows, size \in Sizes, requested \in {0, 65536}, most \in {0, 512, 8192} :
        LET output == OutputTokens(window, requested, most)
            budget == InputBudget(window, output, size)
        IN  /\ output > 0
            /\ budget > 0 => budget \div 2 + output + 1024 + size \div 2 <= window

PlanningSafe == NothingInPart /\ EndsAlone
=============================================================================
