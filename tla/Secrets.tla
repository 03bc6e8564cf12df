------------------------------ MODULE Secrets ------------------------------
(***************************************************************************)
(* Known SSH passwords and the text that goes to a model and comes from it *)
(* (security/ssh_passwords.c, security/secret_boundary.c, llm/llm.c): what *)
(* is asked is masked, the answer is masked while it streams, piece by     *)
(* piece, and once more as a whole.  Other threads add passwords at any    *)
(* time; every look at the list of passwords takes its lock anew.  The     *)
(* shortest passwords, masked only after a label such as "password=", and  *)
(* the diagnostic detector, which nothing in the program calls, are left   *)
(* out.                                                                    *)
(***************************************************************************)
EXTENDS Integers, Sequences, FiniteSets, SequencesExt, FiniteSetsExt, Functions

CONSTANTS
    Chars,
    Quoted, Escape,     \* characters that JSON writes with an escape before them
    Passwords,
    Messages,           \* what a model is asked
    Least,              \* the least that is withheld once there is a password
    MaxText, MaxDelta, MaxFailures

VARIABLES
    since,              \* the list of passwords; history: how much had come by then
    pending,            \* passwords whose form in JSON is still to be listed
    strict,             \* g_mode_strict
    stage,              \* where the call of the model is
    message, sent,      \* what is asked, and what of it is sent
    text, start,        \* history: all that came; how much of it has left the guard
    matches, cut,
    out, answer,        \* what the listener, and the caller, get
    failures,
    before              \* history: passwords known when the call began

secretVars == <<since, pending, strict, stage, message, sent, text, start, matches, cut,
                out, answer, failures, before>>

Known == DOMAIN since
Mask == 0
Failed == -1
Gone == -2

Init ==
    /\ since = [p \in {} |-> 0] /\ pending = {} /\ strict = FALSE
    /\ stage = "idle" /\ message = <<>> /\ sent = <<>>
    /\ text = <<>> /\ start = 0 /\ matches = {} /\ cut = 0
    /\ out = <<>> /\ answer = <<>> /\ failures = 0 /\ before = {}

list == <<since, pending>>
request == <<message, sent, before>>
stream == <<text, start, matches, cut, out>>

\* Where a form of a password stands in a text.
Spans(t, forms) ==
    UNION {{[from |-> i, to |-> i + Len(p) - 1] :
               i \in {j \in 1..(Len(t) - Len(p) + 1) : SubSeq(t, j, j + Len(p) - 1) = p}} :
           p \in forms}

\* secret_scan_ssh_passwords: what overlaps becomes one match, what only meets
\* does not.
Matches(t, forms) ==
    LET S == Spans(t, forms)
        Joined(k) == \E s \in S : s.from <= k /\ k < s.to
        End(i) == CHOOSE j \in i..Len(t) :
                     /\ \A k \in i..(j - 1) : Joined(k)
                     /\ j = Len(t) \/ ~Joined(j)
    IN  {[from |-> s.from, to |-> End(s.from)] : s \in {r \in S : ~Joined(r.from - 1)}}

\* A text as it is passed on: the places of its characters, after those that
\* went before it, and a mask for every match.
Masked(t, found, offset) ==
    SelectSeq([i \in DOMAIN t |->
                  IF \E m \in found : m.from = i THEN Mask
                  ELSE IF \E m \in found : m.from < i /\ i <= m.to THEN Gone
                  ELSE offset + i],
              LAMBDA x : x # Gone)

\* secret_redact_ssh_passwords scans for itself.
Redact(t, offset) == Masked(t, Matches(t, Known), offset)

-----------------------------------------------------------------------------
(* The list *)

\* cJSON_PrintUnformatted, without the quotes around it.
Json(p) == FlattenSeq([i \in DOMAIN p |-> IF p[i] \in Quoted THEN <<Escape, p[i]>> ELSE <<p[i]>>])

\* register_value: a form that is listed stays where it is.
Listed(p) == IF p \in Known THEN since ELSE since @@ (p :> Len(text))

\* secret_register_ssh_password: the password, and then its form in JSON.
Register(p) ==
    /\ p \notin Known /\ since' = Listed(p) /\ pending' = pending \cup {p}
    /\ UNCHANGED <<strict, stage, request, stream, answer, failures>>

RegisterJson(p) ==
    /\ p \in pending /\ since' = Listed(Json(p)) /\ pending' = pending \ {p}
    /\ UNCHANGED <<strict, stage, request, stream, answer, failures>>

\* h_config_security; a call has no look at the mode once it has been let through.
SetMode ==
    /\ stage \in {"idle", "guard"} /\ strict' = ~strict
    /\ UNCHANGED <<list, stage, request, stream, answer, failures>>

-----------------------------------------------------------------------------
(* One call of a model, llm_chat or llm_stream *)

Ask(m) ==
    /\ stage = "idle" /\ stage' = "guard" /\ message' = m /\ before' = Known
    /\ UNCHANGED <<list, strict, sent, stream, answer, failures>>

\* secret_guard_llm_input: in strict mode what holds a password is not sent.
Guard ==
    /\ stage = "guard"
    /\ stage' = IF strict /\ Matches(message, Known) # {} THEN "over" ELSE "copy"
    /\ UNCHANGED <<list, strict, request, stream, answer, failures>>

\* llm_redacted_messages; without memory for it nothing is sent.
Send ==
    /\ stage = "copy"
    /\ \/ stage' = "streaming" /\ sent' = Redact(message, 0) /\ UNCHANGED failures
       \/ /\ failures < MaxFailures /\ failures' = failures + 1
          /\ stage' = "over" /\ UNCHANGED sent
    /\ UNCHANGED <<list, strict, message, before, stream, answer>>

\* secret_stream_guard_cb: what was withheld, and what has come.
Feed(delta) ==
    /\ stage = "streaming" /\ Len(text) + Len(delta) <= MaxText
    /\ text' = text \o delta /\ stage' = "scan"
    /\ UNCHANGED <<list, strict, request, start, matches, cut, out, answer, failures>>

Window == SubSeq(text, start + 1, Len(text))

\* guard_emit_window looks at the list three times.
Scan ==
    /\ stage = "scan" /\ stage' = "carry"
    /\ matches' = Matches(Window, Known)
    /\ UNCHANGED <<list, strict, request, text, start, cut, out, answer, failures>>

\* How much of the window can be told to be no beginning of a password.
Settled ==
    LET longest == Max({Len(p) : p \in Known} \cup {0})
        carry == IF longest = 0 THEN 0 ELSE Max({longest, Least}) - 1
    IN  Max({Len(Window) - carry, 0})

\* Mutated form: a match across the cut is cut.
CarryCutting ==
    /\ stage = "carry" /\ stage' = "emit"
    /\ cut' = Settled
    /\ UNCHANGED <<list, strict, request, text, start, matches, out, answer, failures>>

\* A match across the cut goes out as a whole.
Carry ==
    /\ stage = "carry" /\ stage' = "emit"
    /\ cut' = Max({Settled} \cup {m.to : m \in {n \in matches :
                                           n.from <= Settled /\ Settled < n.to}})
    /\ UNCHANGED <<list, strict, request, text, start, matches, out, answer, failures>>

Emit ==
    /\ stage = "emit" /\ stage' = "streaming"
    /\ out' = out \o Redact(SubSeq(Window, 1, cut), start)
    /\ start' = start + cut
    /\ matches' = {} /\ cut' = 0
    /\ UNCHANGED <<list, strict, request, text, answer, failures>>

\* Without memory a notice goes out instead, and what it stands for is lost.
FilterFails ==
    /\ stage \in {"scan", "emit"} /\ failures < MaxFailures /\ failures' = failures + 1
    /\ out' = Append(out, Failed)
    /\ start' = IF stage = "scan" THEN Len(text) ELSE start + cut
    /\ stage' = "streaming" /\ matches' = {} /\ cut' = 0
    /\ UNCHANGED <<list, strict, request, text, answer>>

\* secret_stream_guard_free: a scan says whether the rest is masked, by another.
EndStream ==
    /\ stage = "streaming" /\ stage' = "flush"
    /\ matches' = Matches(Window, Known)
    /\ UNCHANGED <<list, strict, request, text, start, cut, out, answer, failures>>

Flush ==
    /\ stage = "flush"
    /\ out' = out \o IF matches = {} THEN Masked(Window, {}, start) ELSE Redact(Window, start)
    /\ start' = Len(text)
    /\ stage' \in {"answer", "over"}    \* the call was answered, or failed
    /\ matches' = {}
    /\ UNCHANGED <<list, strict, request, text, cut, answer, failures>>

\* The same without memory.
FlushFails ==
    /\ stage = "flush" /\ Window # <<>> /\ failures < MaxFailures /\ failures' = failures + 1
    /\ out' = Append(out, Failed) /\ start' = Len(text)
    /\ stage' \in {"answer", "over"} /\ matches' = {}
    /\ UNCHANGED <<list, strict, request, text, cut, answer>>

\* secret_guard_llm_output; without memory a notice is kept instead of the answer.
GuardOutput ==
    /\ stage = "answer" /\ stage' = "answered"
    /\ \/ answer' = Redact(text, 0) /\ UNCHANGED failures
       \/ /\ text # <<>> /\ failures < MaxFailures /\ failures' = failures + 1
          /\ answer' = <<Failed>>
    /\ UNCHANGED <<list, strict, request, stream>>

Next ==
    \/ \E p \in Passwords : Register(p) \/ RegisterJson(p)
    \/ SetMode
    \/ \E m \in Messages : Ask(m)
    \/ Guard \/ Send
    \/ \E n \in 1..MaxDelta : \E delta \in [1..n -> Chars] : Feed(delta)
    \/ Scan \/ Carry \/ Emit \/ FilterFails \/ EndStream \/ Flush \/ FlushFails \/ GuardOutput

Spec == Init /\ [][Next]_secretVars

-----------------------------------------------------------------------------
Places(s) == s.from..s.to
Overlaps(s, r) == Places(s) \cap Places(r) # {}
Disjoint(t) == \A s, r \in Spans(t, Known) : s = r \/ ~Overlaps(s, r)

\* "Credentials never cross the local provider boundary" (llm.c): of what was
\* known when the call began nothing is sent.
RequestHides ==
    \A s \in Spans(message, before) : Places(s) \cap Range(sent) = {}

\* A password that was known before its first character came is never seen in
\* the stream, however the stream was cut into pieces: not a part of it, or, when
\* it overlaps another or memory ran out, not the whole.
\* (guard_emit_window, secret_stream_guard_free)
StreamHides ==
    \A p \in Known : \A s \in Spans(text, {p}) : since[p] < s.from =>
        /\ ~(Places(s) \subseteq Range(out))
        /\ Failed \notin Range(out) /\ (\A r \in Spans(text, Known) : r = s \/ ~Overlaps(s, r)) =>
               Places(s) \cap Range(out) = {}

\* The rest passes in order, once and whole, unless memory ran out.
RestPasses ==
    /\ \A i, j \in DOMAIN out : i < j /\ out[i] > 0 /\ out[j] > 0 => out[i] < out[j]
    /\ Failed \notin Range(out) =>
          \A i \in 1..start : (\A s \in Spans(text, Known) : i \notin Places(s)) => i \in Range(out)

\* What was shown is what is kept: without new passwords meanwhile, and when none
\* overlap, the stream gives the same text as the answer masked at once.
PreviewAgrees ==
    stage = "answered" /\ Failed \notin Range(out) \union Range(answer) /\ Disjoint(text)
        /\ (\A p \in Known : since[p] = 0) /\ pending = {}
    => out = answer

SecretsSafe == RequestHides /\ StreamHides /\ RestPasses /\ PreviewAgrees
=============================================================================
