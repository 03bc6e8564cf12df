------------------------------ MODULE Evidence ------------------------------
(***************************************************************************)
(* What a run must show before its completion is accepted                  *)
(* (cognition/reasoning.c): artifacts made and read back, files read to    *)
(* their end, pairs of equal files, an action, and an answer to every      *)
(* failed tool.  The evidence are versions of files, looked up after each  *)
(* tool; other programs, and runs of other sessions, change the same files *)
(* in between.                                                             *)
(***************************************************************************)
EXTENDS Integers, Sequences, FiniteSets, SequencesExt

CONSTANTS
    Files,
    Guess, Real,    \* a path of a file that may be guessed, and the real one
    Outputs,        \* files the run may write
    Pages,          \* pages of a file
    Window,         \* steps the registry keeps (256)
    MaxFailed,      \* failed tools that are kept (32)
    MaxActions,     \* tools of the run
    MaxOutside,     \* changes by others
    Rejections,     \* completions that may be rejected without a tool between (3)
    MaxTries,       \* completions the run proposes
    MaxMessages     \* of the user, during the run

Missing == [version |-> 0, content |-> "none"]
NoStep == [tool |-> "none", file |-> Guess, page |-> 0, id |-> 0, ok |-> FALSE, version |-> 0]
NoAction == [stage |-> "none", step |-> NoStep, before |-> 0, cached |-> FALSE]

VARIABLES
    disk, clock,    \* the files; every change has a version of its own
    action,         \* the tool under way: "none", "started" or "ran"
    undo,           \* what the round's transaction captured
    clean, touched, \* all_actions_ok, round_mutated
    steps, sequence,\* the registry
    receipts,       \* file_receipts
    artifact,       \* artifact_seen: what commands declared and changed
    baseline,       \* artifact_baseline
    pending, whole, \* pending_reads and completed_reads
    seen,           \* versioned_seen
    failed, overflow, found,    \* unresolved failures; discovered reads
    mutated,        \* run_mutated
    contract,       \* acceptance
    equal,          \* file_equalities
    tries, rejected, nudged, verdict, messages, outside,
    made, read,     \* history: versions the run made; pages it has read
    slipped,        \* history: versions of others that came during a tool
    owed            \* history: the last failed read of a file

evidenceVars == <<disk, clock, action, undo, clean, touched, steps, sequence, receipts,
                  artifact, baseline, pending, whole, seen, failed, overflow, found,
                  mutated, contract, equal, tries, rejected, nudged,
                  verdict, messages, outside, made, read, slipped, owed>>

Init ==
    /\ disk \in [Files -> {Missing, [version |-> 1, content |-> "x"]}]
    /\ clock = 1 /\ action = NoAction
    /\ undo = <<>> /\ clean = TRUE /\ touched = FALSE
    /\ steps = <<>> /\ sequence = 0
    /\ receipts = [f \in Files |-> [written |-> 0, verified |-> 0]]
    /\ artifact = [f \in Files |-> [version |-> 0, producer |-> 0]]
    /\ baseline = [f \in Files |-> -1]
    /\ pending = [f \in Files |-> [version |-> 0, next |-> 0]]
    /\ whole = [f \in Files |-> 0]
    /\ seen = {} /\ failed = {} /\ overflow = FALSE /\ found = {}
    /\ mutated = FALSE
    /\ \E reads \in {{}, {Real}} :
         contract = [artifacts |-> {}, reads |-> reads, acts |-> FALSE]
    /\ equal = {}
    /\ tries = 0 /\ rejected = 0 /\ nudged = FALSE /\ verdict = "open"
    /\ messages = 0 /\ outside = 0
    /\ made = {} /\ read = {} /\ slipped = {} /\ owed = [f \in Files |-> 0]

files == <<disk, clock>>
registry == <<steps, sequence, receipts, artifact, pending, whole, seen, failed,
              overflow, found>>
round == <<undo, clean, touched>>
promises == <<baseline, contract, equal>>
progress == <<tries, rejected, nudged, verdict, messages>>
history == <<made, read, slipped, owed>>

There(f) == disk[f].version # 0
Changed(f, content) ==
    /\ clock' = clock + 1
    /\ disk' = [disk EXCEPT ![f] = [version |-> clock + 1, content |-> content]]

-----------------------------------------------------------------------------
(* One tool of a round (h_act) *)

\* A read whose signature is known need not be done again, unless its observation
\* was folded out of the log (log_append); capture_action_output_versions for what
\* a command says it will write.
Start(tool, f, page) ==
    /\ action.stage = "none" /\ verdict = "open" /\ sequence < MaxActions
    /\ \E cached \in {FALSE, tool = "read" /\ <<f, page, disk[f].version>> \in seen} :
         action' = [stage |-> "started", before |-> disk[f].version, cached |-> cached,
                    step |-> [NoStep EXCEPT !.tool = tool, !.file = f, !.page = page]]
    /\ UNCHANGED <<files, registry, round, promises, progress, mutated, outside, history>>

Did(ok) == action' = [action EXCEPT !.stage = "ran", !.step.ok = ok]

\* file_write and file_edit, the file captured first.
Write ==
    LET f == action.step.file IN
    /\ action.stage = "started" /\ action.step.tool = "write"
    /\ Did(TRUE)
    /\ Changed(f, "x")
    /\ undo' = IF \E i \in DOMAIN undo : undo[i].file = f THEN undo
               ELSE Append(undo, [file |-> f, was |-> disk[f]])
    /\ made' = made \cup {<<f, clock + 1>>}
    /\ UNCHANGED <<registry, clean, touched, promises, progress, mutated, outside,
                   read, slipped, owed>>

\* A command, which may write the file it declared, and may fail.
Command ==
    LET f == action.step.file IN
    /\ action.stage = "started" /\ action.step.tool = "shell"
    /\ \E ok \in BOOLEAN : Did(ok)
    /\ \/ /\ Changed(f, "y")
          /\ made' = made \cup {<<f, clock + 1>>}
       \/ UNCHANGED <<files, made>>
    /\ UNCHANGED <<registry, round, promises, progress, mutated, outside, read, slipped,
                   owed>>

\* A page of a file, unless it has been read: then its observation is used again.
ReadPage ==
    LET f == action.step.file IN
    /\ action.stage = "started" /\ action.step.tool = "read"
    /\ Did(action.cached \/ There(f))
    /\ read' = IF ~action.cached /\ There(f)
               THEN read \cup {[file |-> f, version |-> disk[f].version,
                                page |-> action.step.page, id |-> sequence + 1]}
               ELSE read
    /\ UNCHANGED <<files, registry, round, promises, progress, mutated, outside, made,
                   slipped, owed>>

\* list_dir of the directory of all files; glob of the name of the guessed one.
Look ==
    /\ action.stage = "started" /\ action.step.tool \in {"list", "glob"}
    /\ Did(TRUE)
    /\ UNCHANGED <<files, registry, round, promises, progress, mutated, outside, history>>

-----------------------------------------------------------------------------
(* What is kept of a tool *)

\* A receipt that stays verified when the file is written again.
AddStepKeepingReceipt(step) ==
    /\ sequence' = step.id
    /\ steps' = Append(IF Len(steps) = Window THEN Tail(steps) ELSE steps, step)
    /\ receipts' =
         CASE step.ok /\ step.tool = "write" ->
                [receipts EXCEPT ![step.file] = [written |-> step.version, verified |-> step.version]]
           [] step.ok /\ step.tool = "read" /\ receipts[step.file].written = step.version ->
                [receipts EXCEPT ![step.file].verified = step.version]
           [] OTHER -> receipts

\* run_step_add: the step, the oldest dropped, and the receipt of its file.
AddStep(step) ==
    /\ sequence' = step.id
    /\ steps' = Append(IF Len(steps) = Window THEN Tail(steps) ELSE steps, step)
    /\ receipts' =
         CASE step.ok /\ step.tool = "write" ->
                [receipts EXCEPT ![step.file] = [written |-> step.version, verified |-> 0]]
           [] step.ok /\ step.tool = "read" /\ receipts[step.file].written = step.version ->
                [receipts EXCEPT ![step.file].verified = step.version]
           [] OTHER -> receipts

\* declared_artifact_progress: the file has changed since the command began.
AddArtifact(step) ==
    artifact' =
        IF /\ step.ok /\ step.tool = "shell" /\ step.version # 0
           /\ step.version \notin {action.before, artifact[step.file].version}
        THEN [artifact EXCEPT ![step.file] = [version |-> step.version, producer |-> step.id]]
        ELSE artifact

\* record_read_page: pages count when they follow each other in one version.
AddPage(step) ==
    LET f == step.file
        old == IF pending[f].version = step.version THEN pending[f].next ELSE 0
        next == IF step.page <= old /\ step.page + 1 > old THEN step.page + 1 ELSE old
    IN  IF step.tool # "read" \/ ~step.ok \/ action.cached \/ whole[f] = step.version
        THEN UNCHANGED <<pending, whole>>
        ELSE /\ whole' = [whole EXCEPT ![f] = IF next = Pages THEN step.version ELSE 0]
             /\ pending' = [pending EXCEPT ![f] =
                    IF next = Pages THEN [version |-> 0, next |-> 0]
                    ELSE [version |-> step.version, next |-> next]]

\* failure_scope: the path, but for commands.
Failure(step) == [tool |-> step.tool,
                  file |-> IF step.tool = "shell" THEN Guess ELSE step.file]

\* resolve_failed_tool: the same tool at the same path; for a read, a read of
\* the file found in its place, or of the nested file when it is not there.
Resolves(step, failure) ==
    \/ Failure(step) = failure
    \/ /\ step.tool = "read" /\ failure = [tool |-> "read", file |-> Guess]
       /\ step.file = Real
       /\ Guess \in found \/ ~There(Guess)

\* note_failed_tool, or record_discovered_read_paths and resolve_failed_tool.
AddOutcome(step) ==
    IF step.ok
    THEN /\ failed' = {x \in failed : ~Resolves(step, x)}
         /\ found' = IF /\ step.tool = "glob" /\ There(Real) /\ ~action.cached
                        /\ [tool |-> "read", file |-> Guess] \in failed
                     THEN found \cup {Guess} ELSE found
         /\ UNCHANGED overflow
    ELSE /\ IF Failure(step) \in failed \/ Cardinality(failed) < MaxFailed
            THEN failed' = failed \cup {Failure(step)} /\ UNCHANGED overflow
            ELSE overflow' = TRUE /\ UNCHANGED failed
         /\ found' = IF Failure(step) \in failed THEN found ELSE found \ {step.file}

\* h_act, after the tool: every version is looked up now.
Keep ==
    LET done == action.step
        step == [done EXCEPT !.id = sequence + 1, !.version = disk[done.file].version]
    IN
    /\ action.stage = "ran" /\ action' = NoAction
    /\ AddStep(step) /\ AddArtifact(step) /\ AddPage(step) /\ AddOutcome(step)
    /\ seen' = IF step.tool = "read" /\ step.ok
               THEN seen \cup {<<step.file, step.page, step.version>>} ELSE seen
    /\ clean' = (clean /\ step.ok)
    /\ touched' = (touched \/ (step.ok /\ step.tool \in {"write", "shell"}))
    /\ owed' = IF step.tool = "read" /\ ~step.ok
               THEN [owed EXCEPT ![step.file] = step.id] ELSE owed
    /\ rejected' = IF action.cached THEN rejected ELSE 0
    /\ UNCHANGED <<files, undo, promises, tries, nudged, verdict, messages, mutated,
                   outside, made, read, slipped>>

\* The end of a round: commit, or rollback of what was captured.
EndRound ==
    /\ action.stage = "none" /\ verdict = "open" /\ (touched \/ ~clean)
    /\ IF clean
       THEN mutated' = (mutated \/ touched) /\ UNCHANGED files
       ELSE /\ disk' = [f \in Files |->
                  LET saved == {i \in DOMAIN undo : undo[i].file = f} IN
                  IF saved = {} THEN disk[f]
                  ELSE LET was == undo[CHOOSE i \in saved : TRUE].was IN
                       IF was = Missing THEN Missing ELSE [was EXCEPT !.version = clock + 1]]
            /\ clock' = clock + 1
            /\ UNCHANGED mutated
    /\ undo' = <<>> /\ clean' = TRUE /\ touched' = FALSE
    /\ UNCHANGED <<action, registry, promises, progress, outside, history>>

\* Another program or another session.
Outside(f) ==
    /\ outside < MaxOutside /\ verdict = "open"
    /\ outside' = outside + 1
    /\ Changed(f, "x")
    /\ slipped' = IF /\ action.stage # "none" /\ action.step.file = f
                     /\ action.stage = "ran" \/ action.step.tool = "shell"
                  THEN slipped \cup {<<f, clock + 1>>} ELSE slipped
    /\ UNCHANGED <<action, registry, round, promises, progress, mutated, made, read, owed>>

-----------------------------------------------------------------------------
(* Promises and completion *)

Quiet == action.stage = "none" /\ ~touched /\ clean /\ verdict = "open"

\* merge_acceptance: obligations are only added; the version of an artifact is
\* kept when it is first named.
Declare(artifacts, reads, acts) ==
    /\ Quiet
    /\ contract' = [artifacts |-> contract.artifacts \cup artifacts,
                    reads |-> contract.reads \cup reads, acts |-> contract.acts \/ acts]
    /\ contract' # contract
    /\ baseline' = [f \in Files |-> IF f \in artifacts \ contract.artifacts
                                    THEN disk[f].version ELSE baseline[f]]
    /\ UNCHANGED <<files, action, round, registry, equal, progress, mutated,
                   outside, history>>

LastOk(tool, f) ==
    LET at == {i \in DOMAIN steps : steps[i].ok /\ steps[i].tool = tool /\ steps[i].file = f}
    IN  IF at = {} THEN 0 ELSE CHOOSE i \in at : \A j \in at : j <= i

\* run_has_verified_artifact: a receipt; or the last read of the file saw what
\* is there now, and it was written before by the run, or by a command of it.
HasArtifact(f) ==
    LET i == LastOk("read", f) j == LastOk("write", f)
        now == disk[f].version
    IN  \/ receipts[f].verified = now /\ now # 0
        \/ /\ i # 0 /\ now # 0 /\ steps[i].version = now
           /\ IF j # 0 /\ steps[j].version = now THEN j < i
              ELSE /\ baseline[f] # now /\ artifact[f].version = now
                   /\ artifact[f].producer < steps[i].id

\* verify_completion_files
ChecksHold(pairs) ==
    /\ \A p \in pairs : There(p[1]) /\ There(p[2]) /\ disk[p[1]].content = disk[p[2]].content
    /\ contract.acts => mutated
    /\ \A f \in contract.artifacts : HasArtifact(f)
    /\ \A f \in contract.reads : There(f) /\ whole[f] = disk[f].version

\* resolve_optional_missing_reads: a file that could not be read, is not there,
\* and whose directory was listed since.
Excused(f) ==
    LET tried == {i \in DOMAIN steps : steps[i].tool = "read" /\ steps[i].file = f
                                       /\ ~steps[i].ok}
    IN  /\ ~There(f) /\ tried # {}
        /\ \E i \in DOMAIN steps : /\ steps[i].tool = "list" /\ steps[i].ok
                                   /\ \A j \in tried : j < i
Left(claims) == {x \in failed : ~(x.tool = "read" /\ x.file \in claims /\ Excused(x.file))}

\* A completion with its claims: files said to be optional, pairs said to be
\* equal.  It is rejected while a check fails, Rejections times in a row at most,
\* sent back once for a failed tool, and accepted.
Complete(claims, pairs) ==
    LET holds == ChecksHold(equal \cup pairs) IN
    /\ Quiet /\ tries < MaxTries /\ tries' = tries + 1
    /\ failed' = Left(claims)
    /\ equal' = equal \cup pairs
    /\ owed' = [f \in Files |-> IF f \in claims /\ ~There(f) THEN 0 ELSE owed[f]]
    /\ rejected' = IF holds THEN 0 ELSE rejected + 1
    /\ nudged' = (nudged \/ (holds /\ (failed' # {} \/ overflow)))
    /\ verdict' = CASE ~holds -> IF rejected' = Rejections THEN "unfinished" ELSE "open"
                    [] holds /\ (failed' # {} \/ overflow) /\ ~nudged -> "open"
                    [] OTHER -> "accepted"
    /\ UNCHANGED <<files, action, round, steps, sequence, receipts, artifact, pending,
                   whole, seen, overflow, found, baseline, contract, mutated,
                   messages, outside, made, read, slipped>>

\* A message of the user takes back the pairs, nothing else.
Message ==
    /\ Quiet /\ messages < MaxMessages /\ messages' = messages + 1
    /\ equal' = {} /\ rejected' = 0 /\ seen' = {}
    /\ UNCHANGED <<files, action, round, steps, sequence, receipts, artifact, pending,
                   whole, failed, overflow, found, baseline, contract, mutated,
                   tries, nudged, verdict, outside, history>>

Next ==
    \/ \E tool \in {"write", "shell"}, f \in Outputs : Start(tool, f, 0)
    \/ \E page \in 0 .. Pages - 1 : Start("read", Real, page)
    \/ Start("read", Guess, 0)
    \/ \E f \in Files : Outside(f)
    \/ \E tool \in {"list", "glob"} : Start(tool, Guess, 0)
    \/ Write \/ Command \/ ReadPage \/ Look \/ Keep \/ EndRound
    \/ Declare({Real}, {}, TRUE)
    \/ \E pairs \in {{}, {<<Guess, Real>>}} : Complete({}, pairs)
    \/ Complete({Guess}, {})
    \/ Message

Spec == Init /\ [][Next]_evidenceVars

-----------------------------------------------------------------------------
ReadOf(f, version) == {r \in read : r.file = f /\ r.version = version}

\* A completion is accepted only when every artifact it owes is a file as the
\* run itself made it, and the run has read it since; when every file it owes a
\* full reading of has been read, page by page, as it is now; and when pairs
\* that were promised, since the user's last word, are equal.  Versions of
\* others that came while a tool was at work are the exception.
\* (verify_completion_files, run_has_verified_artifact, record_read_page)
EvidenceIsReal ==
    verdict = "accepted" =>
        /\ \A f \in contract.artifacts : <<f, disk[f].version>> \notin slipped =>
              <<f, disk[f].version>> \in made /\ ReadOf(f, disk[f].version) # {}
        /\ \A f \in contract.reads : <<f, disk[f].version>> \notin slipped =>
              {r.page : r \in ReadOf(f, disk[f].version)} = 0 .. Pages - 1
        /\ \A p \in equal : disk[p[1]].content = disk[p[2]].content

\* A completion that was accepted without a reminder leaves no failed read
\* behind: the file was read, or the one it was mistaken for, or there is no such
\* file.  (note_failed_tool, resolve_failed_tool)
FailuresAnswered ==
    verdict = "accepted" /\ ~nudged =>
        \A f \in Files : owed[f] # 0 =>
            \/ \E r \in read : r.file = f \/ (f = Guess /\ r.file = Real)
            \/ ~There(f)

EvidenceSafe == EvidenceIsReal /\ FailuresAnswered
=============================================================================
