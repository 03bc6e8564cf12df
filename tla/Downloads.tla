----------------------------- MODULE Downloads -----------------------------
(***************************************************************************)
(* What api/api_rest.c fetches in the background: the probe of a model's   *)
(* configuration, the downloads of skills, and the live search of a        *)
(* catalog.  A request starts a detached thread and answers "pending";     *)
(* later requests poll.  Requests take turns (http_server.c), the threads  *)
(* do not: a slot's phase is all that keeps the two apart.                 *)
(***************************************************************************)
EXTENDS Integers, FiniteSets, Sequences

CONSTANTS
    Items,          \* what is downloaded, probed or searched for
    Slots,          \* places for skill downloads (8)
    None,
    MaxStarts       \* bound: threads started

Outcomes == {"got", "failed"}

VARIABLES
    probe,      \* phase and item of the probe; its verdict
    job,        \* slot |-> phase, number, item, content, cached reply, age
    nextJob,
    search,     \* phase, query and result of the live search
    threads,    \* running: where each writes, and what it was started for
    starts,
    installed,  \* ghost: numbers of the jobs whose skill was registered, in order
    stray       \* ghost: an answer was for another request than the one asked

downloadsVars == <<probe, job, nextJob, search, threads, starts, installed, stray>>

Free == [phase |-> "free", id |-> 0, item |-> None, content |-> None,
         reply |-> None, old |-> FALSE]
NoSearch == [phase |-> "idle", item |-> None, result |-> None]

Init ==
    /\ probe = [phase |-> "idle", item |-> None, verdict |-> None]
    /\ job = [s \in Slots |-> Free] /\ nextJob = 0
    /\ search = NoSearch
    /\ threads = {} /\ starts = 0
    /\ installed = <<>> /\ stray = FALSE

\* A detached thread writes to place what it was started for.  It may not start.
Start(created, place, item) ==
    /\ starts < MaxStarts /\ starts' = starts + 1
    /\ threads' = IF created
                  THEN threads \union {[n |-> starts + 1, place |-> place, item |-> item]}
                  ELSE threads
Unstarted == UNCHANGED <<threads, starts>>
Result(item, outcome) == [item |-> item, outcome |-> outcome]

KeepProbe == UNCHANGED probe
KeepJobs == UNCHANGED <<job, nextJob, installed>>
KeepSearch == UNCHANGED search

\* An answer about one item was given to a request about another.
Told(asked, told) == stray' = (stray \/ asked # told)

-----------------------------------------------------------------------------
\* h_config_llm_test

\* Mutated form: a running probe is not looked at.
ProbeStartAnyway(item, created) ==
    /\ probe' = [phase |-> IF created THEN "running" ELSE "idle",
                 item |-> item, verdict |-> None]
    /\ Start(created, "probe", item)
    /\ KeepJobs /\ KeepSearch /\ UNCHANGED stray

\* POST: refused while a probe is running.
ProbeStart(item, created) ==
    /\ probe.phase # "running"
    /\ probe' = [phase |-> IF created THEN "running" ELSE "idle",
                 item |-> item, verdict |-> None]
    /\ Start(created, "probe", item)
    /\ KeepJobs /\ KeepSearch /\ UNCHANGED stray

\* llm_probe_thread: the verdict is published by the phase.
ProbeDone(t, outcome) ==
    /\ t.place = "probe"
    /\ probe' = [probe EXCEPT !.phase = "done", !.verdict = Result(t.item, outcome)]
    /\ threads' = threads \ {t}
    /\ KeepJobs /\ KeepSearch /\ UNCHANGED <<starts, stray>>

\* GET: it may name the request; a verdict can be read again.
ProbeRead ==
    /\ probe.phase = "done"
    /\ Told(probe.item, probe.verdict.item)
    /\ KeepProbe /\ KeepJobs /\ KeepSearch /\ Unstarted

-----------------------------------------------------------------------------
\* skill_install_async

Same(s, item) == job[s].phase \in {"fetching", "fetched"} /\ job[s].item = item

\* A result that was told, or one nobody has asked for in five minutes.
Reusable(s) ==
    job[s].phase = "told" \/ (job[s].phase = "fetched" /\ job[s].old)

\* A free slot, or else one with a result; the code takes the one that finished
\* first, any will do here.
Place(s) ==
    \/ job[s].phase = "free"
    \/ Reusable(s) /\ ~\E f \in Slots : job[f].phase = "free"

\* POST: the same download is joined, without a change; another one needs a
\* slot, whose content and reply are freed.
InstallStart(s, item, created) ==
    /\ ~\E r \in Slots : Same(r, item)
    /\ Place(s)
    /\ nextJob' = nextJob + 1
    /\ job' = [job EXCEPT ![s] = [Free EXCEPT
                  !.phase = IF created THEN "fetching" ELSE "free",
                  !.id = nextJob + 1, !.item = item]]
    /\ Start(created, s, item)
    /\ KeepProbe /\ KeepSearch /\ UNCHANGED <<installed, stray>>

\* skill_install_fetch_thread
Fetched(t, outcome) ==
    /\ t.place \in Slots
    /\ job' = [job EXCEPT ![t.place].phase = "fetched",
                          ![t.place].content = Result(t.item, outcome)]
    /\ threads' = threads \ {t}
    /\ KeepProbe /\ KeepSearch /\ UNCHANGED <<nextJob, starts, installed, stray>>

\* Five minutes pass.
Age(s) ==
    /\ job[s].phase = "fetched" /\ ~job[s].old
    /\ job' = [job EXCEPT ![s].old = TRUE]
    /\ KeepProbe /\ KeepSearch /\ Unstarted /\ UNCHANGED <<nextJob, installed, stray>>

\* Mutated form: the reply is not kept, the job stays as it was fetched.
InstallPollAgain(s, outcome) ==
    /\ job[s].phase = "fetched" /\ job[s].content.outcome = "got" /\ outcome = "ok"
    /\ installed' = Append(installed, job[s].id)
    /\ Told(job[s].item, job[s].content.item)
    /\ KeepProbe /\ KeepSearch /\ Unstarted /\ UNCHANGED <<job, nextJob>>

\* GET of a job that is known: the first one to find the content registers the
\* skill, which may be refused, and keeps the reply for those who ask later;
\* an entry that left the catalog meanwhile frees the slot.
InstallPoll(s, outcome) ==
    LET got == job[s].content IN
    /\ job[s].phase = "fetched"
    /\ \/ /\ got.outcome = "got" /\ outcome = "ok"
          /\ installed' = Append(installed, job[s].id)
          /\ job' = [job EXCEPT ![s].phase = "told", ![s].content = None,
                                ![s].reply = Result(got.item, "ok")]
       \/ /\ IF got.outcome = "got" THEN outcome = "refused" ELSE outcome = "failed"
          /\ job' = [job EXCEPT ![s].phase = "told", ![s].content = None,
                                ![s].reply = Result(got.item, outcome)]
          /\ UNCHANGED installed
       \/ /\ got.outcome = "got" /\ outcome = "gone"
          /\ job' = [job EXCEPT ![s].phase = "free", ![s].content = None]
          /\ UNCHANGED installed
    /\ Told(job[s].item, got.item)
    /\ KeepProbe /\ KeepSearch /\ Unstarted /\ UNCHANGED nextJob

InstallReread(s) ==
    /\ job[s].phase = "told"
    /\ Told(job[s].item, job[s].reply.item)
    /\ KeepProbe /\ KeepJobs /\ KeepSearch /\ Unstarted

-----------------------------------------------------------------------------
\* catalog_async_reply

\* A result for the query is handed over once.
SearchTake(item) ==
    /\ search.phase = "ready" /\ search.item = item
    /\ Told(item, search.result.item)
    /\ search' = [search EXCEPT !.phase = "idle", !.result = None]
    /\ KeepProbe /\ KeepJobs /\ Unstarted

\* While a search runs every client waits; otherwise a query without a result
\* starts a new one, and a result for another query is dropped.
SearchStart(item, created) ==
    /\ search.phase # "running"
    /\ ~(search.phase = "ready" /\ search.item = item)
    /\ search' = [phase |-> IF created THEN "running" ELSE "idle",
                  item |-> item, result |-> None]
    /\ Start(created, "search", item)
    /\ KeepProbe /\ KeepJobs /\ UNCHANGED stray

\* catalog_fetch_thread, which reads the query where the request left it.
Searched(t, outcome) ==
    /\ t.place = "search"
    /\ search' = [search EXCEPT !.phase = "ready", !.result = Result(t.item, outcome)]
    /\ threads' = threads \ {t}
    /\ KeepProbe /\ KeepJobs /\ UNCHANGED <<starts, stray>>

-----------------------------------------------------------------------------
Next ==
    \/ \E item \in Items, created \in BOOLEAN :
        \/ ProbeStart(item, created) \/ SearchStart(item, created)
        \/ \E s \in Slots : InstallStart(s, item, created)
    \/ \E t \in threads, outcome \in Outcomes :
        ProbeDone(t, outcome) \/ Fetched(t, outcome) \/ Searched(t, outcome)
    \/ \E s \in Slots :
        \/ Age(s) \/ InstallReread(s)
        \/ \E outcome \in {"ok", "failed", "refused", "gone"} : InstallPoll(s, outcome)
    \/ \E item \in Items : SearchTake(item)
    \/ ProbeRead

Spec == Init /\ [][Next]_downloadsVars
-----------------------------------------------------------------------------
Writers(place) == {t \in threads : t.place = place}

\* A place that is waited for has one thread that writes there, for what the
\* place says it is; any other place has none, so what a request frees or
\* hands over is not written behind its back.
OneWriterEach ==
    /\ Cardinality(Writers("probe")) = (IF probe.phase = "running" THEN 1 ELSE 0)
    /\ Cardinality(Writers("search")) = (IF search.phase = "running" THEN 1 ELSE 0)
    /\ \A s \in Slots :
        Cardinality(Writers(s)) = (IF job[s].phase = "fetching" THEN 1 ELSE 0)
    /\ \A t \in threads :
        t.item = (CASE t.place = "probe" -> probe.item
                    [] t.place = "search" -> search.item
                    [] OTHER -> job[t.place].item)

\* Every answer is about what was asked for.
AnswersFit == ~stray

\* A download is registered once however often it is polled, and only if its
\* reply says so; one item is downloaded by one job at a time.
InstalledOnce ==
    /\ \A i, j \in DOMAIN installed : i # j => installed[i] # installed[j]
    /\ \A s \in Slots :
        job[s].phase = "told" =>
            (job[s].reply.outcome = "ok" <=> \E i \in DOMAIN installed : installed[i] = job[s].id)
    /\ \A r, s \in Slots : \A item \in Items : Same(r, item) /\ Same(s, item) => r = s

DownloadsSafe == OneWriterEach /\ AnswersFit /\ InstalledOnce
=============================================================================
