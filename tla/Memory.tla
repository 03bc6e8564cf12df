------------------------------- MODULE Memory -------------------------------
(***************************************************************************)
(* The memory all sessions share: memory/memory.c over the episodes of     *)
(* memory/episode.c, as completed runs use it (reasoning.c,                *)
(* memory_record_completed_run): an episode is recorded, now and then the  *)
(* episodes are consolidated - old ones fade, and faded ones are archived  *)
(* and forgotten - everything is flushed to disk, and the answer enters    *)
(* the ring of working memory.  Each store has a lock of its own, so a run *)
(* is a sequence of steps other runs come between.                         *)
(*                                                                         *)
(* Facts and the graph are flushed as the episodes are and left out, and   *)
(* so is searching.  A vector is known by what it mirrors: the number of   *)
(* an entry of the ring, or the task of an episode.  A file is written in  *)
(* place: a write that fails or is cut off by a crash may leave it Torn.   *)
(***************************************************************************)
EXTENDS Integers, FiniteSets, Sequences, SequencesExt

CONSTANTS
    Lanes, Tasks, Torn, None,
    WorkingCap, EpisodesCap,
    Threshold, Interval,        \* of memory_maybe_consolidate
    HalfLife, MinStrength,      \* of memory_set_lifecycle, archive on
    Fresh,                      \* strength of a new episode, in units
    MaxTime, MaxRuns, MaxFailures, MaxCrashes   \* bounds
\* No episode is born below MinStrength, and a pass ends within the interval to
\* the next one (Tick).

VARIABLES
    clock, lane,
    ring, seq, mirrored,        \* working memory and its vectors
    episodes, recallable,       \* episodes and the tasks with a vector
    lastPass, passAt,           \* last_consol_ms, consolidated_at
    file, archive,              \* episodes.json, archive.jsonl
    runs, failures, crashes,
    adds,       \* ghost: episodes added since the last pass, or the start
    orphans,    \* ghost: numbers evicted before they were mirrored
    forgotten,  \* ghost: what was dropped as too weak
    unarchived, \* ghost: what could not be appended to the archive
    written,    \* ghost: the number of the last snapshot written
    kept,       \* ghost: tasks of runs that have ended, not dropped since
    outlived    \* ghost: lanes whose episode was dropped

memoryVars == <<clock, lane, ring, seq, mirrored, episodes, recallable, lastPass,
                passAt, file, archive, runs, failures, crashes, adds, orphans,
                forgotten, unarchived, written, kept, outlived>>

Idle == [at |-> "idle", task |-> None, id |-> 0, evicted |-> 0, now |-> 0,
         took |-> {}, copy |-> <<>>, number |-> 0]

Init ==
    /\ clock = 1 /\ lane = [l \in Lanes |-> Idle]
    /\ ring = <<>> /\ seq = 1 /\ mirrored = {}
    /\ episodes = <<>> /\ recallable = {}
    /\ lastPass = 0 /\ passAt = 0 /\ file = <<>> /\ archive = {}
    /\ runs = 0 /\ failures = 0 /\ crashes = 0
    /\ adds = 0 /\ orphans = {} /\ forgotten = {} /\ unarchived = {}
    /\ written = 0 /\ kept = {} /\ outlived = {}

TasksOf(es) == {es[i].task : i \in DOMAIN es}
Owners(tasks) == {l \in Lanes : lane[l].task \in tasks}
Goes(l, to) == lane' = [lane EXCEPT ![l].at = to]

-----------------------------------------------------------------------------
\* Episodes

\* episodic_add_full: a task met again is reinforced where it stands; at the
\* limit the oldest place is given up.
Experienced(es, e) ==
    IF e.task \in TasksOf(es)
    THEN [i \in DOMAIN es |-> IF es[i].task # e.task THEN es[i]
             ELSE [es[i] EXCEPT !.ts = e.ts, !.strength = @ + Fresh]]
    ELSE Append(IF Len(es) >= EpisodesCap THEN Tail(es) ELSE es, e)

\* episodic_decay: halved once for every half life of its age, at every pass.
Age(e, now) == IF e.ts > now THEN 0 ELSE now - e.ts
Decayed(es, now) ==
    [i \in DOMAIN es |->
        [es[i] EXCEPT !.strength = @ \div 2 ^ (Age(es[i], now) \div HalfLife)]]

Faded(es) == {e \in ToSet(es) : e.strength < MinStrength}

-----------------------------------------------------------------------------
\* A completed run

Begin(l, t) ==
    /\ lane[l].at = "idle" /\ runs < MaxRuns
    /\ lane' = [lane EXCEPT ![l] = [Idle EXCEPT !.at = "record", !.task = t]]
    /\ runs' = runs + 1
    /\ UNCHANGED <<clock, ring, seq, mirrored, episodes, recallable, lastPass,
                   passAt, file, archive, failures, crashes, adds, orphans,
                   forgotten, unarchived, written, kept, outlived>>

\* memory_record_experience: the episode, then its vector.
Record(l) ==
    /\ lane[l].at = "record"
    /\ episodes' = Experienced(episodes,
                               [task |-> lane[l].task, ts |-> clock, strength |-> Fresh])
    /\ adds' = IF lane[l].task \in TasksOf(episodes) THEN adds ELSE adds + 1
    /\ LET dropped == TasksOf(episodes) \ TasksOf(episodes')
       IN  kept' = kept \ dropped /\ outlived' = (outlived \ {l}) \cup Owners(dropped)
    /\ Goes(l, "mirror")
    /\ UNCHANGED <<clock, ring, seq, mirrored, recallable, lastPass, passAt, file,
                   archive, runs, failures, crashes, orphans, forgotten,
                   unarchived, written>>

Mirror(l) ==
    /\ lane[l].at = "mirror"
    /\ recallable' = recallable \cup {lane[l].task}
    /\ Goes(l, "consolidate")
    /\ UNCHANGED <<clock, ring, seq, mirrored, episodes, lastPass, passAt, file,
                   archive, runs, failures, crashes, adds, orphans, forgotten,
                   unarchived, written, kept, outlived>>

\* memory_maybe_consolidate: the gates, and the claim of the pass.
Due ==
    /\ lastPass = 0 \/ clock - lastPass >= Interval
    /\ Len(episodes) - passAt >= Threshold

Consolidate(l) ==
    /\ lane[l].at = "consolidate"
    /\ IF Due
       THEN /\ lastPass' = clock /\ passAt' = Len(episodes) /\ adds' = 0
            /\ lane' = [lane EXCEPT ![l].at = "decay", ![l].now = clock]
       ELSE Goes(l, "snapshot") /\ UNCHANGED <<lastPass, passAt, adds>>
    /\ UNCHANGED <<clock, ring, seq, mirrored, episodes, recallable, file, archive,
                   runs, failures, crashes, orphans, forgotten, unarchived,
                   written, kept, outlived>>

\* memory_lifecycle_pass: decay, the list of the faded, its archive, and the
\* drop, each under the lock for itself.
Decay(l) ==
    /\ lane[l].at = "decay"
    /\ episodes' = Decayed(episodes, lane[l].now)
    /\ Goes(l, "list")
    /\ UNCHANGED <<clock, ring, seq, mirrored, recallable, lastPass, passAt, file,
                   archive, runs, failures, crashes, adds, orphans, forgotten,
                   unarchived, written, kept, outlived>>

ListFaded(l) ==
    /\ lane[l].at = "list"
    /\ LET faded == Faded(episodes)
       IN  lane' = [lane EXCEPT ![l].at = IF faded = {} THEN "drop" ELSE "archive",
                                ![l].took = faded]
    /\ UNCHANGED <<clock, ring, seq, mirrored, episodes, recallable, lastPass,
                   passAt, file, archive, runs, failures, crashes, adds, orphans,
                   forgotten, unarchived, written, kept, outlived>>

\* Nobody looks whether the line was appended.
Archive(l) ==
    /\ lane[l].at = "archive"
    /\ \/ /\ archive' = archive \cup lane[l].took
          /\ UNCHANGED <<failures, unarchived>>
       \/ /\ failures < MaxFailures
          /\ failures' = failures + 1 /\ unarchived' = unarchived \cup lane[l].took
          /\ UNCHANGED archive
    /\ lane' = [lane EXCEPT ![l].at = "drop", ![l].took = {}]
    /\ UNCHANGED <<clock, ring, seq, mirrored, episodes, recallable, lastPass,
                   passAt, file, runs, crashes, adds, orphans, forgotten, written,
                   kept, outlived>>

Drop(l) ==
    /\ lane[l].at = "drop"
    /\ episodes' = SelectSeq(episodes, LAMBDA e : e.strength >= MinStrength)
    /\ forgotten' = forgotten \cup Faded(episodes)
    /\ LET dropped == {e.task : e \in Faded(episodes)}
       IN  kept' = kept \ dropped /\ outlived' = outlived \cup Owners(dropped)
    /\ Goes(l, "snapshot")
    /\ UNCHANGED <<clock, ring, seq, mirrored, recallable, lastPass, passAt, file,
                   archive, runs, failures, crashes, adds, orphans, unarchived,
                   written>>

-----------------------------------------------------------------------------
\* memory_flush: the text is made under the lock, the file written without.

Snapshot(l) ==
    /\ lane[l].at = "snapshot"
    /\ lane' = [lane EXCEPT ![l].at = "write", ![l].copy = episodes,
                   ![l].number = 1 + Max({written} \cup {lane[k].number : k \in Lanes})]
    /\ UNCHANGED <<clock, ring, seq, mirrored, episodes, recallable, lastPass,
                   passAt, file, archive, runs, failures, crashes, adds, orphans,
                   forgotten, unarchived, written, kept, outlived>>

\* What a write leaves of the tasks that were safe: an older snapshot takes
\* away those it does not know yet.
Overtaken(l) == lane[l].number < written

Write(l) ==
    /\ lane[l].at = "write"
    /\ \/ /\ file' = lane[l].copy /\ written' = lane[l].number
          /\ kept' = IF Overtaken(l) THEN kept \cap TasksOf(file')
                     ELSE kept \cup (IF l \in outlived THEN {} ELSE {lane[l].task})
          /\ UNCHANGED failures
       \/ /\ failures < MaxFailures /\ failures' = failures + 1
          /\ \/ UNCHANGED <<file, kept>>
             \/ file' = Torn /\ kept' = {}
          /\ UNCHANGED written
    /\ lane' = [lane EXCEPT ![l].at = "push", ![l].copy = <<>>, ![l].number = 0]
    /\ UNCHANGED <<clock, ring, seq, mirrored, episodes, recallable, lastPass,
                   passAt, archive, runs, crashes, adds, orphans, forgotten,
                   unarchived, outlived>>

-----------------------------------------------------------------------------
\* memory_working_push: the ring under the lock, its vectors after it.

Push(l) ==
    LET full == Len(ring) = WorkingCap
        out == IF full THEN ring[WorkingCap] ELSE 0
    IN  /\ lane[l].at = "push"
        /\ ring' = <<seq>> \o (IF full THEN SubSeq(ring, 1, WorkingCap - 1) ELSE ring)
        /\ seq' = seq + 1
        /\ orphans' = orphans \cup
              ({out} \cap {lane[k].id : k \in {k \in Lanes : lane[k].at = "index"}})
        /\ lane' = [lane EXCEPT ![l].at = "index", ![l].id = seq, ![l].evicted = out]
        /\ UNCHANGED <<clock, mirrored, episodes, recallable, lastPass, passAt,
                       file, archive, runs, failures, crashes, adds, forgotten,
                       unarchived, written, kept, outlived>>

Index(l) ==
    /\ lane[l].at = "index"
    /\ mirrored' = mirrored \cup {lane[l].id}
    /\ lane' = [lane EXCEPT ![l] = IF @.evicted = 0 THEN Idle
                                   ELSE [@ EXCEPT !.at = "evict"]]
    /\ UNCHANGED <<clock, ring, seq, episodes, recallable, lastPass, passAt, file,
                   archive, runs, failures, crashes, adds, orphans, forgotten,
                   unarchived, written, kept, outlived>>

Evict(l) ==
    /\ lane[l].at = "evict"
    /\ mirrored' = mirrored \ {lane[l].evicted}
    /\ lane' = [lane EXCEPT ![l] = Idle]
    /\ UNCHANGED <<clock, ring, seq, episodes, recallable, lastPass, passAt, file,
                   archive, runs, failures, crashes, adds, orphans, forgotten,
                   unarchived, written, kept, outlived>>

-----------------------------------------------------------------------------
\* No pass is under way for as long as the interval.
Tick ==
    /\ clock < MaxTime /\ clock' = clock + 1
    /\ \A l \in Lanes : lane[l].at \in {"decay", "list", "archive", "drop"}
                          => clock' - lane[l].now < Interval
    /\ UNCHANGED <<lane, ring, seq, mirrored, episodes, recallable, lastPass,
                   passAt, file, archive, runs, failures, crashes, adds, orphans,
                   forgotten, unarchived, written, kept, outlived>>

\* memory_new: the vectors of reloaded episodes, or none.
NotMirrored(es) == {}
MirroredAnew(es) == TasksOf(es)

\* A crash, which may cut off a write, and memory_new: nothing is known of
\* earlier passes.
Restart ==
    /\ crashes < MaxCrashes /\ crashes' = crashes + 1
    /\ \/ UNCHANGED <<file, kept>>
       \/ /\ \E l \in Lanes : lane[l].at = "write"
          /\ file' = Torn /\ kept' = {}
    /\ lane' = [l \in Lanes |-> Idle]
    /\ ring' = <<>> /\ seq' = 1 /\ mirrored' = {} /\ orphans' = {}
    /\ episodes' = IF file' = Torn THEN <<>> ELSE FoldLeft(Experienced, <<>>, file')
    /\ recallable' = MirroredAnew(episodes')
    /\ lastPass' = 0 /\ passAt' = 0 /\ adds' = Len(episodes') /\ written' = 0
    /\ outlived' = {}
    /\ UNCHANGED <<clock, archive, runs, failures, forgotten, unarchived>>

Run(l) ==
    \/ \E t \in Tasks : Begin(l, t)
    \/ Record(l) \/ Mirror(l) \/ Consolidate(l)
    \/ Decay(l) \/ ListFaded(l) \/ Archive(l) \/ Drop(l)
    \/ Snapshot(l) \/ Write(l)
    \/ Push(l) \/ Index(l) \/ Evict(l)

Next == (\E l \in Lanes : Run(l)) \/ Tick \/ Restart

Spec == Init /\ [][Next]_memoryVars
-----------------------------------------------------------------------------
\* An entry of working memory can be recalled once its push is over, and an
\* evicted one cannot, unless it was evicted before it was indexed.
RingIsMirrored ==
    LET busy(step) == {l \in Lanes : lane[l].at \in step}
    IN  /\ ToSet(ring) \subseteq mirrored \cup {lane[l].id : l \in busy({"index"})}
        /\ mirrored \subseteq ToSet(ring) \cup orphans
                              \cup {lane[l].evicted : l \in busy({"index", "evict"})}

\* Every episode can be recalled by its vector, also after a restart.
EpisodesAreRecalled ==
    TasksOf(episodes) \subseteq
        recallable \cup {lane[l].task : l \in {k \in Lanes : lane[k].at = "mirror"}}

\* What faded is in the archive before it is forgotten, unless the append
\* failed.
ForgottenIsArchived == forgotten \subseteq archive \cup unarchived

\* The episode of a run that has ended is on disk and in memory, whatever
\* crashes, until it is dropped, a write is cut off, or an older snapshot is
\* written over it.
RunsSurvive ==
    /\ kept \subseteq TasksOf(episodes)
    /\ kept # {} => file # Torn /\ kept \subseteq TasksOf(file)

\* A pass has its threshold of new episodes and its distance to the last one.
PassesAreEarned ==
    lastPass' \notin {0, lastPass} =>
       adds >= Threshold /\ (lastPass = 0 \/ lastPass' - lastPass >= Interval)

\* All five, of every step.
MemorySafe ==
    [][/\ RingIsMirrored' /\ EpisodesAreRecalled' /\ ForgottenIsArchived'
       /\ RunsSurvive' /\ PassesAreEarned]_memoryVars
=============================================================================
