------------------------------ MODULE Sessions ------------------------------
(***************************************************************************)
(* The chat sessions of cognition/reasoning.c: the registry all lanes      *)
(* share (sess_store), a session's history in memory and its transcript on *)
(* disk, and the index of all sessions, which is one file rewritten in     *)
(* place while it is short and a journal, appended to, once it is long.    *)
(*                                                                         *)
(* A lane runs one prompt at a time and the lanes run concurrently; API    *)
(* requests take turns (http_server.c), so one of them is in hand at most. *)
(* A session is in the registry once, so an id stands for the pointer a    *)
(* lane keeps.  What runs under sess_mtx is one step, and so is what runs  *)
(* under a session's own lock; the file of a transcript is written and     *)
(* removed under neither.  Left out are what titles and summaries say,     *)
(* which directory a session works in, and whether memory is shared.       *)
(***************************************************************************)
EXTENDS Integers, FiniteSets, Sequences, SequencesExt, TLC

CONSTANTS
    Ids, Lanes,
    None, Torn,
    LogAfter,       \* entries of the index kept in one file (128)
    Cap,            \* turns of a history before half are summarised (16)
    MaxTurns, MaxFailures, MaxCrashes       \* bounds

VARIABLES
    live,       \* id |-> session in memory, or None
    meta,       \* id |-> "listed", "deleted" or None; never forgotten
    metaLive,   \* number of entries not deleted
    logging,    \* the journal is open
    metaError,  \* a write of the index has failed
    index,      \* the ids in the file of the short index, or Torn
    log,        \* the journal read back: id |-> entry; None when there is none
    transcript, \* id |-> lines on disk: turns, None for one that says nothing, and
                \* at the end Torn for one that was cut off
    lane,       \* lane |-> what it does, to which session, with which turn
    api,        \* the request in hand: what is left of it, on which session
    turns, failures, crashes,
    apart,      \* ghost: ids whose transcript went while the session was used
    missing     \* ghost: turns that are not in a transcript because a write failed

sessionsVars == <<live, meta, metaLive, logging, metaError, index, log, transcript,
                  lane, api, turns, failures, crashes, apart, missing>>

Idle == [pc |-> "idle", id |-> None, turn |-> 0]
NoEntries == [id \in Ids |-> None]
Listed(entries) == {id \in Ids : entries[id] = "listed"}
Entries(entries) == {id \in Ids : entries[id] # None}

Init ==
    /\ live = [id \in Ids |-> None] /\ meta = NoEntries /\ metaLive = 0
    /\ logging = FALSE /\ metaError = FALSE /\ index = {} /\ log = None
    /\ transcript = [id \in Ids |-> <<>>]
    /\ lane = [l \in Lanes |-> Idle] /\ api = Idle
    /\ turns = 0 /\ failures = 0 /\ crashes = 0 /\ apart = {}
    /\ missing = {}

-----------------------------------------------------------------------------
\* The index

\* session_new
Fresh == [loaded |-> FALSE, history |-> <<>>, runner |-> None]

\* session_get_locked
Found(id) == IF live[id] # None THEN live[id] ELSE Fresh

\* Mutated form: in_run is not looked at.
UnheldAnyway(id) == TRUE

\* No lane runs the session (in_run).
Unheld(id) == live[id] # None => live[id].runner = None

(***************************************************************************)
(* meta_save_locked of the entries, of which those in changed have had     *)
(* their change appended to the journal (meta_log_change): the others are  *)
(* not written once there is a journal.  Any write may fail.               *)
(***************************************************************************)
Save(entries, changed) ==
    /\ meta' = entries
    /\ \/ /\ logging
          /\ log' = [id \in Ids |-> IF id \in changed THEN entries[id] ELSE log[id]]
          /\ UNCHANGED <<logging, index, metaError, failures>>
       \/ /\ ~logging /\ Cardinality(Entries(entries)) > LogAfter
          /\ log' = entries /\ logging' = TRUE
          /\ UNCHANGED <<index, metaError, failures>>
       \/ /\ ~logging /\ Cardinality(Entries(entries)) <= LogAfter
          /\ index' = Listed(entries)
          /\ UNCHANGED <<log, logging, metaError, failures>>
       \/ /\ failures < MaxFailures /\ failures' = failures + 1
          /\ metaError' = TRUE
          /\ UNCHANGED <<log, logging, index>>

\* meta_upsert_locked, then meta_save_locked
Upsert(id) ==
    /\ metaLive' = metaLive + (IF id \in Listed(meta) THEN 0 ELSE 1)
    /\ Save([meta EXCEPT ![id] = "listed"], {id})

\* Nothing is written.
KeepIndex == UNCHANGED <<meta, metaLive, logging, metaError, index, log, failures>>

-----------------------------------------------------------------------------
\* A lane's run: reasoning_run_ex and record_turn

At(l, pc) == lane[l].pc = pc
Go(l, pc) == lane' = [lane EXCEPT ![l].pc = pc]
Mine(l) == lane[l].id

\* The registry is searched and the session claimed in one section; a session
\* that is running is refused.
Start(l, id) ==
    /\ At(l, "idle") /\ turns < MaxTurns /\ api.pc # "boot"
    /\ Unheld(id)
    /\ live' = [live EXCEPT ![id] = [Found(id) EXCEPT !.runner = l]]
    /\ lane' = [lane EXCEPT ![l] = [pc |-> "load", id |-> id, turn |-> turns + 1]]
    /\ turns' = turns + 1
    /\ UNCHANGED <<transcript, api, crashes, apart, missing>> /\ KeepIndex

\* Lines that do not parse are skipped.
Turns(lines) == SelectSeq(lines, LAMBDA line : line \notin {None, Torn})

\* session_load_persisted, once for each session in memory
Loaded(s, id) ==
    IF s.loaded THEN s
    ELSE [s EXCEPT !.loaded = TRUE, !.history = Turns(transcript[id])]

Load(l) ==
    /\ At(l, "load") /\ live[Mine(l)] # None
    /\ live' = [live EXCEPT ![Mine(l)] = Loaded(@, Mine(l))]
    /\ Go(l, "run")
    /\ UNCHANGED <<transcript, api, turns, crashes, apart, missing>> /\ KeepIndex

\* The duration is booked; a run that has failed is over.
Account(l, ok) ==
    /\ At(l, "run") /\ live[Mine(l)] # None
    /\ Upsert(Mine(l))
    /\ Go(l, IF ok THEN "record" ELSE "end")
    /\ UNCHANGED <<live, transcript, api, turns, crashes, apart, missing>>

(***************************************************************************)
(* A full history loses its oldest turn, and one that becomes full its     *)
(* older half if the model can summarise it (compact_history), which may   *)
(* fail and, after three failures in a row, is not tried again.            *)
(***************************************************************************)
Room(history) == IF Len(history) >= Cap THEN Tail(history) ELSE history

Compacted(history, ok) ==
    IF Len(history) >= Cap /\ ok THEN SubSeq(history, Cap \div 2 + 1, Len(history))
    ELSE history

Record(l, ok) ==
    /\ At(l, "record") /\ live[Mine(l)] # None
    /\ live' = [live EXCEPT ![Mine(l)].loaded = TRUE,
                            ![Mine(l)].history =
                                Compacted(Append(Room(@), lane[l].turn), ok)]
    /\ Go(l, "append")
    /\ UNCHANGED <<transcript, api, turns, crashes, apart, missing>> /\ KeepIndex

(***************************************************************************)
(* The file is appended to as it is found: a line that was cut off is      *)
(* ended by the next one, which is lost with it.  What is cut off itself   *)
(* may be nothing, a piece, or all but the end of the line.                *)
(***************************************************************************)
IsCut(lines) == lines # <<>> /\ Last(lines) = Torn
Appended(lines, turn) ==
    IF IsCut(lines) THEN Append(Front(lines), None) ELSE Append(lines, turn)
CutShort(lines, turn) ==
    IF IsCut(lines) THEN {lines}
    ELSE {lines, Append(lines, Torn), lines \o <<turn, Torn>>}

\* chat_persist_append, under no lock; that it failed is not noticed
AppendTurn(l) ==
    /\ At(l, "append")
    /\ \/ /\ transcript' = [transcript EXCEPT ![Mine(l)] = Appended(@, lane[l].turn)]
          /\ UNCHANGED failures
       \/ /\ failures < MaxFailures /\ failures' = failures + 1
          /\ \E lines \in CutShort(transcript[Mine(l)], lane[l].turn) :
                transcript' = [transcript EXCEPT ![Mine(l)] = lines]
    /\ missing' = missing \union ({lane[l].turn} \ ToSet(transcript'[Mine(l)]))
    /\ Go(l, "index")
    /\ UNCHANGED <<live, meta, metaLive, logging, metaError, index, log, api, turns, crashes,
                   apart>>

Reindex(l) ==
    /\ At(l, "index") /\ live[Mine(l)] # None
    /\ Upsert(Mine(l))
    /\ Go(l, "end")
    /\ UNCHANGED <<live, transcript, api, turns, crashes, apart, missing>>

End(l) ==
    /\ At(l, "end") /\ live[Mine(l)] # None
    /\ live' = [live EXCEPT ![Mine(l)].runner = None]
    /\ lane' = [lane EXCEPT ![l] = Idle]
    /\ UNCHANGED <<transcript, api, turns, crashes, apart, missing>> /\ KeepIndex

-----------------------------------------------------------------------------
\* Requests, one at a time

KeepLanes == UNCHANGED <<lane, turns, crashes, missing>>
Ready == api = Idle

\* reasoning_session_new: an id the index does not know.
New(id) == meta[id] = None /\ Upsert(id)

\* POST /v1/chat/sessions: a session whose directory cannot be noted is deleted.
Create(id) ==
    /\ Ready /\ New(id)
    /\ api' \in {Idle} \union (IF metaError' THEN {}
                               ELSE {[Idle EXCEPT !.pc = "undo", !.id = id]})
    /\ KeepLanes /\ UNCHANGED <<live, transcript, apart>>

\* reasoning_session_set_title: no entry is appended to the journal.
SetTitle(id) ==
    /\ Ready /\ id \in Listed(meta)
    /\ Save(meta, {})
    /\ KeepLanes /\ UNCHANGED <<live, metaLive, transcript, api, apart>>

\* reasoning_session_note_prompt: the session is made, then indexed.
Note(id) ==
    /\ Ready
    /\ live' = [live EXCEPT ![id] = Found(id)]
    /\ api' = [Idle EXCEPT !.pc = "note", !.id = id]
    /\ KeepLanes /\ KeepIndex /\ UNCHANGED <<transcript, apart>>

Noted ==
    /\ api.pc = "note" /\ live[api.id] # None
    /\ Upsert(api.id)
    /\ api' = Idle
    /\ KeepLanes /\ UNCHANGED <<live, transcript, apart>>

\* reasoning_history_json_ex: what there is of the session is loaded.
Opened(id) ==
    /\ live' = [live EXCEPT ![id] = Loaded(Found(id), id)]
    /\ KeepLanes /\ KeepIndex /\ UNCHANGED <<transcript, api, apart>>

\* GET /v1/chat/history: an unknown session is not made by reading it, but a
\* transcript alone makes it known.
Read(id) ==
    /\ Ready
    /\ live[id] # None \/ id \in Listed(meta) \/ transcript[id] # <<>>
    /\ Opened(id)

\* reasoning_session_last_input
LastInput(id) ==
    /\ Ready
    /\ live[id] # None \/ id \in Listed(meta)
    /\ Opened(id)

\* reasoning_session_clear: the memory is emptied, then the file removed.
Clear(id) ==
    /\ Ready
    /\ live[id] # None \/ id \in Listed(meta)
    /\ live' = [live EXCEPT ![id] = [Found(id) EXCEPT !.history = <<>>]]
    /\ api' = [Idle EXCEPT !.pc = "remove", !.id = id]
    /\ KeepLanes /\ KeepIndex /\ UNCHANGED <<transcript, apart>>

\* reasoning_session_delete: the session leaves the registry and the index,
\* then its transcript is removed.
Deleted(id) ==
    /\ LET gone == id \in Listed(meta) IN
       /\ metaLive' = metaLive - (IF gone THEN 1 ELSE 0)
       /\ Save(IF gone THEN [meta EXCEPT ![id] = "deleted"] ELSE meta,
               IF gone THEN {id} ELSE {})
    /\ live' = [live EXCEPT ![id] = None]
    /\ apart' = apart \ {id}
    /\ api' = [Idle EXCEPT !.pc = "remove", !.id = id]
    /\ KeepLanes /\ UNCHANGED transcript

\* Refused while the session runs.
Delete(id) ==
    /\ Ready
    /\ Unheld(id)
    /\ live[id] # None \/ id \in Listed(meta)
    /\ Deleted(id)

Undo ==
    /\ api.pc = "undo"
    /\ IF Unheld(api.id) THEN Deleted(api.id)
       ELSE api' = Idle /\ KeepLanes /\ KeepIndex /\ UNCHANGED <<live, transcript, apart>>

\* The last step of both.  The file may be in use by then.
RemoveTranscript ==
    /\ api.pc = "remove"
    /\ transcript' = [transcript EXCEPT ![api.id] = <<>>]
    /\ apart' = IF live[api.id] # None
                   /\ \/ live[api.id].history # <<>>
                      \/ live[api.id].runner # None
                THEN apart \union {api.id} ELSE apart
    /\ api' = Idle
    /\ KeepLanes /\ KeepIndex /\ UNCHANGED live

-----------------------------------------------------------------------------
\* A restart

\* meta_load_legacy: what the file lists, and the transcripts it does not; of
\* a file that cannot be parsed, nothing at all.
Recovered == IF index = Torn THEN {} ELSE index \union {id \in Ids : transcript[id] # <<>>}
Healed == [id \in Ids |-> IF id \in Recovered THEN "listed" ELSE None]

\* What a start would find, and meta_load makes of it.
Restarted == IF log # None THEN log ELSE Healed

(***************************************************************************)
(* The process ends.  A short index may be cut off while it is rewritten,  *)
(* and a transcript while it is appended to; the journal is replaced by    *)
(* renaming, and a record cut off in it is skipped.                        *)
(***************************************************************************)
Crash ==
    /\ crashes < MaxCrashes /\ crashes' = crashes + 1
    /\ live' = [id \in Ids |-> None] /\ meta' = NoEntries /\ metaLive' = 0
    /\ lane' = [l \in Lanes |-> Idle] /\ apart' = {}
    /\ api' = [Idle EXCEPT !.pc = "boot"]
    /\ index' \in IF logging THEN {index} ELSE {index, Torn}
    /\ logging' = FALSE /\ metaError' = FALSE
    /\ \/ UNCHANGED transcript
       \/ \E l \in Lanes :
             /\ At(l, "append")
             /\ \E lines \in CutShort(transcript[Mine(l)], lane[l].turn) :
                   transcript' = [transcript EXCEPT ![Mine(l)] = lines]
    /\ UNCHANGED <<log, turns, failures, missing>>

\* meta_load, before any run or request; what was recovered is saved at once.
Boot ==
    /\ api.pc = "boot" /\ api' = Idle
    /\ metaLive' = Cardinality(Listed(Restarted))
    /\ IF log # None
       THEN /\ meta' = log /\ logging' = TRUE
            /\ UNCHANGED <<metaError, index, log, failures>>
       ELSE IF index # Torn /\ Recovered # index
       THEN Save(Healed, {})
       ELSE /\ meta' = Healed
            /\ UNCHANGED <<logging, metaError, index, log, failures>>
    /\ KeepLanes /\ UNCHANGED <<live, transcript, apart>>

Next ==
    \/ \E l \in Lanes :
        \/ \E id \in Ids : Start(l, id)
        \/ \E ok \in BOOLEAN : Account(l, ok) \/ Record(l, ok)
        \/ Load(l) \/ AppendTurn(l) \/ Reindex(l) \/ End(l)
    \/ \E id \in Ids :
        \/ Create(id) \/ SetTitle(id) \/ Note(id) \/ Read(id) \/ LastInput(id)
        \/ Clear(id) \/ Delete(id)
    \/ Noted \/ Undo \/ RemoveTranscript \/ Crash \/ Boot

Spec == Init /\ [][Next]_sessionsVars
-----------------------------------------------------------------------------
Running == {l \in Lanes : lane[l].pc # "idle"}

\* The session a lane runs stays in the registry, and is run by no other lane
\* (reasoning_run_ex, reasoning_session_delete; "in_run").
RunKeepsItsSession ==
    \A l \in Running : live[Mine(l)] # None /\ live[Mine(l)].runner = l

\* The total the listing shows (reasoning_sessions_page_json) is that of the
\* entries it lists.
TotalIsExact == metaLive = Cardinality(Listed(meta))

\* Turns are kept in the order in which they were run, and once.
Ascending(s) == \A i \in 1 .. Len(s) - 1 : s[i] < s[i + 1]
TurnsInOrder ==
    \A id \in Ids : Ascending(Turns(transcript[id]))
                    /\ (live[id] # None => Ascending(live[id].history))

(***************************************************************************)
(* Of a session that is loaded, memory has the last turns of the           *)
(* transcript and one that is about to be written, and no other than turns *)
(* whose write failed, or which were appended to a line that was cut off:  *)
(* what is shown is what a restart would show, but for these.  Not so once *)
(* the transcript was removed under a session in use.                      *)
(***************************************************************************)
Unwritten(id) == {l \in Lanes : At(l, "append") /\ Mine(l) = id}
Written(turn) == turn \notin missing
MemoryShowsTheDisk ==
    \A id \in Ids :
        (live[id] # None /\ live[id].loaded /\ id \notin apart /\ api.id # id) =>
            \E l \in Unwritten(id) \union {None} :
                IsSuffix(SelectSeq(live[id].history, Written),
                         IF l = None THEN Turns(transcript[id])
                         ELSE Append(Turns(transcript[id]), lane[l].turn))

\* One failed write, or crash, costs the turn that was written and the next.
LossIsBounded == Cardinality(missing) <= 2 * failures + crashes

\* With a journal, and no failed write, a restart lists the sessions that are
\* listed now: none is lost and none comes back (meta_log_change).
RestartListsTheSame ==
    (logging /\ ~metaError) => Listed(Restarted) = Listed(meta)

SessionsSafe ==
    /\ RunKeepsItsSession /\ TotalIsExact /\ TurnsInOrder
    /\ MemoryShowsTheDisk /\ LossIsBounded /\ RestartListsTheSame
=============================================================================
