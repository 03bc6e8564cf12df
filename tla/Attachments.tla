---------------------------- MODULE Attachments ----------------------------
(***************************************************************************)
(* Uploaded files (api/attachment.c).  A file is stored under a new id:    *)
(* its bytes, what a processor extracts of it, its text and the index of   *)
(* the text, and last the manifest that makes it known.  It is deleted in  *)
(* the other order of files, and a message takes a snapshot of it from the *)
(* files as they are.  Deletions and messages are requests that take turns *)
(* (http_server.c), uploads run beside them; and the process may die       *)
(* between any two steps.  At the next start files of an older version,    *)
(* kept under their own names, are stored anew, and texts are indexed.     *)
(*                                                                         *)
(* A file that is written in part is as good as none: it is either without *)
(* a manifest, or the manifest says failed, or it is the manifest and does *)
(* not parse.  Ids are random and not given twice.                         *)
(***************************************************************************)
EXTENDS Integers, FiniteSets

CONSTANTS
    Clients, Starter,       \* handlers, and the thread that starts the runtime
    OldNames,               \* files of an older version, texts all of them
    None,
    MaxIds, MaxFailures, MaxCrashes     \* bounds

Workers == Clients \cup {Starter}
Ids == 1 .. MaxIds

\* What a file of a kind consists of besides its bytes.
Kinds == {"image", "text", "pages", "other"}
Parts(kind) ==
    CASE kind = "text" -> {"txt"} [] kind = "pages" -> {"txt", "frames"} [] OTHER -> {}

VARIABLES
    files,      \* the files there are: <<id, extension>>
    manifest,   \* id |-> what the manifest says, or None
    old, todo,  \* names of old files that are still there, that are to be stored
    index,      \* ids, and old names, whose text is indexed
    nextId,
    work,       \* worker |-> what it is doing
    up,         \* the API is served
    failures, crashes,
    stored,     \* ghost: ids answered with their manifest
    unwanted, deleted,  \* ghost: ids asked to delete, those that were answered
    imported,   \* ghost: id |-> the old name it has the bytes of, or None
    torn        \* ghost: a message has got a file of which a part is missing

attachmentsVars == <<files, manifest, old, todo, index, nextId, work, up, failures,
                     crashes, stored, unwanted, deleted, imported, torn>>

Idle == [at |-> "idle", id |-> 0, kind |-> None, status |-> None, name |-> None,
         got |-> {}]

Init ==
    /\ files = {} /\ manifest = [i \in Ids |-> None]
    /\ old \in SUBSET OldNames /\ todo = {} /\ index = {} /\ nextId = 1
    /\ work = [w \in Workers |-> IF w = Starter THEN [Idle EXCEPT !.at = "scan"] ELSE Idle]
    /\ up = FALSE /\ failures = 0 /\ crashes = 0
    /\ stored = {} /\ unwanted = {} /\ deleted = {} /\ imported = [i \in Ids |-> None] /\ torn = FALSE

Goes(w, to) == work' = [work EXCEPT ![w].at = to]
Rests(w) == work' = [work EXCEPT ![w] = Idle]
Fails == failures < MaxFailures /\ failures' = failures + 1

-----------------------------------------------------------------------------
\* attachment_store

\* By a client, or of an old file at the start.
StoreBegin(w, kind, name) ==
    /\ nextId \in Ids /\ nextId' = nextId + 1
    /\ work' = [work EXCEPT ![w] = [Idle EXCEPT !.at = "bytes", !.id = nextId,
                                       !.kind = kind, !.name = name]]
    /\ imported' = [imported EXCEPT ![nextId] = name]
    /\ UNCHANGED <<files, manifest, old, index, up, failures, crashes, stored,
                   unwanted, deleted, torn>>

\* h_upload is not serialized, and refuses a third one.
StoreSteps == {"bytes", "extract", "text", "manifest"}
Storing == {w \in Clients : work[w].at \in StoreSteps}

Upload(w) ==
    /\ w \in Clients /\ up /\ work[w].at = "idle"
    /\ Cardinality(Storing) < 2
    /\ \E kind \in Kinds : StoreBegin(w, kind, None)
    /\ UNCHANGED todo

\* Where a worker is that cannot store: a client has an error, the starter
\* turns to the next old file.
GivesUp(w) == IF w = Starter THEN work' = [work EXCEPT ![w] = [Idle EXCEPT !.at = "import"]]
              ELSE Rests(w)

WriteBytes(w) ==
    /\ work[w].at = "bytes"
    /\ \/ files' = files \cup {<<work[w].id, "raw">>} /\ Goes(w, "extract")
          /\ UNCHANGED failures
       \/ Fails /\ GivesUp(w) /\ UNCHANGED files
    /\ UNCHANGED <<manifest, old, todo, index, nextId, up, crashes, stored,
                   unwanted, deleted, imported, torn>>

\* The processor writes the frames itself; without it the file has failed.
Extract(w) ==
    LET i == work[w].id
        then(status, to) == work' = [work EXCEPT ![w].at = to, ![w].status = status]
    IN  /\ work[w].at = "extract"
        /\ CASE work[w].kind = "image" ->
                   then("ready", "manifest") /\ UNCHANGED <<files, failures>>
             [] work[w].kind = "other" ->
                   then("unsupported", "manifest") /\ UNCHANGED <<files, failures>>
             [] work[w].kind = "text" -> then("ready", "text") /\ UNCHANGED <<files, failures>>
             [] work[w].kind = "pages" ->
                   \/ /\ files' = files \cup {<<i, "frames">>} /\ then("ready", "text")
                      /\ UNCHANGED failures
                   \/ Fails /\ then("failed", "manifest") /\ UNCHANGED files
        /\ UNCHANGED <<manifest, old, todo, index, nextId, up, crashes, stored,
                       unwanted, deleted, imported, torn>>

\* The text and its index; a failure of either takes the index and frames back.
WriteText(w) ==
    LET i == work[w].id
    IN  /\ work[w].at = "text"
        /\ \/ /\ files' = files \cup {<<i, "txt">>} /\ index' = index \cup {i}
              /\ Goes(w, "manifest") /\ UNCHANGED failures
           \/ /\ Fails /\ files' \in {files \ {<<i, "frames">>},
                                      (files \cup {<<i, "txt">>}) \ {<<i, "frames">>}}
              /\ work' = [work EXCEPT ![w].at = "manifest", ![w].status = "failed"]
              /\ UNCHANGED index
        /\ UNCHANGED <<manifest, old, todo, nextId, up, crashes, stored, unwanted,
                       deleted, imported, torn>>

Says(w) == [kind |-> work[w].kind, status |-> work[w].status]

\* save_meta, or everything is taken back.
WriteManifest(w) ==
    LET i == work[w].id
    IN  /\ work[w].at = "manifest"
        /\ \/ /\ manifest' = [manifest EXCEPT ![i] = Says(w)]
              /\ stored' = stored \cup {i}
              /\ IF w = Starter THEN Goes(w, "replace") ELSE Rests(w)
              /\ UNCHANGED <<files, index, failures>>
           \/ /\ Fails /\ index' = index \ {i}
              /\ files' = {f \in files : f[1] # i}
              /\ GivesUp(w) /\ UNCHANGED <<manifest, stored>>
        /\ UNCHANGED <<old, todo, nextId, up, crashes, unwanted, deleted, imported,
                       torn>>

-----------------------------------------------------------------------------
\* attachment_delete

\* No other serialized handler runs.
MyTurn(w) ==
    w \in Clients /\ up /\ \A v \in Clients \ Storing : work[v].at = "idle"

DeleteBegin(w, i) ==
    /\ MyTurn(w) /\ work[w].at = "idle"
    /\ manifest[i] # None           \* or 404
    /\ work' = [work EXCEPT ![w] = [Idle EXCEPT !.at = "forget", !.id = i]]
    /\ unwanted' = unwanted \cup {i}
    /\ UNCHANGED <<files, manifest, old, todo, index, nextId, up, failures,
                   crashes, stored, deleted, imported, torn>>

\* A manifest that cannot be removed is answered with an error.
ForgetManifest(w) ==
    LET i == work[w].id
    IN  /\ work[w].at = "forget"
        /\ \/ /\ Goes(w, "remove raw")
              /\ manifest' = [manifest EXCEPT ![i] = None]
              /\ UNCHANGED failures
           \/ Fails /\ Rests(w) /\ UNCHANGED manifest
        /\ UNCHANGED <<files, old, todo, index, nextId, up, crashes,
                       stored, unwanted, deleted, imported, torn>>

\* The bytes, the text, the frames; the outcome does not matter.
Removes == [raw |-> "remove raw", txt |-> "remove txt", frames |-> "remove frames"]
Then    == [raw |-> "remove txt", txt |-> "remove frames", frames |-> "unindex"]
RemoveFile(w, ext) ==
    /\ work[w].at = Removes[ext]
    /\ files' = files \ {<<work[w].id, ext>>}
    /\ Goes(w, Then[ext])
    /\ UNCHANGED <<manifest, old, todo, index, nextId, up, failures, crashes,
                   stored, unwanted, deleted, imported, torn>>

Unindex(w) ==
    /\ work[w].at = "unindex"
    /\ index' = index \ {work[w].id} /\ deleted' = deleted \cup {work[w].id}
    /\ Rests(w)
    /\ UNCHANGED <<files, manifest, old, todo, nextId, up, failures, crashes,
                   stored, unwanted, imported, torn>>

-----------------------------------------------------------------------------
\* attachment_snapshot: the manifest, the bytes or the text, the frames.

SnapshotBegin(w, i) ==
    /\ MyTurn(w) /\ work[w].at = "idle"
    /\ manifest[i] # None /\ manifest[i].status = "ready"
    /\ work' = [work EXCEPT ![w] = [Idle EXCEPT !.at = "read", !.id = i,
                                       !.kind = manifest[i].kind]]
    /\ UNCHANGED <<files, manifest, old, todo, index, nextId, up, failures,
                   crashes, stored, unwanted, deleted, imported, torn>>

\* The bytes of an image, else the text, which a file with frames may lack.
ReadContent(w) ==
    LET content == IF work[w].kind = "image" THEN "raw" ELSE "txt"
    IN  /\ work[w].at = "read"
        /\ IF <<work[w].id, content>> \in files
           THEN work' = [work EXCEPT ![w].at = "read frames", ![w].got = {content}]
           ELSE IF work[w].kind = "pages" THEN Goes(w, "read frames") ELSE Rests(w)
        /\ UNCHANGED <<files, manifest, old, todo, index, nextId, up, failures,
                       crashes, stored, unwanted, deleted, imported, torn>>

ReadFrames(w) ==
    LET has == <<work[w].id, "frames">> \in files
        got == work[w].got \cup (IF has THEN {"frames"} ELSE {})
    IN  /\ work[w].at = "read frames"
        /\ torn' = (torn \/ /\ work[w].kind = "pages" => has
                            /\ ~(Parts(work[w].kind) \subseteq got))
        /\ Rests(w)
        /\ UNCHANGED <<files, manifest, old, todo, index, nextId, up, failures,
                       crashes, stored, unwanted, deleted, imported>>

-----------------------------------------------------------------------------
\* The start: memory_index_uploads, then attachment_reindex

ScanUploads ==
    /\ work[Starter].at = "scan"
    /\ index' = old /\ todo' = old /\ Goes(Starter, "import")
    /\ UNCHANGED <<files, manifest, old, nextId, up, failures, crashes, stored,
                   unwanted, deleted, imported, torn>>

\* The old files are taken in turn.
Import ==
    /\ work[Starter].at = "import"
    /\ \/ \E n \in todo : StoreBegin(Starter, "text", n) /\ todo' = todo \ {n}
       \/ /\ todo = {} /\ Goes(Starter, "reindex") /\ UNCHANGED todo
          /\ UNCHANGED <<files, manifest, old, index, nextId, up, failures,
                         crashes, stored, unwanted, deleted, imported, torn>>

Replace ==
    /\ work[Starter].at = "replace"
    /\ index' = index \ {work[Starter].name} /\ old' = old \ {work[Starter].name}
    /\ work' = [work EXCEPT ![Starter] = [Idle EXCEPT !.at = "import"]]
    /\ UNCHANGED <<files, manifest, todo, nextId, up, failures, crashes, stored,
                   unwanted, deleted, imported, torn>>

WithText == {i \in Ids : <<i, "txt">> \in files}
Indexable ==
    {i \in WithText : manifest[i] # None /\ manifest[i].status = "ready"}

Reindex ==
    /\ work[Starter].at = "reindex"
    /\ index' = index \cup Indexable
    /\ up' = TRUE /\ Rests(Starter)
    /\ UNCHANGED <<files, manifest, old, todo, nextId, failures, crashes, stored,
                   unwanted, deleted, imported, torn>>

\* What was asked for and not answered may be half done.
Crash ==
    /\ crashes < MaxCrashes /\ crashes' = crashes + 1
    /\ up' = FALSE /\ index' = {}
    /\ work' = [w \in Workers |-> IF w = Starter THEN [Idle EXCEPT !.at = "scan"] ELSE Idle]
    /\ UNCHANGED <<files, manifest, old, todo, nextId, failures, stored, unwanted,
                   deleted, imported, torn>>

Step(w) ==
    \/ Upload(w) \/ WriteBytes(w) \/ Extract(w) \/ WriteText(w) \/ WriteManifest(w)
    \/ ForgetManifest(w) \/ (\E ext \in {"raw", "txt", "frames"} : RemoveFile(w, ext))
    \/ Unindex(w) \/ ReadContent(w) \/ ReadFrames(w)
    \/ \E i \in Ids : DeleteBegin(w, i) \/ SnapshotBegin(w, i)

Next == (\E w \in Workers : Step(w)) \/ ScanUploads \/ Import \/ Replace \/ Reindex \/ Crash

Spec == Init /\ [][Next]_attachmentsVars
-----------------------------------------------------------------------------
\* A manifest that says ready has all its files, whenever the process dies.
ReadyIsWhole ==
    \A i \in Ids : manifest[i] # None /\ manifest[i].status = "ready" =>
        \A ext \in {"raw"} \cup Parts(manifest[i].kind) : <<i, ext>> \in files

\* What was answered stays: a stored file until somebody asks to delete it, a
\* deleted one for ever, and nothing of it is recalled.
AnswersStay ==
    /\ \A i \in stored \ unwanted : manifest[i] # None /\ <<i, "raw">> \in files
    /\ \A i \in deleted : manifest[i] = None /\ i \notin index

\* While the API is served the texts that are recalled are those of files that
\* are ready, of old files, and of files being stored or deleted.
RecallFollows ==
    up => LET busy == {work[w].id : w \in Workers}
              texts == {i \in Ids : /\ manifest[i] # None /\ manifest[i].status = "ready"
                                    /\ "txt" \in Parts(manifest[i].kind)}
          IN  texts \subseteq index /\ index \subseteq texts \cup old \cup busy

\* The bytes of an old file are never lost but by a deletion.
NoBytesAreLost ==
    \A n \in OldNames \ old :
        (\E i \in Ids : imported[i] = n)
            => \E i \in Ids : /\ imported[i] = n
                             /\ \/ i \in unwanted
                                \/ manifest[i] # None /\ <<i, "raw">> \in files

\* A message gets a file with all its parts.
MessagesAreWhole == ~torn

AttachmentsSafe ==
    ReadyIsWhole /\ AnswersStay /\ RecallFollows /\ NoBytesAreLost /\ MessagesAreWhole
=============================================================================
