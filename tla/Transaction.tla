---------------------------- MODULE Transaction ----------------------------
(***************************************************************************)
(* src/backend/src/tx/tx.c over src/backend/src/snapshot: each round of    *)
(* actions of a reasoning lane runs in a transaction.  Before a write tool *)
(* runs, the files its arguments name are captured in the one pending list *)
(* of the one snapshot store all lanes share; a commit turns that list     *)
(* into a manifest, a rollback restores it.  A client restores committed   *)
(* manifests over HTTP at any time.                                        *)
(*                                                                         *)
(* Content is a model value, and a block is named by the content it was    *)
(* made from (its hash, taken to be free of collisions).                   *)
(***************************************************************************)
EXTENDS Integers, FiniteSets, Sequences, SequencesExt

CONSTANTS
    Lanes, Paths,
    Tracked,         \* paths outside every git work tree
    Contents,        \* what files contain
    Binary,          \* contents that hold a NUL byte
    Absent,          \* no such file
    Uncopied,        \* a directory, or a file above the capture limit
    Unread,          \* the original could not be read or stored
    Cut, Torn,       \* content up to its first NUL; a half-written block
    ToolCalls,       \* path arguments of one tool call, sequences of paths
    Selections,      \* paths a client selects for a restore, sequences too
    Crashes,         \* may a crash tear a block
    MaxTx, MaxCalls, \* bounds: transactions, tool calls in each
    MaxRestarts,     \* bound: restarts of the runtime
    MaxFaults        \* bound: steps in which reads or writes fail

ASSUME TxAssumption ==
    /\ Tracked \subseteq Paths /\ Binary \subseteq Contents
    /\ ToolCalls \cup Selections \subseteq Seq(Paths)
    /\ {Absent, Uncopied, Unread, Cut, Torn} \cap Contents = {}
    /\ Absent \notin {Uncopied, Unread, Cut, Torn} /\ Uncopied \notin {Unread, Cut, Torn}
    /\ Unread \notin {Cut, Torn} /\ Cut # Torn
    /\ Crashes \in BOOLEAN /\ MaxFaults \in Nat
    /\ MaxTx \in Nat /\ MaxCalls \in Nat /\ MaxRestarts \in Nat

VARIABLES
    file,       \* the file system
    blocks,     \* the block store: name of a block |-> what it holds
    pending,    \* entries captured and not yet committed
    manifest,   \* the entries of each committed snapshot, by id
    committed,  \* ids in the order of the committed list
    disk,       \* ids whose manifest is on disk
    pc, call, calls, ok,   \* per lane: struct tx and the call under way
    begun, restarts, faults,
    base,       \* ghost: per lane, path |-> its state when first captured
    again,      \* ghost: per lane, paths captured more than once
    made,       \* ghost: per lane, path |-> what its tools made of it
    original,   \* ghost: the base of each committed snapshot
    kept        \* ghost: path |-> what a commit promised to keep

storeVars == <<blocks, pending, manifest, committed, disk>>
laneVars  == <<pc, call, calls, ok>>
boundVars == <<begun, restarts, faults>>
ghostVars == <<base, again, made, original, kept>>
vars == <<file, storeVars, laneVars, boundVars, ghostVars>>

Data    == Contents \cup {Cut, Torn}
Files   == Data \cup {Absent, Uncopied}
Nothing == [p \in {} |-> Absent]
Goto(l, place) == pc' = [pc EXCEPT ![l] = place]
Without(f, S)  == [p \in DOMAIN f \ S |-> f[p]]

Init ==
    /\ file \in [Paths -> Contents \cup {Absent, Uncopied}]
    /\ blocks = Nothing /\ pending = <<>>
    /\ manifest = <<>> /\ committed = <<>> /\ disk = {}
    /\ pc = [l \in Lanes |-> "idle"] /\ call = [l \in Lanes |-> <<>>]
    /\ calls = [l \in Lanes |-> 0] /\ ok = [l \in Lanes |-> TRUE]
    /\ begun = 0 /\ restarts = 0 /\ faults = 0
    /\ base = [l \in Lanes |-> Nothing] /\ again = [l \in Lanes |-> {}]
    /\ made = [l \in Lanes |-> Nothing] /\ original = <<>> /\ kept = Nothing

-----------------------------------------------------------------------------
\* snapshot.c

\* What snapshot_capture may record of a path; the content is measured as a
\* string, so a binary one ends at its first NUL.
AsText(v) == IF v \in Binary THEN Cut ELSE v
Recordable(p) ==
    IF file[p] \in {Absent, Uncopied} THEN {file[p]}
    ELSE {AsText(file[p]), Unread}

\* Something fails in this step, or nothing.
Fault == faults < MaxFaults /\ faults' = faults + 1
FaultIf(something) == IF something THEN Fault ELSE UNCHANGED faults

\* cow_put keeps a block that is already there.
WithBlocks(was, spoiled) ==
    [h \in DOMAIN blocks \cup (was \cap Data) \cup spoiled |->
        IF h \in DOMAIN blocks THEN blocks[h] ELSE IF h \in spoiled THEN Torn ELSE h]

\* Blocks whose write failed, before any other file with the same content was
\* captured: cow_put takes what is left of one for the block.
Spoilable(ps, was) ==
    {h \in Data \ DOMAIN blocks :
        \E i \in DOMAIN ps : /\ was[i] = Unread /\ AsText(file[ps[i]]) = h
                             /\ \A j \in 1..(i - 1) : was[j] # h}

\* An entry that is neither uncopied nor a stored block means: remove.
Back(was) == IF was \in DOMAIN blocks THEN blocks[was] ELSE Absent

\* The entries of a path that restore_entry acts on.
Acted(entries, p) == {i \in DOMAIN entries : entries[i].path = p /\ entries[i].was # Uncopied}

\* restore_entry goes through its entries one by one, and what fails is passed
\* over: without its block, or without access, a file stays as it is, and one
\* that cannot be written to its end is torn.
Outcomes(entries, p) ==
    {file[p]} \cup {Back(entries[i].was) : i \in Acted(entries, p)}
              \cup {Torn : i \in {k \in Acted(entries, p) : entries[k].was \in DOMAIN blocks}}

\* Mutated form: a file that did not exist is not removed.
RestoredCopies(entries, failing) ==
    {[p \in Paths |->
        LET mine == {i \in Acted(entries, p) : entries[i].was \in DOMAIN blocks}
        IN  IF mine = {} THEN file[p] ELSE Back(entries[Max(mine)].was)]}

\* What files can be then, "failing" being those for which something failed: of
\* the others the last entry stays.
Restored(entries, failing) ==
    {new \in [Paths -> Files] :
        \A p \in Paths :
            IF Acted(entries, p) = {} THEN new[p] = file[p]
            ELSE IF p \in failing THEN new[p] \in Outcomes(entries, p)
            ELSE new[p] = Back(entries[Max(Acted(entries, p))].was)}

PathsOf(entries) == {entries[i].path : i \in DOMAIN entries}

\* Mutated form: looked up from the back.
EntryFromBack(entries, p) ==
    entries[Max({i \in DOMAIN entries : entries[i].path = p})].was

\* snapshot_restore_files looks a path up from the front of the manifest.
EntryOf(entries, p) ==
    entries[Min({i \in DOMAIN entries : entries[i].path = p})].was

-----------------------------------------------------------------------------
\* tx.c, called by the ACT stage of a lane

\* tx_begin
Begin(l) ==
    /\ pc[l] = "idle" /\ begun < MaxTx
    /\ begun' = begun + 1
    /\ ok' = [ok EXCEPT ![l] = TRUE]
    /\ calls' = [calls EXCEPT ![l] = 0]
    /\ base' = [base EXCEPT ![l] = Nothing]
    /\ again' = [again EXCEPT ![l] = {}]
    /\ made' = [made EXCEPT ![l] = Nothing]
    /\ Goto(l, "open")
    /\ UNCHANGED <<file, storeVars, call, restarts, faults, original, kept>>

\* Where a call names paths that git does not manage, in its order.
TrackedAt(T) ==
    LET places == {i \in DOMAIN T : T[i] \in Tracked} IN
    {at \in [1..Cardinality(places) -> places] :
        \A m, n \in DOMAIN at : m < n => at[m] < at[n]}

\* tx_run: capture them.
Capture(l, T) ==
    /\ pc[l] = "open" /\ calls[l] < MaxCalls
    /\ \E at \in TrackedAt(T) : LET ps == [m \in DOMAIN at |-> T[at[m]]] IN
          /\ \E was \in [DOMAIN ps -> Data \cup {Absent, Uncopied, Unread}] :
                /\ \A i \in DOMAIN ps : was[i] \in Recordable(ps[i])
                /\ FaultIf(Unread \in Range(was))
                /\ pending' = pending \o
                      [i \in DOMAIN ps |-> [path |-> ps[i], was |-> was[i]]]
                /\ \E spoiled \in SUBSET Spoilable(ps, was) :
                      blocks' = WithBlocks(Range(was), spoiled)
          /\ base' = [base EXCEPT ![l] = [p \in DOMAIN @ \cup Range(ps) |->
                         IF p \in DOMAIN @ THEN @[p] ELSE file[p]]]
          /\ again' = [again EXCEPT ![l] = @ \cup (DOMAIN base[l] \cap Range(ps))]
    /\ call' = [call EXCEPT ![l] = T]
    /\ calls' = [calls EXCEPT ![l] = @ + 1]
    /\ Goto(l, "captured")
    /\ UNCHANGED <<file, manifest, committed, disk, ok, begun, restarts, made, original, kept>>

\* The tool then changes its files, or some of them when it fails.
Execute(l) ==
    /\ pc[l] = "captured"
    /\ \E new \in [Range(call[l]) -> Contents \cup {Absent}], fine \in BOOLEAN,
          done \in SUBSET Range(call[l]) :
          /\ fine => done = Range(call[l])
          /\ file' = [p \in Paths |-> IF p \in done THEN new[p] ELSE file[p]]
          /\ kept' = Without(kept, done)
          /\ made' = [m \in Lanes |->
                IF m # l THEN Without(made[m], done)
                ELSE [p \in DOMAIN made[m] \cup done |-> file'[p]]]
          /\ ok' = [ok EXCEPT ![l] = @ /\ fine]
    /\ Goto(l, "open")
    /\ UNCHANGED <<storeVars, call, calls, boundVars, base, again, original>>

\* An action the round refuses before the tool is reached.
Refuse(l) ==
    /\ pc[l] = "open" /\ calls[l] < MaxCalls
    /\ calls' = [calls EXCEPT ![l] = @ + 1]
    /\ ok' = [ok EXCEPT ![l] = FALSE]
    /\ UNCHANGED <<file, storeVars, pc, call, boundVars, ghostVars>>

\* Mutated form: the pending list keeps what was committed.
CommitRetained(l) ==
    /\ pc[l] = "open" /\ ok[l]
    /\ IF pending = <<>> THEN UNCHANGED <<storeVars, original, faults>>
       ELSE LET id == Len(manifest) + 1 IN
            /\ manifest' = Append(manifest, pending)
            /\ committed' = Append(committed, id)
            /\ \/ disk' = disk \cup {id} /\ UNCHANGED faults
               \/ Fault /\ UNCHANGED disk
            /\ original' = Append(original, base[l])
            /\ UNCHANGED <<blocks, pending>>
    /\ kept' = [p \in DOMAIN kept \cup DOMAIN made[l] |->
                   IF p \in DOMAIN made[l] THEN made[l][p] ELSE kept[p]]
    /\ Goto(l, "idle")
    /\ UNCHANGED <<file, call, calls, ok, begun, restarts, base, again, made>>

\* tx_commit; writing the manifest may fail without notice.
Commit(l) ==
    /\ pc[l] = "open" /\ ok[l]
    /\ IF pending = <<>> THEN UNCHANGED <<storeVars, original, faults>>
       ELSE LET id == Len(manifest) + 1 IN
            /\ manifest' = Append(manifest, pending)
            /\ committed' = Append(committed, id)
            /\ \/ disk' = disk \cup {id} /\ UNCHANGED faults
               \/ Fault /\ UNCHANGED disk
            /\ original' = Append(original, base[l])
            /\ pending' = <<>>
            /\ UNCHANGED blocks
    /\ kept' = [p \in DOMAIN kept \cup DOMAIN made[l] |->
                   IF p \in DOMAIN made[l] THEN made[l][p] ELSE kept[p]]
    /\ Goto(l, "idle")
    /\ UNCHANGED <<file, call, calls, ok, begun, restarts, base, again, made>>

\* tx_rollback.  A crash within it is a failure of what it had still to do.
RollbackBut(l, failing) ==
    /\ pc[l] = "open" /\ ~ok[l]
    /\ FaultIf(failing # {})
    /\ file' \in Restored(pending, failing)
    /\ pending' = <<>>
    /\ Goto(l, "idle")
    /\ UNCHANGED <<blocks, manifest, committed, disk, call, calls, ok, begun, restarts,
                   ghostVars>>

Rollback(l) == \E failing \in SUBSET Tracked : RollbackBut(l, failing)

-----------------------------------------------------------------------------
\* POST /v1/snapshots/rollback

\* Ghost: a client has replaced what was made of these files.
Forget(S) ==
    /\ kept' = Without(kept, S)
    /\ made' = [l \in Lanes |-> Without(made[l], S)]

\* It is answered with success, whatever failed.
RestoreLatest ==
    /\ committed # <<>>
    /\ LET entries == manifest[Last(committed)] IN
          /\ \E failing \in SUBSET Tracked :
                FaultIf(failing # {}) /\ file' \in Restored(entries, failing)
          /\ Forget(PathsOf(entries))
    /\ UNCHANGED <<storeVars, laneVars, begun, restarts, base, again, original>>

\* Every path must be in the manifest and copied, or nothing happens.
Selectable(id, ps) ==
    /\ id \in Range(committed)
    /\ \A i \in DOMAIN ps :
          /\ ps[i] \in PathsOf(manifest[id])
          /\ EntryOf(manifest[id], ps[i]) # Uncopied

\* Paths of the selection that have to be removed and are not there, or not
\* any more.
Stops(id, ps) ==
    {i \in DOMAIN ps :
        /\ EntryOf(manifest[id], ps[i]) \notin DOMAIN blocks
        /\ file[ps[i]] = Absent \/ \E j \in 1..(i - 1) : ps[j] = ps[i]}

PutBack(id, ps, torn) ==
    /\ file' = [p \in Paths |->
                   IF p \in torn THEN Torn
                   ELSE IF p \in Range(ps) THEN Back(EntryOf(manifest[id], p)) ELSE file[p]]
    /\ Forget(Range(ps) \cup torn)
    /\ UNCHANGED <<storeVars, laneVars, begun, restarts, base, again, original>>

RestoreFiles(id, ps) ==
    /\ Selectable(id, ps) /\ Stops(id, ps) = {}
    /\ PutBack(id, ps, {}) /\ UNCHANGED faults

\* The first path for which something fails stops the work: those before it
\* stay restored, and it may itself be torn.
RestoreFilesStops(id, ps) ==
    /\ Selectable(id, ps)
    /\ \E i \in DOMAIN ps : \E torn \in SUBSET {ps[i]} :
          /\ \A j \in 1..(i - 1) : j \notin Stops(id, ps)
          /\ torn # {} => EntryOf(manifest[id], ps[i]) \in DOMAIN blocks
          /\ FaultIf(i \notin Stops(id, ps))
          /\ PutBack(id, SubSeq(ps, 1, i - 1), torn)

-----------------------------------------------------------------------------
\* The process ends at any point and snapshot_open loads the manifests in
\* the order in which the directory lists them.  A block may be half written.
Restart ==
    /\ restarts < MaxRestarts
    /\ restarts' = restarts + 1
    /\ \/ UNCHANGED blocks
       \/ /\ Crashes
          /\ \E l \in Lanes, p \in Tracked :
                /\ pc[l] = "open" /\ AsText(file[p]) \in Data \ DOMAIN blocks
                /\ blocks' = [h \in DOMAIN blocks \cup {AsText(file[p])} |->
                                IF h \in DOMAIN blocks THEN blocks[h] ELSE Torn]
    /\ committed' \in SetToSeqs(disk)
    /\ pending' = <<>>
    /\ pc' = [l \in Lanes |-> "idle"]
    /\ UNCHANGED <<file, manifest, disk, call, calls, ok, begun, faults, ghostVars>>

Next ==
    \/ \E l \in Lanes :
          \/ Begin(l) \/ Execute(l) \/ Refuse(l) \/ Commit(l) \/ Rollback(l)
          \/ \E T \in ToolCalls : Capture(l, T)
    \/ RestoreLatest
    \/ \E id \in DOMAIN manifest, ps \in Selections :
          RestoreFiles(id, ps) \/ RestoreFilesStops(id, ps)
    \/ Restart

Spec == Init /\ [][Next]_vars

-----------------------------------------------------------------------------
\* PROPERTIES

Entry == [path : Tracked, was : Data \cup {Absent, Uncopied, Unread}]

\* Entries record only what a capture may record, every recorded block is in
\* the store, and the committed list names existing manifests once.
TypeOK ==
    /\ file \in [Paths -> Files]
    /\ DOMAIN blocks \subseteq Data /\ Range(blocks) \subseteq Data
    /\ \A entries \in {pending} \cup Range(manifest) :
          entries \in Seq(Entry) /\ \A i \in DOMAIN entries :
             entries[i].was \in Data => entries[i].was \in DOMAIN blocks
    /\ disk \subseteq DOMAIN manifest /\ Range(committed) \subseteq DOMAIN manifest
    /\ Cardinality(Range(committed)) = Len(committed)
    /\ pc \in [Lanes -> {"idle", "open", "captured"}]
    /\ call \in [Lanes -> ToolCalls \cup {<<>>}]
    /\ calls \in [Lanes -> 0..MaxCalls] /\ ok \in [Lanes -> BOOLEAN]
    /\ begun \in 0..MaxTx /\ restarts \in 0..MaxRestarts
    /\ faults \in 0..MaxFaults

\* Every capture of the file is a true copy: its original could be read and
\* stored, held no NUL byte, and its block was not torn.
TrueCopy(entries, p) ==
    \A i \in DOMAIN entries : entries[i].path = p =>
        LET was == entries[i].was IN
        was # Unread /\ was # Cut /\ (was \in DOMAIN blocks => blocks[was] = was)

\* A rollback returns every file captured once, in a true copy, to what it was
\* when it was captured and leaves an uncopied one alone, whatever the tools
\* and clients did meanwhile and whatever failed elsewhere; a file for which it
\* fails itself - which nobody is told - is as the tools left it, or torn.
Undone(l, p) == file'[p] = IF base[l][p] = Uncopied THEN file[p] ELSE base[l][p]
RollbackRestores ==
    [][\A l \in Lanes, failing \in SUBSET Tracked : RollbackBut(l, failing) =>
          \A p \in DOMAIN base[l] \ again[l] : TrueCopy(pending, p) =>
             Undone(l, p) \/ (p \in failing /\ file'[p] \in {file[p], Torn})]_vars

\* tx.h: "Rollback: restore captured originals".  The same of every captured
\* file, those written by several actions of the round included.
RollbackRestoresOriginals ==
    [][\A l \in Lanes : Rollback(l) =>
          \A p \in DOMAIN base[l] : Undone(l, p)]_vars

\* Whatever fails, a rollback changes no file but those its own transaction
\* captured: nothing an earlier one left behind is restored with them.
RollbackStaysInside ==
    [][\A l \in Lanes : Rollback(l) =>
          \A p \in Paths : file'[p] # file[p] => p \in DOMAIN base[l]]_vars

\* tx.h: "Commit: persist snapshot checkpoint; keep file changes".  Until a
\* tool writes the file again or a client restores it, no rollback of a
\* transaction takes back what another one committed.
CommitKeepsChanges == \A p \in DOMAIN kept : file[p] = kept[p]

\* A selective restore that succeeds brings back each file of which there is
\* a true copy as it was before the committed transaction, however often that
\* transaction wrote it and in whatever order a restart lists the manifests.
RestoreGivesOriginal ==
    [][\A id \in DOMAIN manifest, ps \in Selections :
          RestoreFiles(id, ps) => \A i \in DOMAIN ps :
             TrueCopy(manifest[id], ps[i]) => file'[ps[i]] = original[id][ps[i]]]_vars
=============================================================================
