------------------------------ MODULE Records ------------------------------
(***************************************************************************)
(* The long-term records a run learns and recalls: memory/runtime.c, the   *)
(* gate of memory/promotion.c, the store of memory/record.c with one       *)
(* Markdown file per record, its vector mirror, and the selection under a  *)
(* budget of context/mmu.c.                                                *)
(*                                                                         *)
(* Learning and recalling hold one lock and are one action each.  Only     *)
(* sessions learn; other scopes come from files a user has put there.  A   *)
(* file is overwritten in place: a write that fails, or that a crash cuts  *)
(* off, leaves the old file, one without a whole header (Torn, skipped     *)
(* when read) or one whose text ends early (Cut).  Ranking is arbitrary:   *)
(* scores are numbers of no importance here.                               *)
(*                                                                         *)
(* A text is a number.  The negative of it is the same text with its       *)
(* passwords blanked out, which is what the store keeps; a text of         *)
(* Passworded has a password in it that is known when it is stored.        *)
(***************************************************************************)
EXTENDS Integers, FiniteSets, Sequences, SequencesExt, TLC

CONSTANTS
    Sessions, Questions,
    Global,             \* the scope all may see
    Torn, Cut, None,
    Overview,           \* size of an overview (level L1)
    Budget, TopK,       \* of one recall
    Passworded,         \* texts with a known password
    MaxLearns, MaxFailures, MaxCrashes      \* bounds

\* What a task learned: where, and to which question.
Origins == Sessions \X Questions
Contents == 1 .. MaxLearns

\* derive_l2: a detail is shorter or longer than the overview of its record.
Detail(content) ==
    IF content = Cut THEN 1 ELSE 2 * (IF content < 0 THEN -content ELSE content) - 1

\* secret_redact_ssh_passwords
Redacted(content) == IF content \in Passworded THEN -content ELSE content

VARIABLES
    memory,     \* records in memory, a set
    files,      \* id |-> record or Torn
    mirror,     \* id |-> text indexed
    learns, failures, crashes,
    recalled,   \* ghost: the last answer of a recall, or None
    acked,      \* ghost: origin |-> content, acknowledged and not written since
    unindexed,  \* ghost: records whose last write failed
    succeeded   \* ghost: origins some run of which had no failed action

recordsVars == <<memory, files, mirror, learns, failures, crashes, recalled, acked,
                 unindexed, succeeded>>

\* Candidates are given the hash of their origin and first content as id.
Id(origin, content) == <<origin, content>>

Shared == [id |-> Id(<<Global, None>>, Cut), origin |-> <<Global, None>>, content |-> Cut,
           status |-> "TRUSTED", outcome |-> "UNKNOWN", version |-> 1]

\* status_live: a record in another status is out of use, and keeps its file.
Live(r) == r.status \in {"PROVISIONAL", "TRUSTED", "VERIFIED"}

Parsable == {id \in DOMAIN files : files[id] # Torn}

\* mem_records_rebuild_index, of what mem_records_new has read.
IndexOf(records) == [id \in {r.id : r \in {r \in records : Live(r)}} |->
                        (CHOOSE r \in records : r.id = id).content]

Init ==
    /\ files \in {[id \in {} |-> Torn], Shared.id :> Shared,
                  Shared.id :> [Shared EXCEPT !.status = "ARCHIVED"]}
    /\ memory = {files[id] : id \in DOMAIN files}
    /\ mirror = IndexOf(memory)
    /\ learns = 0 /\ failures = 0 /\ crashes = 0 /\ recalled = None
    /\ acked = [o \in Origins |-> None] /\ unindexed = {} /\ succeeded = {}

-----------------------------------------------------------------------------
\* mem_gate_apply

\* outcome_weight and mem_gate_score, in thousandths, of a candidate with the
\* confidence memory_runtime_learn gives it; it has evidence, so no cap applies.
Weight(outcome) == CASE outcome = "SUCCESS" -> 1000 [] outcome = "PARTIAL" -> 700 [] OTHER -> 400
Score(outcome) ==
    LET confidence == IF outcome = "SUCCESS" THEN 880 ELSE 680
    IN  (40 * 720 + 30 * confidence + 20 * Weight(outcome) + 10 * 700) \div 100
MergeBar == 350
PromoteBar == 550

Rank(outcome) ==
    CASE outcome = "SUCCESS" -> 3 [] outcome = "PARTIAL" -> 2 [] OTHER -> 1

Matured(status, outcome) ==
    IF status = "PROVISIONAL" THEN "TRUSTED"
    ELSE IF status = "TRUSTED" /\ Rank(outcome) >= 3 THEN "VERIFIED"
    ELSE status

\* The evidence class is adopted from a run that is as strong, the content
\* from every run.
Merged(r, content, outcome) ==
    [r EXCEPT !.version = @ + 1, !.content = content,
              !.status = Matured(@, outcome),
              !.outcome = IF Rank(outcome) >= Rank(@) THEN outcome ELSE @]

Promoted(origin, content, outcome) ==
    [id |-> Id(origin, content), origin |-> origin, content |-> content,
     status |-> "PROVISIONAL", outcome |-> outcome, version |-> 1]

\* Mutated form: a record is found by its id only.
SameContent(origin, content) == {r \in memory : r.id = Id(origin, content)}

\* mem_records_find_origin
Known(origin, content) == {r \in memory : r.origin = origin}

\* What falls short of its bar is rejected.
Accepted(origin, content, outcome) ==
    LET met == \E r \in Known(origin, content) : Live(r)
    IN  Score(outcome) >= IF met THEN MergeBar ELSE PromoteBar

\* The record as it is after the run.
Learned(origin, content, outcome) ==
    IF ~\E r \in Known(origin, content) : Live(r) THEN Promoted(origin, content, outcome)
    ELSE Merged(CHOOSE r \in Known(origin, content) : TRUE, content, outcome)

\* The copy mem_records_put stores.
Stored(new) == [new EXCEPT !.content = Redacted(@)]

\* What mem_gate_apply gives the mirror: a record it has merged is looked up
\* in the store, a new one is the candidate with the text it came with.
Indexed(new, stored) == IF new.version = 1 THEN new ELSE stored

\* What a write that does not end well leaves at the record's path.
Spoiled(r) == {(r.id :> Torn) @@ files, (r.id :> [r EXCEPT !.content = Cut]) @@ files}

\* refresh_mirror
Refreshed(r) ==
    [id \in (DOMAIN mirror \ {r.id}) \cup (IF Live(r) THEN {r.id} ELSE {}) |->
        IF id = r.id THEN r.content ELSE mirror[id]]

\* mem_records_put: memory changes first, then the file, and the mirror only
\* after a write that succeeded.
PutRecord(stored, indexed, origin, failed) ==
    /\ memory' = {r \in memory : r.id # stored.id} \cup {stored}
    /\ \/ /\ files' = (stored.id :> stored) @@ files
          /\ mirror' = Refreshed(indexed)
          /\ acked' = [acked EXCEPT ![origin] = stored.content]
          /\ unindexed' = unindexed \ {stored.id}
          /\ failures' = failed
       \/ /\ failed < MaxFailures /\ failures' = failed + 1
          /\ files' \in {files} \cup Spoiled(stored)
          /\ acked' = [acked EXCEPT ![origin] = None]
          /\ unindexed' = unindexed \cup {stored.id}
          /\ UNCHANGED mirror

\* memory_runtime_learn, for a run with a successful tool.  Without memory for
\* the redacted copy the text is stored as it came.
LearnTo(new, origin) ==
    \/ PutRecord(Stored(new), Indexed(new, Stored(new)), origin, failures)
    \/ /\ failures < MaxFailures /\ Stored(new) # new
       /\ PutRecord(new, new, origin, failures + 1)

Strengthened(origin, outcome) ==
    succeeded' = IF outcome = "SUCCESS" THEN succeeded \cup {origin} ELSE succeeded

Learn(origin, outcome) ==
    /\ learns < MaxLearns /\ learns' = learns + 1
    /\ Accepted(origin, learns', outcome)
    /\ LearnTo(Learned(origin, learns', outcome), origin)
    /\ Strengthened(origin, outcome)
    /\ recalled' = None
    /\ UNCHANGED crashes

\* memory_runtime_new: files that do not parse are skipped.
RestartWith(present) ==
    /\ files' = present
    /\ memory' = {present[id] : id \in {k \in DOMAIN present : present[k] # Torn}}
    /\ mirror' = IndexOf(memory')
    /\ unindexed' = {} /\ recalled' = None

Crash ==
    /\ crashes < MaxCrashes /\ crashes' = crashes + 1
    /\ RestartWith(files)
    /\ UNCHANGED <<learns, failures, acked, succeeded>>

\* The process dies within the write of a record.
CrashInWrite(origin, outcome) ==
    /\ crashes < MaxCrashes /\ crashes' = crashes + 1
    /\ learns < MaxLearns /\ learns' = learns + 1
    /\ Accepted(origin, learns', outcome)
    /\ \E present \in Spoiled(Stored(Learned(origin, learns', outcome))) :
          RestartWith(present)
    /\ acked' = [acked EXCEPT ![origin] = None]
    /\ Strengthened(origin, outcome)
    /\ UNCHANGED failures

-----------------------------------------------------------------------------
\* ctx_mmu_recall, with the fresh page table memory_runtime_recall_ex gives it

\* scope_allowed
Allowed(scope, session, shared) == scope = session \/ (shared /\ scope = Global)

\* sync_pages, page_get: a page for every live record, not resident.
Pages == [at |-> [r \in {r \in memory : Live(r)} |-> "COLD"], used |-> 0]

\* materialize: the size of a record's text as a resident page shows it.
Size(r, residency) == IF residency = "HOT" THEN Detail(r.content) ELSE Overview

\* page_tokens
Charge(table, r) == IF table.at[r] = "COLD" THEN 0 ELSE Size(r, table.at[r])

Moved(table, r, to) ==
    LET moved == [table EXCEPT !.at[r] = to]
    IN  [moved EXCEPT !.used = @ - Charge(table, r) + Charge(moved, r)]

\* evict_to_budget: resident pages go, the worst first, until the rest fits.
Evicted(table, ranking) ==
    FoldRight(LAMBDA r, left : IF left.used <= Budget \/ left.at[r] = "COLD" THEN left
                               ELSE Moved(left, r, "COLD"), ranking, table)

\* A detail replaces the overview, if the budget then still holds.
DetailFits(table, r) == Moved(table, r, "HOT").used <= Budget

\* Stage 2: overviews, best first, of what still fits.
Warmed(table, r) ==
    IF table.used + Size(r, "WARM") > Budget THEN table ELSE Moved(table, r, "WARM")

\* Stage 3: details for the best of them.
Resident(table, residency) == {r \in DOMAIN table.at : table.at[r] = residency}
Heated(table, r) ==
    IF \/ table.at[r] # "WARM" \/ Cardinality(Resident(table, "HOT")) >= TopK
       \/ ~DetailFits(table, r)
    THEN table ELSE Moved(table, r, "HOT")

\* Stage 4: what is resident is told, with its text.
Told(table) == [warm |-> Resident(table, "WARM"), hot |-> Resident(table, "HOT"),
                used |-> table.used]

Selected(ranking) ==
    LET warm == Evicted(FoldLeft(Warmed, Pages, ranking), ranking)
    IN  Told(Evicted(FoldLeft(Heated, warm, ranking), ranking))

\* Stage 1: the pages the scope allows, in any order their scores may give.
Rankings(session, shared) ==
    SetToAllKPermutations({r \in DOMAIN Pages.at : Allowed(r.origin[1], session, shared)})

Recall(session, shared) ==
    /\ \E ranking \in Rankings(session, shared) :
          recalled' = [session |-> session, shared |-> shared, shown |-> Selected(ranking)]
    /\ UNCHANGED <<memory, files, mirror, learns, failures, crashes, acked, unindexed, succeeded>>

Next ==
    \/ \E o \in Origins, outcome \in {"SUCCESS", "PARTIAL"} :
          Learn(o, outcome) \/ CrashInWrite(o, outcome)
    \/ Crash
    \/ \E s \in Sessions, shared \in BOOLEAN : Recall(s, shared)

Spec == Init /\ [][Next]_recordsVars
-----------------------------------------------------------------------------
\* "reinforces it instead of creating a duplicate": one record for each
\* origin, in memory and among the files a restart would read.
OneRecordPerOrigin ==
    /\ \A r, s \in memory : r.origin = s.origin => r = s
    /\ \A i, j \in Parsable : files[i].origin = files[j].origin => i = j

\* What learning acknowledged is found, in memory and after a restart, until
\* a later run of the same origin overwrites it.
LearnedIsKept ==
    \A o \in Origins : acked[o] # None =>
        \E r \in memory : r.origin = o /\ r.content = acked[o]
                          /\ r.id \in DOMAIN files /\ files[r.id] = r

\* The mirror indexes the records in use, by their present text where the last
\* write of the record succeeded; that of a record nobody has confirmed since
\* its promotion may be the text before its passwords were blanked out.
MirrorFollows ==
    /\ DOMAIN mirror \subseteq {r.id : r \in {r \in memory : Live(r)}}
    /\ \A r \in memory : Live(r) /\ r.id \notin unindexed =>
          /\ r.id \in DOMAIN mirror
          /\ \/ mirror[r.id] = r.content
             \/ r.version = 1 /\ Redacted(mirror[r.id]) = r.content

\* A verified record was confirmed twice, and once by a run without a failure.
VerifiedIsEarned ==
    \A r \in memory : r.status = "VERIFIED" =>
        r.version >= 3 /\ r.outcome = "SUCCESS" /\ r.origin \in succeeded

\* An answer shows what its session may see, as it is now, in at most the
\* budget; the charge is that of what is shown.
RecallFits ==
    recalled # None =>
        LET pages == recalled.shown.warm \cup recalled.shown.hot
            size == FoldLeft(LAMBDA n, r : n + Detail(r.content),
                             Overview * Cardinality(recalled.shown.warm),
                             SetToSeq(recalled.shown.hot))
        IN  /\ recalled.shown.warm \cap recalled.shown.hot = {}
            /\ size = recalled.shown.used /\ size <= Budget
            /\ Cardinality(recalled.shown.hot) <= TopK
            /\ pages \subseteq memory
            /\ \A r \in pages : Live(r) /\ r.origin[1] \in {recalled.session} \cup
                                    (IF recalled.shared THEN {Global} ELSE {})

RecordsSafe ==
    OneRecordPerOrigin /\ LearnedIsKept /\ MirrorFollows /\ VerifiedIsEarned /\ RecallFits
=============================================================================
