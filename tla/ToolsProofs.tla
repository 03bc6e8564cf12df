---------------------------- MODULE ToolsProofs ----------------------------
(***************************************************************************)
(* What a rollback and a selective restore put back, for any files, tool   *)
(* calls and failures.  The lanes share one pending list, so most of it    *)
(* holds for a store that one lane uses (Alone); what holds for many lanes *)
(* is RollbackStaysAmongOpen.                                              *)
(*                                                                         *)
(* What the bus delivers and what a shell command's result says, with the  *)
(* other parts of a tool call beside them.                                 *)
(***************************************************************************)
EXTENDS MCTools, FiniteSetTheorems, WellFoundedInduction, TLAPS

Alone == \A l, m \in Lanes : l = m

\* What snapshot_capture may record of a file that is in state v.
RecordedOf(v) == IF v \in {Absent, Uncopied} THEN {v} ELSE {AsText(v), Unread}

Bases == UNION {[S -> Files] : S \in SUBSET Paths}

Types ==
    /\ file \in [Paths -> Files]
    /\ DOMAIN blocks \subseteq Data /\ \A h \in DOMAIN blocks : blocks[h] \in Data
    /\ pending \in Seq(Entry) /\ manifest \in Seq(Seq(Entry))
    /\ original \in Seq(Bases) /\ Len(original) = Len(manifest)
    /\ pc \in [Lanes -> {"idle", "open", "captured"}]
    /\ base \in [Lanes -> Bases] /\ DOMAIN again = Lanes

\* The block of every recorded content is in the store.
Stored(entries) ==
    \A i \in DOMAIN entries : entries[i].was \in Data => entries[i].was \in DOMAIN blocks
AllStored == Stored(pending) /\ \A id \in DOMAIN manifest : Stored(manifest[id])

\* What is pending was captured by transactions that are still open.
Owned == \A p \in PathsOf(pending) : \E l \in Lanes : pc[l] # "idle" /\ p \in DOMAIN base[l]

\* The first entry of a path recorded the state b says it was in.
IsFirst(entries, i) == \A j \in 1..(i - 1) : entries[j].path # entries[i].path
FirstsTrue(entries, b) ==
    \A i \in DOMAIN entries :
        /\ entries[i].path \in DOMAIN b
        /\ IsFirst(entries, i) => entries[i].was \in RecordedOf(b[entries[i].path])

\* So did every entry of a path that was captured by one call only.
OnceTrue(entries, b, repeated) ==
    \A i \in DOMAIN entries :
        entries[i].path \notin repeated => entries[i].was \in RecordedOf(b[entries[i].path])

\* The pending list is that of the one open transaction.
Pending ==
    \A l \in Lanes :
        IF pc[l] = "idle" THEN pending = <<>>
        ELSE /\ DOMAIN base[l] \subseteq PathsOf(pending)
             /\ FirstsTrue(pending, base[l]) /\ OnceTrue(pending, base[l], again[l])

Manifests == \A id \in DOMAIN manifest : FirstsTrue(manifest[id], original[id])

IInv == Types /\ AllStored /\ Owned /\ (Alone => Pending /\ Manifests)

-----------------------------------------------------------------------------
\* Lemmas about the operators

LEMMA LeastExists ==
    ASSUME NEW S, S \subseteq Nat, S # {}
    PROVE  Min(S) \in S /\ \A i \in S : Min(S) <= i
<1>1. PICK m \in S : \A k \in S : <<k, m>> \notin OpToRel(<, Nat)
  BY WFMin, NatLessThanWellFounded, Zenon
<1>2. \A k \in S : ~(k < m)
  BY <1>1, Zenon DEF OpToRel
<1>3. \A k \in S : m <= k
  BY <1>2
<1> QED BY <1>3, Zenon DEF Min

LEMMA GreatestExists ==
    ASSUME NEW n \in Nat, NEW S, S \subseteq 1..n, S # {}
    PROVE  Max(S) \in S /\ \A i \in S : Max(S) >= i
<1> DEFINE T == {n - i : i \in S}
<1>0. \A i \in S : i \in 1..n
  OBVIOUS
<1>1. T \subseteq Nat /\ T # {}
  <2>1. \A i \in S : n - i \in Nat
    BY <1>0
  <2> QED BY <2>1
<1> HIDE DEF T
<1>2. Min(T) \in T /\ \A i \in T : Min(T) <= i
  BY <1>1, LeastExists, Zenon
<1>3. PICK m \in S : n - m = Min(T)
  BY <1>2 DEF T
<1>4. \A k \in S : n - m <= n - k
  BY <1>2, <1>3 DEF T
<1>5. \A k \in S : m >= k
  BY <1>0, <1>4
<1> QED BY <1>5, Zenon DEF Max

\* A true copy brings back what it was made from.
LEMMA BackGives ==
    ASSUME DOMAIN blocks \subseteq Data, NEW v \in Files, NEW was \in RecordedOf(v),
           was \notin {Uncopied, Unread, Cut},
           was \in Data => was \in DOMAIN blocks,
           was \in DOMAIN blocks => blocks[was] = was
    PROVE  Back(was) = v
<1> USE TxAssumption
<1>1. CASE v \in {Absent, Uncopied}
  <2>1. was = Absent /\ v = Absent
    BY <1>1 DEF RecordedOf
  <2>2. Absent \notin Data
    BY DEF Data
  <2> QED BY <2>1, <2>2 DEF Back
<1>2. CASE v \notin {Absent, Uncopied}
  <2>1. was = v /\ v \in Data
    BY <1>2 DEF RecordedOf, AsText, Files
  <2> QED BY <2>1 DEF Back
<1> QED BY <1>1, <1>2

LEMMA BackInFiles ==
    ASSUME Types, NEW was PROVE Back(was) \in Files
BY DEF Types, Back, Files

LEMMA RestoredInFiles ==
    ASSUME NEW entries, NEW failing, NEW new \in Restored(entries, failing)
    PROVE  new \in [Paths -> Files]
BY DEF Restored

\* cow_put loses no block.
LEMMA BlocksGrow ==
    ASSUME Types, NEW was, NEW spoiled \in SUBSET Data
    PROVE  /\ DOMAIN WithBlocks(was, spoiled) = DOMAIN blocks \cup (was \cap Data) \cup spoiled
           /\ \A h \in DOMAIN WithBlocks(was, spoiled) : WithBlocks(was, spoiled)[h] \in Data
           /\ DOMAIN WithBlocks(was, spoiled) \subseteq Data
BY DEF Types, WithBlocks, Data

-----------------------------------------------------------------------------
LEMMA IInvInit == Init => IInv
<1> SUFFICES ASSUME Init PROVE IInv
  OBVIOUS
<1>1. /\ file \in [Paths -> Files] /\ blocks = Nothing /\ pending = <<>> /\ manifest = <<>>
      /\ original = <<>> /\ pc = [l \in Lanes |-> "idle"]
      /\ base = [l \in Lanes |-> Nothing] /\ again = [l \in Lanes |-> {}]
  BY DEF Init, Files, Data
<1>2. DOMAIN Nothing = {} /\ Nothing \in Bases
  <2>1. Nothing \in [{} -> Files] /\ {} \in SUBSET Paths
    BY DEF Nothing
  <2> QED BY <2>1 DEF Bases, Nothing
<1>3. Types
  BY <1>1, <1>2 DEF Types
<1>4. AllStored /\ Owned /\ Pending /\ Manifests
  BY <1>1 DEF AllStored, Stored, Owned, Pending, Manifests, PathsOf
<1> QED BY <1>3, <1>4 DEF IInv

\* Steps that leave the snapshot store and the ghosts of captures alone.
LEMMA AsideStep ==
    ASSUME IInv, UNCHANGED <<blocks, pending, manifest, original, base, again>>,
           file' \in [Paths -> Files],
           pc' \in [Lanes -> {"idle", "open", "captured"}],
           \A l \in Lanes : pc'[l] = "idle" <=> pc[l] = "idle"
    PROVE  IInv'
<1>1. Types'
  BY DEF IInv, Types
<1>2. AllStored' /\ Owned' /\ Manifests' = Manifests
  BY DEF IInv, AllStored, Stored, Owned, PathsOf, Manifests, FirstsTrue, IsFirst, RecordedOf, AsText
<1>3. ASSUME Pending PROVE Pending'
  <2> SUFFICES ASSUME NEW l \in Lanes
               PROVE  IF pc'[l] = "idle" THEN pending' = <<>>
                      ELSE /\ DOMAIN base'[l] \subseteq PathsOf(pending')
                           /\ FirstsTrue(pending', base'[l])
                           /\ OnceTrue(pending', base'[l], again'[l])
    BY Zenon DEF Pending, PathsOf, FirstsTrue, OnceTrue, IsFirst, RecordedOf, AsText
  <2>1. pending' = pending /\ base' = base /\ again' = again
    OBVIOUS
  <2> QED BY <1>3, <2>1 DEF Pending
<1> QED BY <1>1, <1>2, <1>3 DEF IInv
LEMMA AppendKeeps ==
    ASSUME NEW S, NEW s \in Seq(S), NEW e \in S
    PROVE  /\ Append(s, e) \in Seq(S) /\ Len(Append(s, e)) = Len(s) + 1
           /\ DOMAIN Append(s, e) = 1..(Len(s) + 1)
           /\ \A i \in 1..Len(s) : Append(s, e)[i] = s[i]
           /\ Append(s, e)[Len(s) + 1] = e
OBVIOUS

LEMMA EmptyKnown ==
    /\ Stored(<<>>) /\ PathsOf(<<>>) = {}
    /\ \A b, r : FirstsTrue(<<>>, b) /\ OnceTrue(<<>>, b, r)
BY DEF Stored, PathsOf, FirstsTrue, OnceTrue

LEMMA BeginStep == ASSUME IInv, NEW l \in Lanes, Begin(l) PROVE IInv'
<1>1. /\ pc[l] = "idle" /\ pc' = [pc EXCEPT ![l] = "open"]
      /\ base' = [base EXCEPT ![l] = Nothing] /\ again' = [again EXCEPT ![l] = {}]
      /\ UNCHANGED <<file, blocks, pending, manifest, original>>
  BY DEF Begin, Goto, storeVars
<1>2. DOMAIN Nothing = {} /\ Nothing \in Bases
  <2>1. Nothing \in [{} -> Files] /\ {} \in SUBSET Paths
    BY DEF Nothing
  <2> QED BY <2>1 DEF Bases, Nothing
<1>3. Types'
  BY <1>1, <1>2 DEF IInv, Types
<1>4. AllStored' /\ (Manifests => Manifests')
  BY <1>1, ZenonT(60) DEF IInv, AllStored, Stored, Manifests, FirstsTrue, IsFirst, RecordedOf, AsText
<1>5. Owned'
  <2>1. \A m \in Lanes \ {l} : pc'[m] = pc[m] /\ base'[m] = base[m]
    BY <1>1 DEF IInv, Types
  <2>2. PathsOf(pending)' = PathsOf(pending)
    BY <1>1 DEF PathsOf
  <2> QED BY <1>1, <2>1, <2>2 DEF IInv, Owned
<1>6. ASSUME Alone, Pending PROVE Pending'
  <2>1. pending = <<>> /\ \A m \in Lanes : m = l
    BY <1>1, <1>6 DEF Pending, Alone
  <2>2. pc'[l] = "open" /\ base'[l] = Nothing
    BY <1>1 DEF IInv, Types
  <2>3. pending' = <<>>
    BY <1>1, <2>1
  <2> QED BY <1>2, <2>1, <2>2, <2>3, EmptyKnown DEF Pending
<1> QED BY <1>3, <1>4, <1>5, <1>6 DEF IInv

\* A list that is empty again: after a commit, a rollback and a restart.
LEMMA EmptiedStep ==
    ASSUME IInv, Types', AllStored', pending' = <<>>,
           \A l \in Lanes : pc'[l] = "idle" \/ ~Alone,
           Alone /\ Manifests => Manifests'
    PROVE  IInv'
<1>1. Owned'
  BY EmptyKnown DEF Owned
<1>2. Alone => Pending'
  BY DEF Pending
<1> QED BY <1>1, <1>2 DEF IInv

LEMMA RollbackStep == ASSUME IInv, NEW l \in Lanes, Rollback(l) PROVE IInv'
<1>0. PICK failing \in SUBSET Tracked : RollbackBut(l, failing)
  BY DEF Rollback
<1>1. /\ pending' = <<>> /\ pc' = [pc EXCEPT ![l] = "idle"]
      /\ file' \in Restored(pending, failing)
      /\ UNCHANGED <<blocks, manifest, original, base, again>>
  BY <1>0 DEF RollbackBut, Goto, ghostVars
<1>2. file' \in [Paths -> Files]
  BY <1>1, RestoredInFiles DEF IInv
<1>3. Types'
  BY <1>1, <1>2 DEF IInv, Types
<1>4. AllStored'
  BY <1>1, EmptyKnown DEF IInv, AllStored, Stored
<1>6. Manifests => Manifests'
  BY <1>1 DEF Manifests, FirstsTrue, IsFirst, RecordedOf, AsText
<1>5. \A m \in Lanes : pc'[m] = "idle" \/ ~Alone
  BY <1>1 DEF IInv, Types, Alone
<1> QED BY <1>1, <1>3, <1>4, <1>5, <1>6, EmptiedStep

LEMMA RestartStep == ASSUME IInv, Restart PROVE IInv'
<1>1. /\ pending' = <<>> /\ pc' = [l \in Lanes |-> "idle"]
      /\ UNCHANGED <<file, manifest, original, base, again>>
  BY DEF Restart, ghostVars
<1>2. /\ DOMAIN blocks \subseteq DOMAIN blocks' /\ DOMAIN blocks' \subseteq Data
      /\ \A h \in DOMAIN blocks' : blocks'[h] \in Data
  <2>1. CASE UNCHANGED blocks
    BY <2>1 DEF IInv, Types
  <2>2. CASE ~UNCHANGED blocks
    <3>1. PICK p \in Tracked :
             /\ AsText(file[p]) \in Data
             /\ blocks' = [h \in DOMAIN blocks \cup {AsText(file[p])} |->
                             IF h \in DOMAIN blocks THEN blocks[h] ELSE Torn]
      BY <2>2 DEF Restart
    <3>2. Torn \in Data
      BY DEF Data
    <3> HIDE DEF AsText
    <3> QED BY <3>1, <3>2 DEF IInv, Types
  <2> QED BY <2>1, <2>2
<1>3. Types'
  BY <1>1, <1>2 DEF IInv, Types
<1>4. AllStored'
  BY <1>1, <1>2, EmptyKnown DEF IInv, AllStored, Stored
<1>5. Manifests => Manifests'
  BY <1>1 DEF Manifests, FirstsTrue, IsFirst, RecordedOf, AsText
<1> QED BY <1>1, <1>3, <1>4, <1>5, EmptiedStep

LEMMA CommitStep == ASSUME IInv, NEW l \in Lanes, Commit(l) PROVE IInv'
<1>1. /\ pc[l] = "open" /\ pc' = [pc EXCEPT ![l] = "idle"]
      /\ UNCHANGED <<file, blocks, base, again>>
      /\ IF pending = <<>> THEN UNCHANGED <<pending, manifest, original>>
         ELSE /\ manifest' = Append(manifest, pending)
              /\ original' = Append(original, base[l])
              /\ pending' = <<>>
  BY DEF Commit, Goto, storeVars
<1>2. pending' = <<>> /\ \A m \in Lanes : pc'[m] = "idle" \/ ~Alone
  BY <1>1 DEF IInv, Types, Alone
<1>3. CASE pending = <<>>
  <2>1. Types'
    BY <1>1, <1>3 DEF IInv, Types
  <2>2. AllStored' /\ (Manifests => Manifests')
    BY <1>1, <1>3
       DEF IInv, AllStored, Stored, Manifests, FirstsTrue, IsFirst, RecordedOf, AsText
  <2> QED BY <1>2, <2>1, <2>2, EmptiedStep
<1>4. CASE pending # <<>>
  <2>1. /\ manifest \in Seq(Seq(Entry)) /\ pending \in Seq(Entry)
        /\ original \in Seq(Bases) /\ base[l] \in Bases /\ Len(original) = Len(manifest)
    BY DEF IInv, Types
  <2>2. /\ manifest' \in Seq(Seq(Entry)) /\ original' \in Seq(Bases)
        /\ Len(original') = Len(manifest')
        /\ DOMAIN manifest' = 1..(Len(manifest) + 1)
        /\ \A id \in 1..Len(manifest) :
              id \in DOMAIN manifest /\ manifest'[id] = manifest[id] /\ original'[id] = original[id]
        /\ manifest'[Len(manifest) + 1] = pending /\ original'[Len(manifest) + 1] = base[l]
    <3>1. manifest' = Append(manifest, pending) /\ original' = Append(original, base[l])
      BY <1>1, <1>4
    <3>2. \A id \in 1..Len(manifest) : id \in DOMAIN manifest
      BY <2>1
    <3> QED BY <2>1, <3>1, <3>2, AppendKeeps
  <2>3. Types'
    BY <1>1, <1>2, <2>2 DEF IInv, Types
  <2>4. \A id \in DOMAIN manifest' : id \in 1..Len(manifest) \/ id = Len(manifest) + 1
    BY <2>1, <2>2
  <2>5. \A entries : Stored(entries)' <=> Stored(entries)
    BY <1>1 DEF Stored
  <2>6. AllStored'
    BY <1>2, <2>2, <2>4, <2>5, EmptyKnown DEF IInv, AllStored, Stored
  <2>7. ASSUME Alone, Manifests PROVE Manifests'
    <3>1. FirstsTrue(pending, base[l])
      BY <1>1, <2>7 DEF IInv, Pending
    <3> SUFFICES ASSUME NEW id \in DOMAIN manifest' PROVE FirstsTrue(manifest'[id], original'[id])
      BY DEF Manifests, FirstsTrue, IsFirst, RecordedOf, AsText
    <3>2. CASE id \in 1..Len(manifest)
      BY <2>2, <2>7, <3>2 DEF Manifests
    <3>3. CASE id = Len(manifest) + 1
      BY <2>2, <3>1, <3>3
    <3> QED BY <2>4, <3>2, <3>3
  <2> QED BY <1>2, <2>3, <2>6, <2>7, EmptiedStep
<1> QED BY <1>3, <1>4
LEMMA ConcatKeeps ==
    ASSUME NEW S, NEW s \in Seq(S), NEW t \in Seq(S)
    PROVE  /\ s \o t \in Seq(S) /\ DOMAIN (s \o t) = 1..(Len(s) + Len(t))
           /\ \A i \in 1..Len(s) : i \in DOMAIN s /\ (s \o t)[i] = s[i]
           /\ \A i \in 1..(Len(s) + Len(t)) : i \notin 1..Len(s) =>
                 i - Len(s) \in DOMAIN t /\ (s \o t)[i] = t[i - Len(s)]
           /\ \A i \in DOMAIN t : Len(s) + i \in DOMAIN (s \o t)
                                  /\ (s \o t)[Len(s) + i] = t[i]
OBVIOUS

\* What a capture records, and of which files.
LEMMA CaptureRecords ==
    ASSUME IInv, NEW l \in Lanes, NEW T \in Seq(Paths), Capture(l, T)
    PROVE  \E new \in Seq(Entry), R \in SUBSET Paths :
              /\ pending' = pending \o new /\ PathsOf(new) = R
              /\ \A i \in DOMAIN new : new[i].was \in RecordedOf(file[new[i].path])
              /\ DOMAIN blocks \subseteq DOMAIN blocks' /\ DOMAIN blocks' \subseteq Data
              /\ \A h \in DOMAIN blocks' : blocks'[h] \in Data
              /\ \A i \in DOMAIN new : new[i].was \in Data => new[i].was \in DOMAIN blocks'
              /\ base' = [base EXCEPT ![l] = [p \in DOMAIN @ \cup R |->
                            IF p \in DOMAIN @ THEN @[p] ELSE file[p]]]
              /\ again' = [again EXCEPT ![l] = @ \cup (DOMAIN base[l] \cap R)]
<1>1. PICK spots \in TrackedAt(T) :
         LET ps == [m \in DOMAIN spots |-> T[spots[m]]] IN
         /\ \E was \in [DOMAIN ps -> Data \cup {Absent, Uncopied, Unread}] :
               /\ \A i \in DOMAIN ps : was[i] \in Recordable(ps[i])
               /\ FaultIf(Unread \in Range(was))
               /\ pending' = pending \o
                     [i \in DOMAIN ps |-> [path |-> ps[i], was |-> was[i]]]
               /\ \E spoiled \in SUBSET Spoilable(ps, was) :
                     blocks' = WithBlocks(Range(was), spoiled)
         /\ base' = [base EXCEPT ![l] = [p \in DOMAIN @ \cup Range(ps) |->
                        IF p \in DOMAIN @ THEN @[p] ELSE file[p]]]
         /\ again' = [again EXCEPT ![l] = @ \cup (DOMAIN base[l] \cap Range(ps))]
  BY DEF Capture
<1> DEFINE ps == [m \in DOMAIN spots |-> T[spots[m]]]
           places == {i \in DOMAIN T : T[i] \in Tracked}
           n == Cardinality(places)
<1>2. PICK was \in [DOMAIN ps -> Data \cup {Absent, Uncopied, Unread}] :
         /\ \A i \in DOMAIN ps : was[i] \in Recordable(ps[i])
         /\ pending' = pending \o [i \in DOMAIN ps |-> [path |-> ps[i], was |-> was[i]]]
         /\ \E spoiled \in SUBSET Spoilable(ps, was) :
               blocks' = WithBlocks(Range(was), spoiled)
  BY <1>1
<1>3. n \in Nat
  <2>1. IsFiniteSet(1..Len(T)) /\ places \subseteq 1..Len(T)
    BY FS_Interval
  <2> QED BY <2>1, FS_Subset, FS_CardinalityType
<1>4. spots \in [1..n -> places]
  BY DEF TrackedAt
<1> HIDE DEF n
<1>5. DOMAIN ps = 1..n /\ \A i \in 1..n : ps[i] \in Tracked
  BY <1>4
<1> HIDE DEF ps
<1> DEFINE new == [i \in 1..n |-> [path |-> ps[i], was |-> was[i]]]
<1>6. new \in Seq(Entry) /\ DOMAIN new = 1..n
  <2>1. \A i \in 1..n : [path |-> ps[i], was |-> was[i]] \in Entry
    BY <1>2, <1>5 DEF Entry
  <2>2. new \in [1..n -> Entry]
    BY <2>1
  <2> QED BY <1>3, <2>2
<1>7. \A i \in 1..n : new[i].path = ps[i] /\ new[i].was = was[i]
  OBVIOUS
<1>8. pending' = pending \o new
  BY <1>2, <1>5
<1> HIDE DEF new
<1>9. PathsOf(new) = Range(ps) /\ Range(ps) \in SUBSET Paths
  <2>1. PathsOf(new) = {ps[i] : i \in 1..n}
    BY <1>6, <1>7 DEF PathsOf
  <2>2. Range(ps) = {ps[i] : i \in 1..n}
    BY <1>5 DEF Range
  <2> QED BY <1>5, <2>1, <2>2, TxAssumption
<1>10. \A i \in 1..n : new[i].was \in RecordedOf(file[new[i].path])
  BY <1>2, <1>5, <1>7 DEF Recordable, RecordedOf
<1>11. /\ DOMAIN blocks \subseteq DOMAIN blocks' /\ DOMAIN blocks' \subseteq Data
       /\ \A h \in DOMAIN blocks' : blocks'[h] \in Data
       /\ \A i \in 1..n : new[i].was \in Data => new[i].was \in DOMAIN blocks'
  <2>0. PICK spoiled \in SUBSET Data : blocks' = WithBlocks(Range(was), spoiled)
    BY <1>2 DEF Spoilable
  <2>1. /\ DOMAIN blocks' = DOMAIN blocks \cup (Range(was) \cap Data) \cup spoiled
        /\ \A h \in DOMAIN blocks' : blocks'[h] \in Data
        /\ DOMAIN blocks' \subseteq Data
    BY <2>0, BlocksGrow DEF IInv
  <2>2. \A i \in 1..n : was[i] \in Range(was)
    BY <1>2, <1>5 DEF Range
  <2> QED BY <1>2, <1>7, <2>1, <2>2
<1>12. /\ base' = [base EXCEPT ![l] = [p \in DOMAIN @ \cup Range(ps) |->
                      IF p \in DOMAIN @ THEN @[p] ELSE file[p]]]
       /\ again' = [again EXCEPT ![l] = @ \cup (DOMAIN base[l] \cap Range(ps))]
  BY <1>1 DEF ps
<1> QED BY <1>6, <1>8, <1>9, <1>10, <1>11, <1>12

LEMMA CaptureStep ==
    ASSUME IInv, NEW l \in Lanes, NEW T \in Seq(Paths), Capture(l, T) PROVE IInv'
<1>1. PICK new \in Seq(Entry), R \in SUBSET Paths :
         /\ pending' = pending \o new /\ PathsOf(new) = R
         /\ \A i \in DOMAIN new : new[i].was \in RecordedOf(file[new[i].path])
         /\ DOMAIN blocks \subseteq DOMAIN blocks' /\ DOMAIN blocks' \subseteq Data
         /\ \A h \in DOMAIN blocks' : blocks'[h] \in Data
         /\ \A i \in DOMAIN new : new[i].was \in Data => new[i].was \in DOMAIN blocks'
         /\ base' = [base EXCEPT ![l] = [p \in DOMAIN @ \cup R |->
                       IF p \in DOMAIN @ THEN @[p] ELSE file[p]]]
         /\ again' = [again EXCEPT ![l] = @ \cup (DOMAIN base[l] \cap R)]
  BY CaptureRecords
<1>2. /\ pc[l] = "open" /\ pc' = [pc EXCEPT ![l] = "captured"]
      /\ UNCHANGED <<file, manifest, original>>
  BY DEF Capture, Goto
<1>3. /\ pending \in Seq(Entry) /\ file \in [Paths -> Files] /\ pc \in [Lanes -> {"idle", "open", "captured"}]
      /\ base \in [Lanes -> Bases] /\ DOMAIN again = Lanes
  BY DEF IInv, Types
<1> DEFINE L == Len(pending)  D == DOMAIN base[l]
<1>4. /\ pending' \in Seq(Entry) /\ DOMAIN pending' = 1..(L + Len(new)) /\ L \in Nat
      /\ \A i \in 1..L : i \in DOMAIN pending /\ pending'[i] = pending[i]
      /\ \A i \in 1..(L + Len(new)) : i \notin 1..L =>
            i - L \in DOMAIN new /\ pending'[i] = new[i - L]
      /\ \A i \in DOMAIN new : L + i \in DOMAIN pending' /\ pending'[L + i] = new[i]
  BY <1>1, <1>3, ConcatKeeps
<1>5. /\ DOMAIN base'[l] = D \cup R
      /\ \A p \in D : base'[l][p] = base[l][p]
      /\ \A p \in R \ D : base'[l][p] = file[p]
      /\ \A m \in Lanes \ {l} : base'[m] = base[m] /\ pc'[m] = pc[m]
      /\ again'[l] = again[l] \cup (D \cap R) /\ pc'[l] = "captured"
  BY <1>1, <1>2, <1>3
<1>6. base' \in [Lanes -> Bases] /\ DOMAIN again' = Lanes
  <2>1. PICK S \in SUBSET Paths : base[l] \in [S -> Files]
    BY <1>3 DEF Bases
  <2>2. [p \in D \cup R |-> IF p \in D THEN base[l][p] ELSE file[p]] \in [S \cup R -> Files]
    BY <1>3, <2>1
  <2>3. [p \in D \cup R |-> IF p \in D THEN base[l][p] ELSE file[p]] \in Bases
    BY <2>1, <2>2 DEF Bases
  <2> QED BY <1>1, <1>3, <2>3
<1>7. Types'
  BY <1>1, <1>2, <1>4, <1>6 DEF IInv, Types
<1>8. PathsOf(pending') = PathsOf(pending) \cup R
  <2>1. \A i \in DOMAIN pending : i \in 1..L /\ i \in DOMAIN pending'
    BY <1>3, <1>4
  <2>2. ASSUME NEW p \in PathsOf(pending) PROVE p \in PathsOf(pending')
    BY <1>4, <2>1 DEF PathsOf
  <2>3. ASSUME NEW p \in R PROVE p \in PathsOf(pending')
    <3>1. PICK i \in DOMAIN new : p = new[i].path
      BY <1>1, <2>3 DEF PathsOf
    <3> QED BY <1>4, <3>1 DEF PathsOf
  <2>4. ASSUME NEW i \in DOMAIN pending' PROVE pending'[i].path \in PathsOf(pending) \cup R
    <3>1. CASE i \in 1..L
      BY <1>4, <3>1 DEF PathsOf
    <3>2. CASE i \notin 1..L
      BY <1>1, <1>4, <2>4, <3>2 DEF PathsOf
    <3> QED BY <3>1, <3>2
  <2>5. PathsOf(pending') \subseteq PathsOf(pending) \cup R
    BY <2>4 DEF PathsOf
  <2> QED BY <2>2, <2>3, <2>5
<1>9. AllStored'
  <2>1. Stored(pending)'
    BY <1>1, <1>4 DEF IInv, AllStored, Stored
  <2> QED BY <1>1, <1>2, <2>1 DEF IInv, AllStored, Stored
<1>10. Owned'
  BY <1>2, <1>5, <1>8 DEF IInv, Owned
<1>11. Manifests => Manifests'
  BY <1>2 DEF Manifests, FirstsTrue, IsFirst, RecordedOf, AsText
<1>12. ASSUME Alone, Pending PROVE Pending'
  <2>1. /\ D \subseteq PathsOf(pending)
        /\ FirstsTrue(pending, base[l]) /\ OnceTrue(pending, base[l], again[l])
    BY <1>2, <1>12 DEF Pending
  <2>2. DOMAIN base'[l] \subseteq PathsOf(pending')
    BY <1>5, <1>8, <2>1
  <2>3. ASSUME NEW i \in DOMAIN pending'
        PROVE  /\ pending'[i].path \in DOMAIN base'[l]
               /\ IsFirst(pending', i) \/ pending'[i].path \notin again'[l] =>
                     pending'[i].was \in RecordedOf(base'[l][pending'[i].path])
    <3>1. CASE i \in 1..L
      <4>1. i \in DOMAIN pending /\ pending'[i] = pending[i]
        BY <1>4, <3>1
      <4>2. ASSUME IsFirst(pending', i) PROVE IsFirst(pending, i)
        <5>1. \A j \in 1..(i - 1) : j \in 1..L
          BY <1>4, <3>1
        <5> QED BY <1>4, <4>1, <4>2, <5>1 DEF IsFirst
      <4> QED BY <1>5, <2>1, <4>1, <4>2 DEF FirstsTrue, OnceTrue
    <3>2. CASE i \notin 1..L
      <4>1. i - L \in DOMAIN new /\ pending'[i] = new[i - L]
        BY <1>4, <2>3, <3>2
      <4>2. pending'[i].path \in R /\ pending'[i].was \in RecordedOf(file[pending'[i].path])
        BY <1>1, <4>1 DEF PathsOf
      <4>3. IsFirst(pending', i) => pending'[i].path \notin PathsOf(pending)
        <5>1. \A j \in DOMAIN pending : j \in 1..L /\ j \in 1..(i - 1)
          BY <1>3, <1>4, <2>3, <3>2
        <5> QED BY <1>4, <5>1 DEF IsFirst, PathsOf
      <4>4. IsFirst(pending', i) \/ pending'[i].path \notin again'[l] => pending'[i].path \notin D
        BY <1>5, <2>1, <4>2, <4>3
      <4> QED BY <1>5, <4>2, <4>4
    <3> QED BY <3>1, <3>2
  <2>4. FirstsTrue(pending', base'[l]) /\ OnceTrue(pending', base'[l], again'[l])
    BY <2>3 DEF FirstsTrue, OnceTrue
  <2>5. \A m \in Lanes : m = l
    BY <1>12 DEF Alone
  <2> QED BY <1>5, <2>2, <2>4, <2>5
          DEF Pending, FirstsTrue, OnceTrue, IsFirst, RecordedOf, AsText, PathsOf
<1> QED BY <1>7, <1>9, <1>10, <1>11, <1>12 DEF IInv
\* Tools and clients change files; what was captured stays.
LEMMA FilesStep ==
    ASSUME IInv,
           \/ \E l \in Lanes : Execute(l) \/ Refuse(l)
           \/ RestoreLatest
           \/ \E id \in DOMAIN manifest, ps \in Selections :
                 RestoreFiles(id, ps) \/ RestoreFilesStops(id, ps)
    PROVE  IInv'
<1>1. Types
  BY DEF IInv
<1>2. CASE \E l \in Lanes : Execute(l)
  <2>1. PICK l \in Lanes : Execute(l)
    BY <1>2
  <2>2. file' \in [Paths -> Files]
    BY <1>1, <2>1 DEF Execute, Types, Files, Data
  <2>3. /\ pc[l] = "captured" /\ pc' = [pc EXCEPT ![l] = "open"]
        /\ UNCHANGED <<blocks, pending, manifest, original, base, again>>
    BY <2>1 DEF Execute, Goto, storeVars
  <2> QED BY <1>1, <2>2, <2>3, AsideStep DEF Types
<1>3. CASE \E l \in Lanes : Refuse(l)
  <2>1. UNCHANGED <<file, blocks, pending, manifest, original, base, again, pc>>
    BY <1>3 DEF Refuse, storeVars, ghostVars
  <2> QED BY <1>1, <2>1, AsideStep DEF Types
<1>4. CASE RestoreLatest
  <2>1. /\ \E failing : file' \in Restored(manifest[Last(committed)], failing)
        /\ UNCHANGED <<blocks, pending, manifest, original, base, again, pc>>
    BY <1>4 DEF RestoreLatest, storeVars, laneVars
  <2>2. file' \in [Paths -> Files]
    BY <1>1, <2>1, RestoredInFiles
  <2> QED BY <1>1, <2>1, <2>2, AsideStep DEF Types
<1>5. ASSUME NEW id, NEW ps, NEW torn, PutBack(id, ps, torn) PROVE IInv'
  <2>1. UNCHANGED <<blocks, pending, manifest, original, base, again, pc>>
    BY <1>5 DEF PutBack, storeVars, laneVars
  <2>2. file' \in [Paths -> Files]
    <3>1. file' = [p \in Paths |->
                     IF p \in torn THEN Torn
                     ELSE IF p \in Range(ps) THEN Back(EntryOf(manifest[id], p)) ELSE file[p]]
      BY <1>5 DEF PutBack
    <3>2. Torn \in Files
      BY DEF Files, Data
    <3> QED BY <1>1, <3>1, <3>2, BackInFiles DEF Types
  <2> QED BY <1>1, <2>1, <2>2, AsideStep DEF Types
<1> QED BY <1>2, <1>3, <1>4, <1>5 DEF RestoreFiles, RestoreFilesStops

LEMMA IInvStep == IInv /\ [Next]_vars => IInv'
<1> SUFFICES ASSUME IInv, [Next]_vars PROVE IInv'
  OBVIOUS
<1>1. CASE UNCHANGED vars
  <2>1. UNCHANGED <<file, blocks, pending, manifest, original, base, again, pc>>
    BY <1>1 DEF vars, storeVars, laneVars, ghostVars
  <2> QED BY <2>1, AsideStep DEF IInv, Types
<1>2. CASE Next
  <2>1. \A T \in ToolCalls : T \in Seq(Paths)
    BY TxAssumption
  <2> QED BY <1>2, <2>1, BeginStep, CaptureStep, CommitStep, RollbackStep, RestartStep, FilesStep
          DEF Next
<1> QED BY <1>1, <1>2

LEMMA TxInvariant == Spec => []IInv
BY IInvInit, IInvStep, PTL DEF Spec

-----------------------------------------------------------------------------
\* Only files with an entry in the list are touched by restore_entry.
LEMMA RestoredElsewhere ==
    ASSUME NEW entries, NEW failing, NEW new \in Restored(entries, failing),
           NEW p \in Paths, p \notin PathsOf(entries)
    PROVE  new[p] = file[p]
BY DEF Restored, Acted, PathsOf

StaysAmongOpen ==
    \A l \in Lanes : Rollback(l) =>
        \A p \in Paths : file'[p] # file[p] =>
            \E m \in Lanes : pc[m] # "idle" /\ p \in DOMAIN base[m]

\* snapshot_restore_pending, on however many lanes: a rollback changes no file
\* but those that the transactions open at that moment captured.
THEOREM RollbackStaysAmongOpen == Spec => [][StaysAmongOpen]_vars
<1>1. IInv => StaysAmongOpen
  BY RestoredElsewhere DEF IInv, Owned, StaysAmongOpen, Rollback, RollbackBut
<1>2. IInv /\ [Next]_vars => [StaysAmongOpen]_vars
  BY <1>1
<1> QED BY <1>2, TxInvariant, PTL DEF Spec

StaysInside ==
    \A l \in Lanes : Rollback(l) =>
        \A p \in Paths : file'[p] # file[p] => p \in DOMAIN base[l]

\* On one lane they are its own (tx_rollback): nothing an earlier transaction
\* left behind is restored with them, whatever failed in between.
THEOREM RollbackInside == ASSUME Alone PROVE Spec => RollbackStaysInside
<1>1. IInv => StaysInside
  BY RestoredElsewhere DEF IInv, Owned, StaysInside, Rollback, RollbackBut, Alone
<1>2. IInv /\ [Next]_vars => [StaysInside]_vars
  BY <1>1
<1>3. Spec => [][StaysInside]_vars
  BY <1>2, TxInvariant, PTL DEF Spec
<1> QED BY <1>3, PTL DEF RollbackStaysInside, StaysInside

RestoresOnce ==
    \A l \in Lanes, failing \in SUBSET Tracked : RollbackBut(l, failing) =>
        \A p \in DOMAIN base[l] \ again[l] : TrueCopy(pending, p) =>
            Undone(l, p) \/ (p \in failing /\ file'[p] \in {file[p], Torn})

LEMMA RestoresWhatItCaptured ==
    ASSUME IInv, Alone, NEW l \in Lanes, NEW failing \in SUBSET Tracked, RollbackBut(l, failing),
           NEW p \in DOMAIN base[l] \ again[l], TrueCopy(pending, p)
    PROVE  Undone(l, p) \/ (p \in failing /\ file'[p] \in {file[p], Torn})
<1>1. /\ Types /\ Stored(pending) /\ file' \in Restored(pending, failing)
      /\ OnceTrue(pending, base[l], again[l]) /\ p \in PathsOf(pending)
  BY DEF IInv, Pending, AllStored, RollbackBut
<1>2. p \in Paths /\ base[l][p] \in Files
  BY <1>1 DEF Types, Bases
<1> DEFINE mine == Acted(pending, p)
<1>3. \A i \in DOMAIN pending : pending[i].path = p => pending[i].was \in RecordedOf(base[l][p])
  BY <1>1 DEF OnceTrue
<1>4. IF mine = {} THEN file'[p] = file[p]
      ELSE IF p \in failing THEN file'[p] \in Outcomes(pending, p)
      ELSE file'[p] = Back(pending[Max(mine)].was)
  BY <1>1, <1>2 DEF Restored
<1>5. CASE base[l][p] = Uncopied
  <2>1. mine = {}
    BY <1>3, <1>5 DEF RecordedOf, Acted
  <2> QED BY <1>4, <1>5, <2>1 DEF Undone
<1>6. CASE base[l][p] # Uncopied
  <2>1. PICK i \in DOMAIN pending : pending[i].path = p
    BY <1>1 DEF PathsOf
  <2>2. pending[i].was # Uncopied
    <3>1. base[l][p] \in Data \cup {Absent} /\ Uncopied \notin Data \cup {Absent, Unread, Cut}
      BY <1>2, <1>6, TxAssumption DEF Files, Data
    <3> QED BY <1>3, <2>1, <3>1 DEF RecordedOf, AsText
  <2>3. mine \subseteq 1..Len(pending) /\ Len(pending) \in Nat /\ mine # {}
    BY <1>1, <2>1, <2>2 DEF Types, Acted
  <2>4. Max(mine) \in mine
    BY <2>3, GreatestExists
  <2>5. \A k \in mine : Back(pending[k].was) = base[l][p]
    BY <1>1, <1>2, <1>3, BackGives DEF Types, Stored, TrueCopy, Acted
  <2>6. CASE p \notin failing
    BY <1>4, <1>6, <2>3, <2>4, <2>5, <2>6 DEF Undone
  <2>7. CASE p \in failing
    <3>1. file'[p] \in Outcomes(pending, p)
      BY <1>4, <2>3, <2>7
    <3>2. Outcomes(pending, p) \subseteq {file[p], base[l][p], Torn}
      BY <2>5 DEF Outcomes
    <3> QED BY <1>6, <2>7, <3>1, <3>2 DEF Undone
  <2> QED BY <2>6, <2>7
<1> QED BY <1>5, <1>6

\* tx_rollback returns every file captured by one call, in a true copy, to
\* what it was before that call, whatever the tools and clients did to it since
\* and whatever failed for other files; one for which restore_entry itself fails
\* is left as it was, or torn.
THEOREM RollbackGivesBack == ASSUME Alone PROVE Spec => RollbackRestores
<1>1. IInv => RestoresOnce
  BY RestoresWhatItCaptured DEF RestoresOnce
<1>2. IInv /\ [Next]_vars => [RestoresOnce]_vars
  BY <1>1
<1>3. Spec => [][RestoresOnce]_vars
  BY <1>2, TxInvariant, PTL DEF Spec
<1> QED BY <1>3, PTL DEF RollbackRestores, RestoresOnce

GivesOriginal ==
    \A id \in DOMAIN manifest, ps \in Selections :
        RestoreFiles(id, ps) => \A i \in DOMAIN ps :
            TrueCopy(manifest[id], ps[i]) => file'[ps[i]] = original[id][ps[i]]

LEMMA SelectedIsOriginal ==
    ASSUME IInv, Alone, NEW id \in DOMAIN manifest, NEW ps \in Selections, RestoreFiles(id, ps),
           NEW i \in DOMAIN ps, TrueCopy(manifest[id], ps[i])
    PROVE  file'[ps[i]] = original[id][ps[i]]
<1> DEFINE p == ps[i]
           entries == manifest[id]
           mine == {k \in DOMAIN entries : entries[k].path = p}
<1>1. ps \in Seq(Paths)
  BY TxAssumption
<1>2. p \in Paths /\ p \in Range(ps)
  BY <1>1 DEF Range
<1>3. /\ Types /\ entries \in Seq(Entry) /\ Stored(entries)
      /\ FirstsTrue(entries, original[id]) /\ original[id] \in Bases
  BY DEF IInv, Types, AllStored, Manifests
<1>4. p \in PathsOf(entries) /\ EntryOf(entries, p) # Uncopied
  BY DEF RestoreFiles, Selectable
<1>5. mine \subseteq Nat /\ mine # {}
  BY <1>3, <1>4 DEF PathsOf
<1>6. Min(mine) \in mine /\ \A k \in mine : Min(mine) <= k
  BY <1>5, LeastExists
<1>7. PICK k \in mine : k = Min(mine) /\ \A j \in mine : k <= j
  BY <1>6
<1>8. k \in DOMAIN entries /\ entries[k].path = p /\ k \in 1..Len(entries) /\ Len(entries) \in Nat
  BY <1>3
<1>9. IsFirst(entries, k)
  <2>1. ASSUME NEW j \in 1..(k - 1) PROVE j \in DOMAIN entries /\ ~(k <= j)
    BY <1>3, <1>8
  <2> QED BY <1>7, <2>1 DEF IsFirst
<1>10. EntryOf(entries, p) = entries[k].was
  BY <1>7 DEF EntryOf
<1>11. entries[k].was \in RecordedOf(original[id][p]) /\ p \in DOMAIN original[id]
  BY <1>3, <1>8, <1>9 DEF FirstsTrue
<1>12. original[id][p] \in Files
  BY <1>3, <1>11 DEF Bases
<1>13. Back(entries[k].was) = original[id][p]
  BY <1>3, <1>4, <1>8, <1>10, <1>11, <1>12, BackGives DEF Types, Stored, TrueCopy
<1>14. file' = [q \in Paths |->
                  IF q \in {} THEN Torn
                  ELSE IF q \in Range(ps) THEN Back(EntryOf(manifest[id], q)) ELSE file[q]]
  BY DEF RestoreFiles, PutBack
<1> QED BY <1>2, <1>10, <1>13, <1>14

\* snapshot_restore_files takes the first entry of each file, which recorded
\* the state before the transaction, however often it was captured.
THEOREM SelectiveRestore == ASSUME Alone PROVE Spec => RestoreGivesOriginal
<1>1. IInv => GivesOriginal
  BY SelectedIsOriginal DEF GivesOriginal
<1>2. IInv /\ [Next]_vars => [GivesOriginal]_vars
  BY <1>1
<1>3. Spec => [][GivesOriginal]_vars
  BY <1>2, TxInvariant, PTL DEF Spec
<1> QED BY <1>3, PTL DEF RestoreGivesOriginal, GivesOriginal
-----------------------------------------------------------------------------
\* The event bus beside the other parts of a tool call: their steps leave it
\* alone.
LEMMA ToolsStepIsBusStep == [ToolsNext]_toolVars => [Bus!Next]_(Bus!vars)
<1>1. ASSUME UNCHANGED busVars PROVE UNCHANGED Bus!vars
  BY <1>1 DEF busVars, Bus!vars, Bus!ringVars, Bus!busVars, Bus!subVars, Bus!localVars, Bus!outVars
<1> QED BY <1>1 DEF ToolsNext, toolVars

\* event_bus.c as the tools use it keeps its promise to the handlers.
THEOREM BusOfTools == ToolsSpec => []BusSafe
<1>1. ToolsInit => Bus!Init
  BY DEF ToolsInit
<1>2. Bus!BusSafe => BusSafe
  BY DEF BusSafe
<1>3. ToolsSpec => Bus!Spec
  BY <1>1, ToolsStepIsBusStep, PTL DEF ToolsSpec, Bus!Spec
<1>4. Bus!Spec => []Bus!BusSafe
  BY Bus!BusKeepsItsPromise
<1> QED BY <1>2, <1>3, <1>4, PTL
-----------------------------------------------------------------------------
(* A shell command beside the other parts of a tool call *)

\* The parent has not begun, is at the child's side, or has let go of it.
ToStart == {"route", "start"}
Beside == {"read", "look", "last", "kill"}
After == {"drain", "spill", "over", "dead"}

CommandTypes ==
    /\ at \in ToStart \cup Beside \cup After
    /\ child \in {"none", "running", "ended", "reaped"}
    /\ status \in {"none", "zero", "error", "killed"}
    /\ place \in {"none", "here"} /\ result \in {"none", "ok", "failed"}
    /\ wrote \in Nat /\ read \in Nat /\ room \in Nat /\ wroteBefore \in Nat /\ exit \in Int
    /\ late \in BOOLEAN /\ timedOut \in BOOLEAN /\ failed \in BOOLEAN
    /\ saved \in BOOLEAN /\ unseen \in BOOLEAN

\* There is a child while the parent is beside it, and none that is not reaped later.
ChildIsWatched ==
    /\ at \in ToStart => child = "none" /\ result = "none"
    /\ at \in Beside => child # "none" /\ result = "none"
    /\ at \in After => child \in {"none", "reaped"}
    /\ at \in {"drain", "spill"} => child = "reaped" /\ result = "none"
    /\ at = "over" => result # "none"
    /\ child = "none" => place = "none" /\ result # "ok"
    /\ child \in {"none", "running"} => status = "none" /\ wroteBefore = 0
    /\ child = "ended" => status \in {"zero", "error"}

\* What is read was written, and there is room for it.
OutputIsKept ==
    /\ read <= wrote /\ wroteBefore <= wrote /\ read < room
    /\ at \in {"spill", "over"} /\ child = "reaped" => read >= wroteBefore \/ read + 1 = room
    /\ at = "dead" => child = "reaped" /\ result = "none" /\ failed

\* A child is killed only when the deadline, or a failure, made the parent leave;
\* one that had ended by then was not seen.
EndIsTold ==
    /\ at \in {"last", "kill"} /\ child \in {"running", "ended"} => late \/ failed
    /\ at \in {"read", "look", "kill"} => child # "reaped"
    /\ at \in {"last", "kill"} /\ child = "ended" => unseen
    /\ timedOut => at \in After /\ exit # 0 /\ (late \/ failed)
    /\ at \in ToStart \cup Beside /\ child # "reaped" => exit = 0
    /\ child = "reaped" /\ at \in Beside \cup {"drain", "spill"} /\ exit = 0 => status = "zero" \/ unseen
    /\ status = "killed" => child = "reaped" /\ at \in After /\ (at = "over" \/ timedOut)
    /\ result = "ok" => at = "over" /\ (status = "zero" \/ unseen) /\ status # "killed"
                        /\ (read <= Limit \/ saved)

CommandInv == CommandTypes /\ ChildIsWatched /\ OutputIsKept /\ EndIsTold

LEMMA CommandStarts == Shell!Init => CommandInv
<1> SUFFICES ASSUME Shell!Init PROVE CommandInv
  OBVIOUS
<1>1. /\ at = "route" /\ child = "none" /\ status = "none" /\ place = "none"
      /\ result = "none" /\ wrote = 0 /\ read = 0 /\ room \in Nat \ {0} /\ wroteBefore = 0
      /\ exit = 0 /\ late = FALSE /\ timedOut = FALSE /\ failed = FALSE
      /\ saved = FALSE /\ unseen = FALSE
  BY ShellAssumption DEF Shell!Init
<1>2. CommandTypes /\ ChildIsWatched
  <2>1. CommandTypes
    <3>1. late \in BOOLEAN /\ timedOut \in BOOLEAN /\ failed \in BOOLEAN
          /\ saved \in BOOLEAN /\ unseen \in BOOLEAN
      BY <1>1, Zenon
    <3>2. room \in Nat /\ exit \in Int
      BY <1>1
    <3> QED BY <1>1, <3>1, <3>2 DEF CommandTypes, ToStart, Beside, After
  <2>2. ChildIsWatched
    BY <1>1 DEF ChildIsWatched, ToStart, Beside, After
  <2> QED BY <2>1, <2>2
<1>3. OutputIsKept /\ EndIsTold
  BY <1>1 DEF OutputIsKept, EndIsTold, ToStart, Beside, After
<1> QED BY <1>2, <1>3 DEF CommandInv

LEMMA WayStep ==
    ASSUME CommandInv, Shell!Route \/ Shell!Refuse \/ Shell!Start \/ Shell!StartFails
    PROVE  CommandInv'
<1> USE DEF CommandInv, CommandTypes, ChildIsWatched, OutputIsKept, EndIsTold,
            ToStart, Beside, After, Shell!output, Shell!outcome, Shell!answer, Shell!history
<1>1. CASE Shell!Route
  BY <1>1 DEF Shell!Route
<1>2. CASE Shell!Refuse
  BY <1>2 DEF Shell!Refuse
<1>3. CASE Shell!Start
  BY <1>3 DEF Shell!Start
<1>4. CASE Shell!StartFails
  BY <1>4 DEF Shell!StartFails
<1> QED BY <1>1, <1>2, <1>3, <1>4

LEMMA ChildStep ==
    ASSUME CommandInv, Shell!Write \/ Shell!Exit \/ Shell!Expire PROVE CommandInv'
<1> USE DEF CommandInv, CommandTypes, ChildIsWatched, OutputIsKept, EndIsTold,
            ToStart, Beside, After, Shell!output, Shell!outcome, Shell!answer, Shell!history
<1>1. CASE Shell!Write
  BY <1>1 DEF Shell!Write
<1>2. CASE Shell!Exit
  BY <1>2 DEF Shell!Exit
<1>3. CASE Shell!Expire
  BY <1>3 DEF Shell!Expire
<1> QED BY <1>1, <1>2, <1>3

\* A buffer never shrinks below what it holds.
LEMMA ReadStep ==
    ASSUME CommandInv, NEW n \in 1..PipeRoom,
           Shell!ReadSome(n) \/ Shell!GrowFails(n) \/ Shell!Drain(n)
    PROVE  CommandInv'
<1> USE DEF CommandInv, CommandTypes, ChildIsWatched, OutputIsKept, EndIsTold,
            ToStart, Beside, After, Shell!output, Shell!outcome, Shell!answer, Shell!history,
            Shell!Free
<1>1. n \in Nat
  BY ShellAssumption
<1>2. CASE Shell!ReadSome(n)
  <2>1. room' \in Nat /\ read + n < room'
    BY <1>1, <1>2, ShellAssumption DEF Shell!ReadSome, Shell!Grown
  <2>2. CommandTypes' /\ ChildIsWatched'
    BY <1>1, <1>2, <2>1 DEF Shell!ReadSome
  <2>3. read' <= wrote' /\ read' < room'
    BY <1>1, <1>2, <2>1 DEF Shell!ReadSome
  <2>4. OutputIsKept' /\ EndIsTold'
    BY <1>2, <2>3 DEF Shell!ReadSome
  <2> QED BY <2>2, <2>4
<1>3. CASE Shell!GrowFails(n)
  <2>1. unseen' \in BOOLEAN /\ (child = "ended" => unseen')
    BY <1>3, Zenon DEF Shell!GrowFails
  <2>2. failed' \in BOOLEAN /\ failed'
    BY <1>3, Zenon DEF Shell!GrowFails
  <2>3. /\ at = "read" /\ at' = "last" /\ read' = read + n /\ n <= wrote - read
        /\ n <= room - read - 1 /\ room' = 2 * room
        /\ UNCHANGED <<child, status, place, wrote, late, exit, timedOut, result, saved, wroteBefore>>
    BY <1>3 DEF Shell!GrowFails
  <2>4. CommandTypes'
    BY <1>1, <2>1, <2>2, <2>3
  <2>5. ChildIsWatched' /\ OutputIsKept'
    BY <1>1, <2>3
  <2>6. EndIsTold'
    BY <2>1, <2>2, <2>3
  <2> QED BY <2>4, <2>5, <2>6
<1>4. CASE Shell!Drain(n)
  BY <1>1, <1>4 DEF Shell!Drain
<1> QED BY <1>2, <1>3, <1>4

LEMMA WaitStep ==
    ASSUME CommandInv,
           Shell!GiveUp \/ Shell!ReadNothing \/ Shell!Reap \/ Shell!Sleep \/ Shell!LastLook
           \/ Shell!Kill \/ Shell!Drained \/ Shell!Overrun
    PROVE  CommandInv'
<1> USE DEF CommandInv, CommandTypes, ChildIsWatched, OutputIsKept, EndIsTold,
            ToStart, Beside, After, Shell!output, Shell!outcome, Shell!answer, Shell!history
<1>1. CASE Shell!GiveUp
  <2>1. unseen' \in BOOLEAN /\ (child = "ended" => unseen') /\ late
    BY <1>1, Zenon DEF Shell!GiveUp
  <2>2. /\ at = "read" /\ at' = "last"
        /\ UNCHANGED <<child, status, place, wrote, read, room, late, exit, timedOut, failed,
                       result, saved, wroteBefore>>
    BY <1>1 DEF Shell!GiveUp
  <2>3. CommandTypes'
    BY <2>1, <2>2
  <2>4. ChildIsWatched' /\ OutputIsKept'
    BY <2>2
  <2>5. EndIsTold'
    BY <2>1, <2>2
  <2> QED BY <2>3, <2>4, <2>5
<1>2. CASE Shell!ReadNothing
  BY <1>2 DEF Shell!ReadNothing
<1>3. CASE Shell!Reap
  BY <1>3 DEF Shell!Reap
<1>4. CASE Shell!Sleep
  BY <1>4 DEF Shell!Sleep
<1>5. CASE Shell!LastLook
  BY <1>5 DEF Shell!LastLook
<1>6. CASE Shell!Kill
  BY <1>6 DEF Shell!Kill
<1>7. CASE Shell!Drained
  BY <1>7 DEF Shell!Drained, Shell!Free
<1>8. CASE Shell!Overrun
  <2>1. failed
    BY <1>8 DEF Shell!Overrun, Shell!Held
  <2>2. /\ at \in {"drain", "spill"} /\ at' = "dead"
        /\ UNCHANGED <<child, status, place, wrote, read, room, late, exit, timedOut, failed,
                       result, saved, wroteBefore, unseen>>
    BY <1>8 DEF Shell!Overrun
  <2> QED BY <2>1, <2>2
<1> QED BY <1>1, <1>2, <1>3, <1>4, <1>5, <1>6, <1>7, <1>8

LEMMA TellStep ==
    ASSUME CommandInv, Shell!Short \/ Shell!Spill \/ Shell!SpillFails PROVE CommandInv'
<1> USE ShellAssumption
    DEF CommandInv, CommandTypes, ChildIsWatched, OutputIsKept, EndIsTold,
        ToStart, Beside, After, Shell!output, Shell!outcome, Shell!answer, Shell!history,
        Shell!Ok
<1>1. CASE Shell!Short
  BY <1>1 DEF Shell!Short
<1>2. CASE Shell!Spill
  BY <1>2 DEF Shell!Spill
<1>3. CASE Shell!SpillFails
  BY <1>3 DEF Shell!SpillFails
<1> QED BY <1>1, <1>2, <1>3

LEMMA CommandStep == CommandInv /\ [ToolsNext]_toolVars => CommandInv'
<1> SUFFICES ASSUME CommandInv, [ToolsNext]_toolVars PROVE CommandInv'
  OBVIOUS
<1>1. CASE UNCHANGED shellVars
  BY <1>1 DEF shellVars, CommandInv, CommandTypes, ChildIsWatched, OutputIsKept, EndIsTold
<1>2. CASE Shell!Next
  BY <1>2, WayStep, ChildStep, ReadStep, WaitStep, TellStep DEF Shell!Next
<1> QED BY <1>1, <1>2 DEF ToolsNext, toolVars

\* What tool_shell.c tells a run of a command agrees with how proc.c saw it end,
\* for any sizes of the buffer, the pipe and the output.
THEOREM CommandsEnd == ToolsSpec => []CommandsSafe
<1>1. ToolsInit => CommandInv
  BY CommandStarts DEF ToolsInit
<1>2. CommandInv => CommandsSafe
  <2> USE DEF CommandInv, CommandTypes, ChildIsWatched, OutputIsKept, EndIsTold,
              ToStart, Beside, After
  <2>1. CommandInv => Shell!ResultFits
    <3> SUFFICES ASSUME CommandInv, at = "over", child = "reaped" PROVE Shell!ResultFits
      BY DEF Shell!ResultFits
    <3>1. result = "ok" => status = "zero" \/ unseen
      OBVIOUS
    <3>2. timedOut => late \/ failed
      OBVIOUS
    <3>3. status = "killed" => result = "failed"
      OBVIOUS
    <3> QED BY <3>1, <3>2, <3>3 DEF Shell!ResultFits
  <2>2. CommandInv => Shell!OutputFits
    BY DEF Shell!OutputFits, Shell!Free
  <2>3. CommandInv => Shell!NothingLeft
    BY DEF Shell!NothingLeft, Shell!Held
  <2> QED BY <2>1, <2>2, <2>3 DEF CommandsSafe, Shell!CommandsSafe
<1> QED BY <1>1, <1>2, CommandStep, PTL DEF ToolsSpec
=============================================================================
