-------------------------------- MODULE Lanes --------------------------------
(***************************************************************************)
(* Chat lanes (chat_lane_run in cognitive_os_agent.c): a task takes the    *)
(* lock of its session, then any free lane, runs, and gives both back.     *)
(* The session's lock is created by the first task that asks for it,       *)
(* counted, and freed by the last; both locks are polled, and the waiting  *)
(* ends when the task is cancelled or out of time.                         *)
(***************************************************************************)
EXTENDS Integers, FiniteSetTheorems, TLAPS

CONSTANTS
    Tasks, Sessions, Slots,
    SessionOf,      \* the session of each task
    Locks,          \* addresses a session lock may be allocated at
    Nobody, Null

ASSUME LanesAssumption ==
    /\ IsFiniteSet(Tasks) /\ Nobody \notin Tasks /\ Null \notin Locks
    /\ SessionOf \in [Tasks -> Sessions]

VARIABLES
    place,      \* where each task is in chat_lane_run
    stop,       \* has it been cancelled, or is it out of time
    se,         \* its session lock
    table,      \* g_lane_sess: the lock of each session
    live,       \* allocated locks
    references,
    owner,      \* who has locked each session lock
    lane        \* who has locked each lane

held == <<table, live, references>>
lanesVars == <<place, stop, se, table, live, references, owner, lane>>

Init ==
    /\ place = [t \in Tasks |-> "start"]
    /\ stop = [t \in Tasks |-> FALSE]
    /\ se = [t \in Tasks |-> Null]
    /\ table = [s \in Sessions |-> Null]
    /\ live = {}
    /\ references = [e \in Locks |-> 0]
    /\ owner = [e \in Locks |-> Nobody]
    /\ lane = [l \in Slots |-> Nobody]

Move(t, from, to) == place[t] = from /\ place' = [place EXCEPT ![t] = to]

\* Cancelled, or out of time.
Stop(t) ==
    /\ ~stop[t] /\ place[t] # "over"
    /\ stop' = [stop EXCEPT ![t] = TRUE]
    /\ UNCHANGED <<place, se, held, owner, lane>>

\* Mutated form: only the task that creates the lock is counted.
LookupUncounted(t) ==
    LET s == SessionOf[t]
    IN  /\ Move(t, "start", "waiting")
        /\ \/ /\ table[s] # Null
              /\ se' = [se EXCEPT ![t] = table[s]]
              /\ UNCHANGED held
           \/ /\ table[s] = Null
              /\ \E e \in Locks \ live :
                    /\ se' = [se EXCEPT ![t] = e]
                    /\ table' = [table EXCEPT ![s] = e]
                    /\ live' = live \cup {e}
                    /\ references' = [references EXCEPT ![e] = 1]
        /\ UNCHANGED <<stop, owner, lane>>

\* lane_sess_lock_acquire: found or created, and counted, under one lock.
Lookup(t) ==
    LET s == SessionOf[t]
    IN  /\ Move(t, "start", "waiting")
        /\ \/ /\ table[s] # Null
              /\ se' = [se EXCEPT ![t] = table[s]]
              /\ references' = [references EXCEPT ![table[s]] = @ + 1]
              /\ UNCHANGED <<table, live>>
           \/ /\ table[s] = Null
              /\ \E e \in Locks \ live :
                    /\ se' = [se EXCEPT ![t] = e]
                    /\ table' = [table EXCEPT ![s] = e]
                    /\ live' = live \cup {e}
                    /\ references' = [references EXCEPT ![e] = 1]
        /\ UNCHANGED <<stop, owner, lane>>

\* No memory for the lock: the task fails.
LookupFails(t) ==
    /\ Move(t, "start", "over") /\ table[SessionOf[t]] = Null
    /\ UNCHANGED <<stop, se, held, owner, lane>>

\* lane_lock_wait: a look at the flags, then one try.
Look(t) ==
    /\ Move(t, "waiting", IF stop[t] THEN "leaving" ELSE "trying")
    /\ UNCHANGED <<stop, se, held, owner, lane>>

TryFails(t) ==
    /\ Move(t, "trying", "waiting") /\ owner[se[t]] # Nobody
    /\ UNCHANGED <<stop, se, held, owner, lane>>

TrySession(t) ==
    /\ Move(t, "trying", "polling") /\ owner[se[t]] = Nobody
    /\ owner' = [owner EXCEPT ![se[t]] = t]
    /\ UNCHANGED <<stop, se, held, lane>>

\* The same for the lanes, any of them.
LookLanes(t) ==
    /\ Move(t, "polling", IF stop[t] THEN "unlocking" ELSE "scanning")
    /\ UNCHANGED <<stop, se, held, owner, lane>>

AllBusy(t) ==
    /\ Move(t, "scanning", "polling") /\ \A l \in Slots : lane[l] # Nobody
    /\ UNCHANGED <<stop, se, held, owner, lane>>

TryLane(t, l) ==
    /\ Move(t, "scanning", "running") /\ lane[l] = Nobody
    /\ lane' = [lane EXCEPT ![l] = t]
    /\ UNCHANGED <<stop, se, held, owner>>

\* The run is over; the lane is given back.
Finish(t, l) ==
    /\ Move(t, "running", "unlocking") /\ lane[l] = t
    /\ lane' = [lane EXCEPT ![l] = Nobody]
    /\ UNCHANGED <<stop, se, held, owner>>

\* Mutated form: a task that got no lane forgets to unlock its session.
UnlockAfterRun(t) ==
    /\ Move(t, "unlocking", "leaving")
    /\ owner' = IF stop[t] THEN owner ELSE [owner EXCEPT ![se[t]] = Nobody]
    /\ UNCHANGED <<stop, se, held, lane>>

\* lane_sess_lock_release
Unlock(t) ==
    /\ Move(t, "unlocking", "leaving")
    /\ owner' = [owner EXCEPT ![se[t]] = Nobody]
    /\ UNCHANGED <<stop, se, held, lane>>

\* Mutated form: whoever leaves removes the lock from the table.
UnrefRemoving(t) ==
    /\ Move(t, "leaving", "over")
    /\ se' = [se EXCEPT ![t] = Null]
    /\ references' = [references EXCEPT ![se[t]] = @ - 1]
    /\ table' = [s \in Sessions |-> IF table[s] = se[t] THEN Null ELSE table[s]]
    /\ live' = IF references[se[t]] = 1 THEN live \ {se[t]} ELSE live
    /\ UNCHANGED <<stop, owner, lane>>

\* lane_sess_unref: the last user removes and frees it.
Unref(t) ==
    /\ Move(t, "leaving", "over")
    /\ se' = [se EXCEPT ![t] = Null]
    /\ references' = [references EXCEPT ![se[t]] = @ - 1]
    /\ IF references[se[t]] = 1
       THEN /\ table' = [s \in Sessions |-> IF table[s] = se[t] THEN Null ELSE table[s]]
            /\ live' = live \ {se[t]}
       ELSE UNCHANGED <<table, live>>
    /\ UNCHANGED <<stop, owner, lane>>

Run(t) ==
    \/ Lookup(t) \/ LookupFails(t) \/ Look(t) \/ TryFails(t) \/ TrySession(t)
    \/ LookLanes(t) \/ AllBusy(t) \/ (\E l \in Slots : TryLane(t, l) \/ Finish(t, l))
    \/ Unlock(t) \/ Unref(t)

Next == \E t \in Tasks : Run(t) \/ Stop(t)

Spec == Init /\ [][Next]_lanesVars

\* Workers go on; a run ends, as the module AgentLoop shows.
Fairness == \A t \in Tasks : WF_lanesVars(Run(t))

-----------------------------------------------------------------------------
\* The places at which a task uses its session lock, and owns it.
Using == {"waiting", "trying", "polling", "scanning", "running", "unlocking", "leaving"}
Owning == {"polling", "scanning", "running", "unlocking"}

\* Tasks of one session take turns ("Tasks on the SAME session still
\* serialize through a per-session lock"), and a lane runs one task.
OneTurn ==
    /\ \A t, u \in Tasks :
          place[t] \in Owning /\ place[u] \in Owning /\ SessionOf[t] = SessionOf[u] => t = u
    /\ \A t \in Tasks : place[t] = "running" <=> \E l \in Slots : lane[l] = t

\* A lock is freed only when nobody uses it ("Session locks live only while
\* owned or awaited"), and a session in use has one lock.
LockInUse ==
    \A t \in Tasks : place[t] \in Using => se[t] \in live /\ table[SessionOf[t]] = se[t]

\* When all are through nothing is left locked or allocated.
NothingKept ==
    (\A t \in Tasks : place[t] = "over") =>
        live = {} /\ (\A s \in Sessions : table[s] = Null) /\ \A l \in Slots : lane[l] = Nobody

LanesSafe == OneTurn /\ LockInUse /\ NothingKept

\* Every task gets its turn or gives up: nobody waits for ever, whoever was
\* cancelled while waiting for the session or for a lane.
EveryTaskLeaves == \A t \in Tasks : <>(place[t] = "over")

-----------------------------------------------------------------------------
\* PROOF OF THE SAFETY PROPERTIES
\*
\* For any number of chat tasks, sessions and lanes: tasks of one session
\* take turns, a lane runs one task, a session's lock is not freed while a
\* task uses or awaits it, and nothing is kept when all have left.
\*
\* The lock of a session is the one in the table for as long as it lives
\* (Tabled), and its count is the number of the tasks that have looked it
\* up and not left (Counted), so the last one to leave, and only that one,
\* finds the count at 1.

Types ==
    /\ place \in [Tasks -> {"start", "over"} \cup Using]
    /\ stop \in [Tasks -> BOOLEAN]
    /\ se \in [Tasks -> Locks \cup {Null}]
    /\ table \in [Sessions -> Locks \cup {Null}]
    /\ live \subseteq Locks
    /\ references \in [Locks -> Nat]
    /\ owner \in [Locks -> Tasks \cup {Nobody}]
    /\ lane \in [Slots -> Tasks \cup {Nobody}]

Tabled ==
    /\ \A s \in Sessions : table[s] # Null => table[s] \in live
    /\ \A r, s \in Sessions : table[r] # Null /\ table[r] = table[s] => r = s
    /\ \A e \in live : \E s \in Sessions : table[s] = e

UsersOf(e) == {t \in Tasks : place[t] \in Using /\ se[t] = e}

Counted ==
    \A e \in live : references[e] = Cardinality(UsersOf(e)) /\ UsersOf(e) # {}

Owned ==
    \A e \in Locks, t \in Tasks : owner[e] = t <=> place[t] \in Owning /\ se[t] = e

Laned ==
    /\ \A t \in Tasks : place[t] = "running" <=> \E l \in Slots : lane[l] = t
    /\ \A k, l \in Slots, t \in Tasks : lane[k] = t /\ lane[l] = t => k = l

IInv == Types /\ LockInUse /\ Tabled /\ Counted /\ Owned /\ Laned

-----------------------------------------------------------------------------
LEMMA UsersAreFinite == \A e : IsFiniteSet(UsersOf(e))
  BY LanesAssumption, FS_Subset DEF UsersOf

LEMMA IInvInit == Init => IInv
<1> SUFFICES ASSUME Init PROVE IInv
  OBVIOUS
<1> USE LanesAssumption DEF Init
<1>1. Types
  BY DEF Types
<1>2. LockInUse /\ Tabled /\ Counted
  BY DEF LockInUse, Tabled, Counted, Using
<1>3. Owned /\ Laned
  BY DEF Owned, Laned, Owning
<1> QED BY <1>1, <1>2, <1>3 DEF IInv

\* Steps that neither look up nor leave: who uses a lock does not change.
LEMMA SameUsers ==
    ASSUME IInv, UNCHANGED <<se, held>>,
           place' \in [Tasks -> {"start", "over"} \cup Using],
           \A t \in Tasks : place'[t] \in Using <=> place[t] \in Using
    PROVE  LockInUse' /\ Tabled' /\ Counted'
<1> USE DEF held
<1>1. LockInUse' /\ Tabled'
  BY DEF IInv, LockInUse, Tabled
<1>2. \A e : UsersOf(e)' = UsersOf(e)
  BY DEF UsersOf
<1> QED BY <1>1, <1>2 DEF IInv, Counted

\* Looks at the flags, tries that fail, and the stop itself.
LEMMA LookStep ==
    ASSUME IInv, NEW t \in Tasks,
           LookupFails(t) \/ Look(t) \/ TryFails(t) \/ LookLanes(t) \/ AllBusy(t) \/ Stop(t)
    PROVE  IInv'
<1> USE DEF Move
<1>1. /\ UNCHANGED <<se, held, owner, lane>>
      /\ place' \in [Tasks -> {"start", "over"} \cup Using]
      /\ \A u \in Tasks : /\ place'[u] \in Using <=> place[u] \in Using
                          /\ place'[u] \in Owning <=> place[u] \in Owning
                          /\ place'[u] = "running" <=> place[u] = "running"
  BY DEF IInv, Types, LookupFails, Look, TryFails, LookLanes, AllBusy, Stop, Using, Owning
<1>2. stop' \in [Tasks -> BOOLEAN]
  BY DEF IInv, Types, LookupFails, Look, TryFails, LookLanes, AllBusy, Stop
<1>3. Types'
  BY <1>1, <1>2 DEF IInv, Types, held
<1>4. Owned' /\ Laned'
  BY <1>1 DEF IInv, Owned, Laned
<1> QED BY <1>1, <1>3, <1>4, SameUsers DEF IInv

\* The session's lock, and its unlocking.
LEMMA SessionStep ==
    ASSUME IInv, NEW t \in Tasks, TrySession(t) \/ Unlock(t)
    PROVE  IInv'
<1> USE LanesAssumption DEF Move
<1> DEFINE e == se[t]
<1>1. /\ UNCHANGED <<stop, se, held, lane>>
      /\ place' \in [Tasks -> {"start", "over"} \cup Using]
      /\ \A u \in Tasks : /\ place'[u] \in Using <=> place[u] \in Using
                          /\ place'[u] = "running" <=> place[u] = "running"
                          /\ u # t => place'[u] = place[u]
  BY DEF IInv, Types, TrySession, Unlock, Using
<1>2. e \in Locks /\ owner \in [Locks -> Tasks \cup {Nobody}]
  BY DEF IInv, Types, LockInUse, TrySession, Unlock, Using
<1>3. Owned' /\ owner' \in [Locks -> Tasks \cup {Nobody}]
  <2>1. CASE TrySession(t)
    <3>1. /\ owner' = [owner EXCEPT ![e] = t] /\ place'[t] \in Owning
          /\ place[t] \notin Owning /\ owner[e] = Nobody
      BY <2>1 DEF IInv, Types, TrySession, Owning
    <3> QED BY <1>1, <1>2, <3>1 DEF IInv, Owned
  <2>2. CASE Unlock(t)
    <3>1. /\ owner' = [owner EXCEPT ![e] = Nobody] /\ place'[t] \notin Owning
          /\ place[t] \in Owning /\ owner[e] = t
      BY <1>2, <2>2 DEF IInv, Types, Unlock, Owning, Owned
    <3> QED BY <1>1, <1>2, <3>1 DEF IInv, Owned
  <2> QED BY <2>1, <2>2
<1>4. Types'
  BY <1>1, <1>3 DEF IInv, Types, held
<1>5. Laned'
  BY <1>1 DEF IInv, Laned
<1> QED BY <1>1, <1>3, <1>4, <1>5, SameUsers DEF IInv

\* A lane, taken and given back.
LEMMA LaneStep ==
    ASSUME IInv, NEW t \in Tasks, NEW l \in Slots, TryLane(t, l) \/ Finish(t, l)
    PROVE  IInv'
<1> USE LanesAssumption DEF Move
<1>1. /\ UNCHANGED <<stop, se, held, owner>>
      /\ place' \in [Tasks -> {"start", "over"} \cup Using]
      /\ \A u \in Tasks : /\ place'[u] \in Using <=> place[u] \in Using
                          /\ place'[u] \in Owning <=> place[u] \in Owning
                          /\ u # t => place'[u] = place[u]
  BY DEF IInv, Types, TryLane, Finish, Using, Owning
<1>2. Laned' /\ lane' \in [Slots -> Tasks \cup {Nobody}]
  <2>1. CASE TryLane(t, l)
    <3>1. /\ lane' = [lane EXCEPT ![l] = t] /\ lane[l] = Nobody
          /\ place[t] # "running" /\ place'[t] = "running"
      BY <2>1 DEF IInv, Types, TryLane
    <3> QED BY <1>1, <3>1 DEF IInv, Types, Laned
  <2>2. CASE Finish(t, l)
    <3>1. /\ lane' = [lane EXCEPT ![l] = Nobody] /\ lane[l] = t
          /\ place[t] = "running" /\ place'[t] # "running"
      BY <2>2 DEF IInv, Types, Finish
    <3> QED BY <1>1, <3>1 DEF IInv, Types, Laned
  <2> QED BY <2>1, <2>2
<1>3. Types'
  BY <1>1, <1>2 DEF IInv, Types, held
<1>4. Owned'
  BY <1>1 DEF IInv, Owned
<1> QED BY <1>1, <1>2, <1>3, <1>4, SameUsers DEF IInv

\* lane_sess_lock_acquire
LEMMA LookupStep == ASSUME IInv, NEW t \in Tasks, Lookup(t) PROVE IInv'
<1> USE LanesAssumption DEF Move
<1> DEFINE s == SessionOf[t]
<1>1. /\ s \in Sessions /\ UNCHANGED <<stop, owner, lane>>
      /\ place[t] = "start" /\ place'[t] = "waiting"
      /\ place' \in [Tasks -> {"start", "over"} \cup Using]
      /\ \A u \in Tasks : u # t => place'[u] = place[u]
  BY DEF IInv, Types, Lookup, Using
<1>2. PICK e \in Locks :
         /\ se' = [se EXCEPT ![t] = e]
         /\ \/ /\ table[s] = e /\ UNCHANGED <<table, live>>
               /\ references' = [references EXCEPT ![e] = @ + 1]
            \/ /\ table[s] = Null /\ e \notin live
               /\ table' = [table EXCEPT ![s] = e] /\ live' = live \cup {e}
               /\ references' = [references EXCEPT ![e] = 1]
  <2>1. CASE table[s] # Null
    <3>1. table[s] \in Locks
      BY <1>1, <2>1 DEF IInv, Types
    <3> QED BY <2>1, <3>1 DEF Lookup
  <2>2. CASE table[s] = Null
    BY <2>2 DEF IInv, Types, Lookup
  <2> QED BY <2>1, <2>2
<1>3. Types'
  BY <1>1, <1>2 DEF IInv, Types
<1>4. /\ se'[t] = e /\ \A u \in Tasks : u # t => se'[u] = se[u]
      /\ e \in live' /\ live \subseteq live' /\ table'[s] = e
      /\ \A r \in Sessions : r # s => table'[r] = table[r]
      /\ table[s] # Null => table'[s] = table[s]
  BY <1>1, <1>2 DEF IInv, Types, Tabled
<1>5. LockInUse'
  <2> SUFFICES ASSUME NEW u \in Tasks, place'[u] \in Using
               PROVE  se'[u] \in live' /\ table'[SessionOf[u]] = se'[u]
    BY DEF LockInUse
  <2>1. CASE u = t
    BY <1>4, <2>1
  <2>2. CASE u # t
    <3>1. /\ place[u] \in Using /\ se'[u] = se[u] /\ SessionOf[u] \in Sessions
          /\ se[u] \in live /\ table[SessionOf[u]] = se[u] /\ se[u] # Null
      BY <1>1, <1>4, <2>2 DEF IInv, Types, LockInUse
    <3> QED BY <1>4, <3>1
  <2> QED BY <2>1, <2>2
<1>6. Tabled'
  BY <1>1, <1>2 DEF IInv, Types, Tabled
<1>7. Counted'
  <2>1. UsersOf(e)' = UsersOf(e) \cup {t} /\ t \notin UsersOf(e)
    BY <1>1, <1>4 DEF UsersOf, Using
  <2>2. \A f \in Locks : f # e => UsersOf(f)' = UsersOf(f)
    BY <1>1, <1>4 DEF UsersOf, Using
  <2>3. Cardinality(UsersOf(e)') = Cardinality(UsersOf(e)) + 1
    BY <2>1, UsersAreFinite, FS_AddElement
  <2>4. CASE e \in live
    <3>1. references' = [references EXCEPT ![e] = @ + 1] /\ live' = live
      BY <1>2, <2>4
    <3>2. references'[e] = Cardinality(UsersOf(e)')
      BY <2>3, <2>4, <3>1 DEF IInv, Types, Counted
    <3> QED BY <2>1, <2>2, <3>1, <3>2 DEF IInv, Types, Counted
  <2>5. CASE e \notin live
    <3>1. references' = [references EXCEPT ![e] = 1] /\ live' = live \cup {e}
      BY <1>1, <1>2, <2>5 DEF IInv, Types, Tabled
    <3>2. UsersOf(e) = {}
      BY <2>5 DEF IInv, LockInUse, UsersOf
    <3>3. references'[e] = Cardinality(UsersOf(e)')
      BY <2>3, <3>1, <3>2, FS_EmptySet DEF IInv, Types
    <3> QED BY <2>1, <2>2, <3>1, <3>3 DEF IInv, Types, Counted
  <2> QED BY <2>4, <2>5
<1>8. Owned'
  <2>1. place[t] \notin Owning /\ place'[t] \notin Owning
    BY <1>1 DEF Owning
  <2> QED BY <1>1, <1>4, <2>1 DEF IInv, Owned
<1>9. Laned'
  <2>1. place[t] # "running" /\ place'[t] # "running"
    BY <1>1
  <2> QED BY <1>1, <2>1 DEF IInv, Laned
<1> QED BY <1>3, <1>5, <1>6, <1>7, <1>8, <1>9 DEF IInv

\* lane_sess_unref: a count of 1 means that nobody else uses the lock.
LEMMA UnrefStep == ASSUME IInv, NEW t \in Tasks, Unref(t) PROVE IInv'
<1> USE LanesAssumption DEF Move
<1>0. PICK e : e = se[t]
  OBVIOUS
<1>1. /\ UNCHANGED <<stop, owner, lane>>
      /\ place[t] = "leaving" /\ place'[t] = "over"
      /\ place' \in [Tasks -> {"start", "over"} \cup Using]
      /\ \A u \in Tasks : u # t => place'[u] = place[u]
      /\ se' = [se EXCEPT ![t] = Null]
      /\ references' = [references EXCEPT ![e] = @ - 1]
  BY <1>0 DEF IInv, Types, Unref, Using
<1>2. /\ e \in live /\ e \in Locks /\ e # Null /\ t \in UsersOf(e)
      /\ table[SessionOf[t]] = e /\ SessionOf[t] \in Sessions
      /\ references[e] = Cardinality(UsersOf(e)) /\ references[e] \in Nat
  BY <1>0, <1>1 DEF IInv, Types, LockInUse, Counted, UsersOf, Using
<1>3. /\ UsersOf(e)' = UsersOf(e) \ {t}
      /\ \A f \in Locks : f # e => UsersOf(f)' = UsersOf(f)
  <2>1. se'[t] = Null /\ \A u \in Tasks : u # t => se'[u] = se[u]
    BY <1>1 DEF IInv, Types
  <2>2. \A f \in Locks : UsersOf(f)' = UsersOf(f) \ {t}
    BY <1>1, <2>1 DEF UsersOf, Using
  <2>3. \A f \in Locks : f # e => t \notin UsersOf(f)
    BY <1>0 DEF UsersOf
  <2> QED BY <1>2, <2>2, <2>3
<1>4. /\ Cardinality(UsersOf(e)') = Cardinality(UsersOf(e)) - 1
      /\ Cardinality(UsersOf(e)') \in Nat /\ IsFiniteSet(UsersOf(e)')
      /\ (Cardinality(UsersOf(e)') = 0 <=> UsersOf(e)' = {})
  <2>1. IsFiniteSet(UsersOf(e) \ {t})
    BY UsersAreFinite, FS_RemoveElement
  <2> QED BY <1>2, <1>3, <2>1, UsersAreFinite, FS_RemoveElement, FS_CardinalityType,
             FS_EmptySet
<1>5. /\ place[t] \notin Owning /\ place'[t] \notin Owning
      /\ place'[t] \notin Using /\ place[t] # "running" /\ place'[t] # "running"
  BY <1>1 DEF Owning, Using
<1>6. Owned' /\ Laned'
  BY <1>0, <1>1, <1>5 DEF IInv, Types, Owned, Laned
<1>7. references'[e] = Cardinality(UsersOf(e)') /\ references' \in [Locks -> Nat]
  BY <1>1, <1>2, <1>4 DEF IInv, Types
<1>8. CASE references[e] = 1
  <2>1. /\ table' = [s \in Sessions |-> IF table[s] = e THEN Null ELSE table[s]]
        /\ live' = live \ {e}
    BY <1>0, <1>8 DEF Unref
  <2>2. Types'
    BY <1>1, <1>7, <2>1 DEF IInv, Types
  <2>3. UsersOf(e)' = {}
    BY <1>2, <1>4, <1>8
  <2>4. LockInUse'
    <3> SUFFICES ASSUME NEW u \in Tasks, place'[u] \in Using
                 PROVE  se'[u] \in live' /\ table'[SessionOf[u]] = se'[u]
      BY DEF LockInUse
    <3>1. u # t /\ place[u] \in Using /\ se'[u] = se[u] /\ SessionOf[u] \in Sessions
      BY <1>1, <1>5 DEF IInv, Types
    <3>2. se[u] # e
      <4>1. u \notin UsersOf(e)'
        BY <2>3
      <4> QED BY <3>1, <4>1 DEF UsersOf
    <3> QED BY <2>1, <3>1, <3>2 DEF IInv, LockInUse
  <2>5. Tabled'
    BY <1>2, <2>1 DEF IInv, Types, Tabled
  <2>6. Counted'
    BY <1>1, <1>3, <2>1 DEF IInv, Types, Counted
  <2> QED BY <1>6, <2>2, <2>4, <2>5, <2>6 DEF IInv
<1>9. CASE references[e] # 1
  <2>1. UNCHANGED <<table, live>>
    BY <1>0, <1>9 DEF Unref
  <2>2. Types'
    BY <1>1, <1>7, <2>1 DEF IInv, Types
  <2>3. LockInUse'
    BY <1>1, <1>5, <2>1 DEF IInv, Types, LockInUse
  <2>4. Tabled'
    BY <2>1 DEF IInv, Tabled
  <2>5. Counted'
    <3>1. UsersOf(e)' # {}
      BY <1>2, <1>4, <1>9
    <3>2. \A f \in live : f # e => references'[f] = references[f] /\ f \in Locks
      BY <1>1 DEF IInv, Types
    <3>3. \A f \in live : f # e => references'[f] = Cardinality(UsersOf(f)') /\ UsersOf(f)' # {}
      BY <1>3, <3>2 DEF IInv, Counted
    <3> QED BY <1>7, <2>1, <3>1, <3>3 DEF Counted
  <2> QED BY <1>6, <2>2, <2>3, <2>4, <2>5 DEF IInv
<1> QED BY <1>8, <1>9

LEMMA IInvStep == IInv /\ [Next]_lanesVars => IInv'
<1> SUFFICES ASSUME IInv, [Next]_lanesVars PROVE IInv'
  OBVIOUS
<1>1. CASE UNCHANGED lanesVars
  BY <1>1, SMTT(30) DEF lanesVars, held, IInv, Types, LockInUse, Tabled, Counted, UsersOf, Owned, Laned
<1> QED BY <1>1, LookStep, SessionStep, LaneStep, LookupStep, UnrefStep DEF Next, Run

\* chat_lane_run's locks do what their comments say (cognitive_os_agent.c),
\* for any number of tasks, sessions and lanes.
THEOREM LanesKeepTheirPromise == Spec => []LanesSafe
<1>1. IInv => OneTurn
  <2> SUFFICES ASSUME IInv PROVE OneTurn
    OBVIOUS
  <2>1. \A t \in Tasks : place[t] \in Owning =>
           se[t] \in Locks /\ table[SessionOf[t]] = se[t] /\ owner[se[t]] = t
    BY DEF IInv, Types, LockInUse, Owned, Using, Owning
  <2> QED BY <2>1 DEF IInv, Laned, OneTurn
<1>2. IInv => NothingKept
  <2> SUFFICES ASSUME IInv, \A t \in Tasks : place[t] = "over"
               PROVE  /\ live = {} /\ \A s \in Sessions : table[s] = Null
                      /\ \A l \in Slots : lane[l] = Nobody
    BY DEF NothingKept
  <2>1. live = {}
    BY DEF IInv, Counted, UsersOf, Using
  <2>2. \A l \in Slots : lane[l] = Nobody
    BY DEF IInv, Types, Laned
  <2> QED BY <2>1, <2>2 DEF IInv, Tabled
<1>3. IInv => LanesSafe
  BY <1>1, <1>2 DEF IInv, LanesSafe
<1> QED BY <1>3, IInvInit, IInvStep, PTL DEF Spec
=============================================================================
