----------------------------- MODULE AgentPool -----------------------------
(***************************************************************************)
(* The pool of agents (runtime/agent.c): an array in the order of          *)
(* registration, and an open-addressed index from names to places that     *)
(* grows before it is seven tenths full.  Every operation holds one lock.  *)
(* hash stands for the hash function: any one, chosen at the beginning.    *)
(*                                                                         *)
(* The roster is written anew, in place, after every change, and loaded at *)
(* a restart.  One run of an agent is followed (errand): as an API request,*)
(* which no other request interrupts, or as a node of a flow, beside which *)
(* agents come and go.  The work itself is a choice of outcomes.           *)
(***************************************************************************)
EXTENDS Integers, Sequences, SequencesExt, FiniteSetsExt

CONSTANTS
    Names,
    Experts,        \* names of agents that have to deliver a file
    Models,         \* models an agent may be given
    Hashes,         \* values of the hash function
    FirstCap,       \* size of the first index, a power of two (16 in the code)
    None, Torn,
    MaxFailures, MaxCrashes     \* bounds

VARIABLES
    agents,         \* the names, in the order of the array
    cap,            \* name_cap; 0 before the first agent
    slots,          \* name_slots: a place in the array, or 0
    hash,
    models,         \* name |-> its model, or None
    roster,         \* agents.json: the names with their models, or Torn
    errand,         \* the run: [by, agent, step, file]
    posted,         \* what the blackboard was last given: <<name, "text", "file" or "note">>
    failures, crashes,
    unkept          \* ghost: the roster misses a change

poolVars == <<agents, cap, slots, hash, models, roster, errand, posted, failures, crashes,
              unkept>>

Idle == [by |-> None, agent |-> None, step |-> "none", file |-> FALSE]

Init ==
    /\ agents = <<>> /\ cap = 0 /\ slots = [s \in {} |-> 0]
    /\ hash \in [Names -> Hashes]
    /\ models = [n \in Names |-> None] /\ roster = <<>>
    /\ errand = Idle /\ posted = None
    /\ failures = 0 /\ crashes = 0 /\ unkept = FALSE

-----------------------------------------------------------------------------
\* The index

\* The slots a search for a name looks at, one after the other.
Probe(n, size, d) == (hash[n] + d) % size

\* Steps until a search ends: at the name, or at an empty slot.
Stops(n) ==
    {d \in 0 .. cap - 1 : LET i == slots[Probe(n, cap, d)] IN i = 0 \/ agents[i] = n}

\* find_agent
Find(n) == IF cap = 0 THEN 0 ELSE slots[Probe(n, cap, Min(Stops(n)))]

\* name_index_insert, of the i-th agent into a given index
Insert(table, size, list, i) ==
    LET d == Min({k \in 0 .. size - 1 : table[Probe(list[i], size, k)] = 0})
    IN  [table EXCEPT ![Probe(list[i], size, d)] = i]

Empty(size) == [s \in 0 .. size - 1 |-> 0]

\* The index of a whole array, built anew.
Reindexed(size, list) ==
    FoldLeft(LAMBDA table, i : Insert(table, size, list, i),
             Empty(size), [i \in 1 .. Len(list) |-> i])

\* name_index_reserve: an index with room for one agent more.
Roomy(count, size) == size # 0 /\ count * 10 < size * 7

Reserved(pool) ==
    LET size == IF pool.cap = 0 THEN FirstCap ELSE 2 * pool.cap IN
    IF Roomy(Len(pool.agents) + 1, pool.cap) THEN pool
    ELSE [pool EXCEPT !.cap = size, !.slots = Reindexed(size, pool.agents)]

\* agent_pool_add_model, of a name that is not there
With(pool, n) ==
    LET list == Append(pool.agents, n)
        room == Reserved(pool)
    IN  [agents |-> list, cap |-> room.cap,
         slots |-> Insert(room.slots, room.cap, list, Len(list))]

\* Mutated form: only the slot of the agent itself is emptied.
WithoutInPlace(pool, i) ==
    [pool EXCEPT !.agents = RemoveAt(@, i),
                 !.slots = [s \in DOMAIN @ |-> IF @[s] = i THEN 0
                                               ELSE IF @[s] > i THEN @[s] - 1 ELSE @[s]]]

\* agent_pool_remove: the tail of the array moves up, so all is indexed anew.
Without(pool, i) ==
    LET list == RemoveAt(pool.agents, i)
    IN  [pool EXCEPT !.agents = list, !.slots = Reindexed(pool.cap, list)]

Pool == [agents |-> agents, cap |-> cap, slots |-> slots]
Become(pool) == agents' = pool.agents /\ cap' = pool.cap /\ slots' = pool.slots

-----------------------------------------------------------------------------
\* The roster

Roster == [i \in DOMAIN agents |-> <<agents[i], models[agents[i]]>>]

\* agent_pool_save, after each change.  Nothing looks at its result.
Save ==
    /\ \/ roster' = Roster' /\ UNCHANGED failures
       \/ /\ failures < MaxFailures /\ failures' = failures + 1
          /\ roster' \in {roster, Torn}
    /\ unkept' = (roster' # Roster')

\* agent_pool_set_model; none means the one that is active.
Give(n, m) == models' = [models EXCEPT ![n] = m]

\* Requests take turns; a run that was requested is one of them.
Turn == errand.by # "api"

\* h_agent_add; a name that is there is refused.
AddAgent(n, m) ==
    /\ Turn /\ Find(n) = 0
    /\ Become(With(Pool, n)) /\ Give(n, m)
    /\ Save
    /\ UNCHANGED <<hash, errand, posted, crashes>>

\* h_agent_update
SetModel(n, m) ==
    /\ Turn /\ Find(n) # 0
    /\ Give(n, m) /\ UNCHANGED <<agents, cap, slots>>
    /\ Save
    /\ UNCHANGED <<hash, errand, posted, crashes>>

\* h_agent_delete
RemoveAgent(n) ==
    /\ Turn /\ Find(n) # 0
    /\ Become(Without(Pool, Find(n))) /\ Give(n, None)
    /\ Save
    /\ UNCHANGED <<hash, errand, posted, crashes>>

\* agent_pool_load: one agent after the other, into an empty pool.
Load(file) ==
    LET list == IF file = Torn THEN <<>> ELSE file IN
    /\ Become(FoldLeft(LAMBDA pool, entry : With(pool, entry[1]),
                       [agents |-> <<>>, cap |-> 0, slots |-> Empty(0)], list))
    /\ models' = [n \in Names |->
           IF \E i \in DOMAIN list : list[i][1] = n
           THEN (CHOOSE entry \in Range(list) : entry[1] = n)[2] ELSE None]

\* A crash may tear a roster that is being written.  What was posted stays
\* (blackboard.json is not looked at here).
Restart ==
    /\ crashes < MaxCrashes /\ crashes' = crashes + 1
    /\ roster' \in {roster, Torn}
    /\ Load(roster')
    /\ errand' = Idle /\ unkept' = (roster' # Roster')
    /\ UNCHANGED <<hash, posted, failures>>

-----------------------------------------------------------------------------
\* Runs

KeepPool == UNCHANGED <<agents, cap, slots, hash, models, roster, failures, crashes, unkept>>

\* agent_pool_task_prompt gives nothing for an agent that is not there.
Start(by, n) ==
    /\ errand = Idle /\ Find(n) # 0
    /\ errand' = [by |-> by, agent |-> n, step |-> "first", file |-> FALSE]
    /\ KeepPool /\ UNCHANGED posted

\* agent_pool_deliverable_valid: nothing is, of an agent that has gone.
Valid(n, file) == Find(n) # 0 /\ (n \in Experts => file)

\* The work ends, with an answer that names a valid file or does not; whether
\* that of another agent does is not looked at.
Answer(file) ==
    LET next == IF Valid(errand.agent, file) THEN "post"
                ELSE IF errand.step = "first" THEN "retry" ELSE "none"
    IN  /\ errand.step \in {"first", "again"} /\ (file => errand.agent \in Experts)
        /\ errand' = IF next = "none" THEN Idle
                     ELSE [errand EXCEPT !.step = next, !.file = file]
        /\ KeepPool /\ UNCHANGED posted

\* The work fails, or ends with nothing to post.
Fail == errand.step \in {"first", "again"} /\ errand' = Idle /\ KeepPool /\ UNCHANGED posted

\* A second prompt asks for the file, if the agent is still there.
Retry ==
    /\ errand.step = "retry"
    /\ errand' = IF Find(errand.agent) = 0 THEN Idle ELSE [errand EXCEPT !.step = "again"]
    /\ KeepPool /\ UNCHANGED posted

\* agent_post looks for the agent under the lock of the pool, and writes under
\* the one of the blackboard.
Look ==
    /\ errand.step = "post"
    /\ errand' = IF Find(errand.agent) = 0 THEN Idle ELSE [errand EXCEPT !.step = "put"]
    /\ KeepPool /\ UNCHANGED posted

Publish ==
    /\ errand.step = "put" /\ errand' = Idle
    /\ posted' = <<errand.agent, IF errand.file THEN "file" ELSE "text">>
    /\ KeepPool

\* h_agent_post: a client writes in the name of an agent.
Post(n) ==
    /\ Turn /\ Find(n) # 0
    /\ posted' = <<n, "note">>
    /\ KeepPool /\ UNCHANGED errand

Next ==
    \/ \E n \in Names, m \in Models \union {None} : AddAgent(n, m) \/ SetModel(n, m)
    \/ \E n \in Names : RemoveAgent(n) \/ Post(n) \/ Start("api", n) \/ Start("node", n)
    \/ \E file \in BOOLEAN : Answer(file)
    \/ Fail \/ Retry \/ Look \/ Publish \/ Restart

Spec == Init /\ [][Next]_poolVars
-----------------------------------------------------------------------------
\* Whatever the hash function, every search ends, finds the agent at its
\* place in the array if it is there and nothing if it is not, and no name
\* is registered twice.
IndexFinds ==
    /\ \A n \in Names : cap > 0 => Stops(n) # {}
    /\ \A n \in Names :
          IF n \in Range(agents) THEN Find(n) \in DOMAIN agents /\ agents[Find(n)] = n
          ELSE Find(n) = 0
    /\ \A i, j \in DOMAIN agents : agents[i] = agents[j] => i = j

\* "roster persists across restarts" (api_rest.c): what a restart would load is
\* what there is, with its models and in its order, unless the last write failed.
RosterKept == ~unkept => roster = Roster

\* A result of an expert's run names a file that was found valid.
FilesDelivered ==
    \A n \in Experts :
        /\ posted # <<n, "text">>
        /\ errand.agent = n /\ errand.step \in {"post", "put"} => errand.file

PoolSafe == IndexFinds /\ RosterKept /\ FilesDelivered
=============================================================================
