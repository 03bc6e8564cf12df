--------------------------- MODULE ServicesProofs ---------------------------
(***************************************************************************)
(* Each part of MCServices keeps its promises, with the others beside it,  *)
(* for any values of the constants.                                        *)
(***************************************************************************)
EXTENDS MCServices, Sequences, FiniteSetTheorems, WellFoundedInduction, TLAPS

\* What the others need of the natural numbers.
LEMMA LeastExists ==
    ASSUME NEW S \in SUBSET Nat, S # {} PROVE \E m \in S : \A k \in S : m <= k
<1>1. PICK m \in S : \A k \in S : <<k, m>> \notin OpToRel(<, Nat)
  BY WFMin, NatLessThanWellFounded, Zenon
<1>2. \A k \in S : ~(k < m)
  BY <1>1, Zenon DEF OpToRel
<1> QED BY <1>2

LEMMA LargestExists ==
    ASSUME NEW n \in Nat, NEW S, S # {}, \A k \in S : k \in 0..n
    PROVE  \E m \in S : \A k \in S : k <= m
<1> DEFINE T == {n - k : k \in S}
<1>1. T \in SUBSET Nat /\ T # {}
  <2>1. \A k \in S : n - k \in Nat
    OBVIOUS
  <2> QED BY <2>1
<1> HIDE DEF T
<1>2. PICK d \in T : \A e \in T : d <= e
  BY <1>1, LeastExists
<1>3. PICK m \in S : d = n - m
  BY DEF T
<1>4. \A k \in S : n - m <= n - k
  BY <1>2, <1>3 DEF T
<1> QED BY <1>4

-----------------------------------------------------------------------------
(* Cron *)

Jobs == [every : Nat, next : Nat, enabled : BOOLEAN, ran : Nat \cup {Cron!Never}]

\* What a job's next run waits for was not used up by its last run.
Spaced(j) ==
    j.next # 0 /\ j.ran # Cron!Never =>
        IF j.every > 0 THEN j.next >= j.ran + j.every
        ELSE \E d \in j.ran + 1 .. j.next : d % Day = DailyAt

\* A run lies in the past.
Kept(j, t) == j \in Jobs /\ (j.ran # Cron!Never => j.ran <= t) /\ Spaced(j)

\* Ids in use were given out, in the file too; the file knows the last runs; a
\* refused job has its next run.
CronInv ==
    /\ now \in Nat \ {0} /\ nextId \in Nat
    /\ jobs \in [DOMAIN jobs -> Jobs] /\ file \in [DOMAIN file -> Jobs]
    /\ DOMAIN jobs = DOMAIN file /\ DOMAIN jobs \subseteq 0..(nextId - 1)
    /\ \A id \in DOMAIN jobs : Kept(jobs[id], now) /\ Kept(file[id], now)
    /\ \A id \in DOMAIN jobs : file[id].ran = jobs[id].ran
    /\ missed \subseteq DOMAIN jobs
    /\ \A id \in missed : jobs[id].next # 0 /\ jobs[id].next <= now + Cron!Retry

\* There is a time of the day within a day.
LEMMA DayHasItsTime ==
    ASSUME NEW t \in Nat PROVE \E d \in t + 1 .. t + Day : d % Day = DailyAt
<1> USE CronAssumption
<1> DEFINE q == t \div Day  r == t % Day
<1>1. q \in Nat /\ r \in 0..(Day - 1) /\ t = Day * q + r
  OBVIOUS
<1>2. \A k \in Nat : (Day * k + DailyAt) % Day = DailyAt
  OBVIOUS
<1> HIDE DEF q, r
<1>3. CASE DailyAt > r
  <2>1. Day * q + DailyAt \in t + 1 .. t + Day
    BY <1>1, <1>3
  <2> QED BY <1>1, <1>2, <2>1
<1>4. CASE DailyAt <= r
  <2>1. Day * (q + 1) = Day * q + Day
    BY <1>1
  <2>2. Day * (q + 1) + DailyAt \in t + 1 .. t + Day
    BY <1>1, <1>4, <2>1
  <2>3. (Day * (q + 1) + DailyAt) % Day = DailyAt
    <3>1. q + 1 \in Nat
      BY <1>1
    <3> QED BY <1>2, <3>1
  <2> QED BY <2>2, <2>3
<1> QED BY <1>1, <1>3, <1>4

\* The next run lies ahead, and has a time of its own.
LEMMA NextIsAhead ==
    ASSUME NEW every \in Nat, NEW t \in Nat
    PROVE  LET n == Cron!JobScheduleNext(every, t)
           IN  /\ n \in Nat /\ n > t
               /\ IF every > 0 THEN n = t + every ELSE n \in t + 1 .. t + Day /\ n % Day = DailyAt
<1>1. CASE every > 0
  BY <1>1 DEF Cron!JobScheduleNext
<1>2. CASE every = 0
  <2>1. Cron!JobScheduleNext(every, t) = CHOOSE d \in t + 1 .. t + Day : d % Day = DailyAt
    BY <1>2 DEF Cron!JobScheduleNext, Cron!DailyNext
  <2>2. LET n == Cron!JobScheduleNext(every, t)
        IN  n \in t + 1 .. t + Day /\ n % Day = DailyAt
    BY <2>1, DayHasItsTime
  <2> QED BY <1>2, <2>2, CronAssumption
<1> QED BY <1>1, <1>2

\* What a tick makes of a job; "n" is the next run after now.
LEMMA ScheduledIsKept ==
    ASSUME CronInv, NEW j, Kept(j, now)
    PROVE  /\ Kept(Cron!First(j), now) /\ Cron!First(j).next # 0
           /\ Cron!First(j).ran = j.ran /\ Cron!First(j).every = j.every
           /\ Cron!Due(j) => /\ j.next # 0 /\ j.next <= now
                             /\ Kept(Cron!Refused(j), now) /\ Kept(Cron!Submitted(j), now)
                             /\ Cron!Refused(j).ran = j.ran /\ Cron!Submitted(j).ran = now
<1> DEFINE n == Cron!JobScheduleNext(j.every, now)
<1>1. /\ j \in Jobs /\ now \in Nat \ {0} /\ j.every \in Nat /\ j.next \in Nat
      /\ j.ran \in Nat \cup {Cron!Never} /\ (j.ran # Cron!Never => j.ran <= now)
  BY DEF Kept, CronInv, Jobs
<1>2. /\ n \in Nat /\ n > now
      /\ IF j.every > 0 THEN n = now + j.every ELSE n \in now + 1 .. now + Day /\ n % Day = DailyAt
  BY <1>1, NextIsAhead
<1> HIDE DEF n
<1>3. /\ Cron!First(j) \in Jobs /\ Cron!First(j).ran = j.ran /\ Cron!First(j).every = j.every
      /\ Cron!First(j).next = IF j.next = 0 THEN n ELSE j.next
  BY <1>1, <1>2 DEF Cron!First, Jobs, n
<1>4. j.ran # Cron!Never =>
         IF j.every > 0 THEN n >= j.ran + j.every
         ELSE \E d \in j.ran + 1 .. n : d % Day = DailyAt
  <2> SUFFICES ASSUME NEW t, t = j.ran, t # Cron!Never
               PROVE  IF j.every > 0 THEN n >= t + j.every
                      ELSE \E d \in t + 1 .. n : d % Day = DailyAt
    OBVIOUS
  <2>1. t \in Nat /\ t <= now
    BY <1>1
  <2>2. CASE j.every > 0
    BY <1>1, <1>2, <2>1, <2>2
  <2>3. CASE ~(j.every > 0)
    <3>1. n \in t + 1 .. n /\ n % Day = DailyAt
      BY <1>1, <1>2, <2>1, <2>3
    <3> QED BY <2>3, <3>1
  <2> QED BY <2>2, <2>3
<1>5. Kept(Cron!First(j), now) /\ Cron!First(j).next # 0
  BY <1>1, <1>2, <1>3, <1>4 DEF Kept, Spaced
<1>6. ASSUME Cron!Due(j)
      PROVE  /\ j.next # 0 /\ j.next <= now
             /\ Kept(Cron!Refused(j), now) /\ Kept(Cron!Submitted(j), now)
             /\ Cron!Refused(j).ran = j.ran /\ Cron!Submitted(j).ran = now
  <2>1. j.next # 0 /\ j.next <= now
    BY <1>1, <1>2, <1>3, <1>6 DEF Cron!Due
  <2>2. /\ Cron!Refused(j) \in Jobs /\ Cron!Refused(j).ran = j.ran
        /\ Cron!Refused(j).every = j.every /\ Cron!Refused(j).next = now + 1
    BY <1>1 DEF Cron!Refused, Cron!Retry, Jobs
  <2>3. Kept(Cron!Refused(j), now)
    BY <1>1, <2>1, <2>2 DEF Kept, Spaced
  <2>4. /\ Cron!Submitted(j) \in Jobs /\ Cron!Submitted(j).ran = now
        /\ Cron!Submitted(j).every = j.every /\ Cron!Submitted(j).next = n
    BY <1>1, <1>2 DEF Cron!Submitted, Jobs, n
  <2>5. Kept(Cron!Submitted(j), now)
    BY <1>1, <1>2, <2>4 DEF Kept, Spaced
  <2> QED BY <2>1, <2>2, <2>3, <2>4, <2>5
<1> QED BY <1>3, <1>5, <1>6

LEMMA CronStarts == Cron!Init => CronInv
BY DEF Cron!Init, CronInv

\* A file that is read again is that of the jobs, without their next runs.
LEMMA CronRestartStep == ASSUME CronInv, Cron!Restart PROVE CronInv' /\ Cron!OncePerOccurrence
<1>1. PICK written \in {file, <<>>} :
         /\ file' = written /\ jobs' = Cron!Load(written)
         /\ nextId' = IF DOMAIN written = {} THEN 0
                      ELSE 1 + CHOOSE m \in DOMAIN written : \A k \in DOMAIN written : k <= m
  BY DEF Cron!Restart
<1>2. now' = now /\ missed' = {} /\ now \in Nat \ {0} /\ nextId \in Nat
  BY DEF Cron!Restart, CronInv
<1>3. /\ written \in [DOMAIN written -> Jobs] /\ DOMAIN written \subseteq 0..(nextId - 1)
      /\ \A id \in DOMAIN written : Kept(written[id], now)
  <2>1. CASE written = file
    BY <2>1 DEF CronInv
  <2>2. CASE written = <<>>
    <3>1. DOMAIN written = {}
      BY <2>2
    <3>2. written = [x \in {} |-> x]
      BY <2>2
    <3> QED BY <3>1, <3>2
  <2> QED BY <1>1, <2>1, <2>2
<1>4. /\ jobs' = [id \in DOMAIN written |-> jobs'[id]] /\ DOMAIN jobs' = DOMAIN written
      /\ \A id \in DOMAIN written :
            /\ jobs'[id] \in Jobs /\ jobs'[id].next = 0
            /\ jobs'[id].ran = written[id].ran
  BY <1>1, <1>3 DEF Cron!Load, Jobs
<1>5. \A id \in DOMAIN written : Kept(jobs'[id], now)
  BY <1>3, <1>4 DEF Kept, Spaced
<1>6. nextId' \in Nat /\ DOMAIN written \subseteq 0..(nextId' - 1)
  <2>1. CASE DOMAIN written = {}
    BY <1>1, <2>1
  <2>2. CASE DOMAIN written # {}
    <3> DEFINE D == DOMAIN written
    <3>1. D \subseteq Nat /\ \A k \in D : k \in 0..nextId
      BY <1>2, <1>3
    <3>2. PICK m \in D : \A k \in D : k <= m
      BY <1>2, <2>2, <3>1, LargestExists
    <3> QED BY <1>1, <2>2, <3>1, <3>2
  <2> QED BY <2>1, <2>2
<1>7. CronInv'
  BY <1>1, <1>2, <1>3, <1>4, <1>5, <1>6 DEF CronInv
<1>8. \A id \in DOMAIN jobs \cap DOMAIN jobs' : jobs'[id].ran = jobs[id].ran
  <2>1. CASE written = file
    BY <1>4, <2>1 DEF CronInv
  <2>2. CASE written = <<>>
    BY <1>4, <2>2
  <2> QED BY <1>1, <2>1, <2>2
<1>9. \A id \in DOMAIN jobs : jobs[id].ran \in Int
  BY DEF CronInv, Jobs, Cron!Never
<1> QED BY <1>7, <1>8, <1>9 DEF Cron!OncePerOccurrence

\* The other operations write the jobs to the file.
LEMMA StoredIsKept ==
    ASSUME NEW js, Cron!Store(js), DOMAIN js \subseteq 0..(nextId' - 1),
           js = [id \in DOMAIN js |-> js[id]], now' \in Nat \ {0}, nextId' \in Nat,
           \A id \in DOMAIN js : Kept(js[id], now'),
           missed' \subseteq DOMAIN js,
           \A id \in missed' : js[id].next # 0 /\ js[id].next <= now' + Cron!Retry
    PROVE  CronInv'
<1>1. jobs' = js /\ file' = js
  BY DEF Cron!Store
<1>2. js \in [DOMAIN js -> Jobs]
  BY DEF Kept
<1> QED BY <1>1, <1>2 DEF CronInv

\* Time passes for all of them.
LEMMA CronClockStep == ASSUME CronInv, Cron!Clock PROVE CronInv' /\ Cron!OncePerOccurrence
<1>1. now' = now + 1 /\ UNCHANGED <<jobs, file, nextId, missed>>
  BY DEF Cron!Clock
<1>2. now \in Nat \ {0} /\ \A id \in DOMAIN jobs : jobs[id] \in Jobs /\ file[id] \in Jobs
  BY DEF CronInv
<1>3. \A j : Kept(j, now) => Kept(j, now')
  BY <1>1, <1>2 DEF Kept, Jobs, Cron!Never
<1>4. \A id \in missed : jobs[id].next <= now' + Cron!Retry
  BY <1>1, <1>2 DEF CronInv, Cron!Retry, Jobs
<1>5. CronInv'
  BY <1>1, <1>2, <1>3, <1>4 DEF CronInv
<1>6. \A id \in DOMAIN jobs : jobs'[id].ran = jobs[id].ran /\ jobs[id].ran \in Int
  BY <1>1, <1>2 DEF Jobs, Cron!Never
<1> QED BY <1>5, <1>6 DEF Cron!OncePerOccurrence

LEMMA CronAddStep ==
    ASSUME CronInv, NEW every \in Intervals, Cron!Add(every)
    PROVE  CronInv' /\ Cron!OncePerOccurrence
<1> DEFINE new == [every |-> every, next |-> 0, enabled |-> TRUE, ran |-> Cron!Never]
           js == Cron!Put(jobs, nextId, new)
<1>1. Cron!Store(js) /\ nextId' = nextId + 1 /\ now' = now /\ missed' = missed
  BY DEF Cron!Add
<1>2. /\ now \in Nat \ {0} /\ nextId \in Nat
      /\ DOMAIN jobs \subseteq 0..(nextId - 1) /\ missed \subseteq DOMAIN jobs
      /\ \A id \in DOMAIN jobs : Kept(jobs[id], now)
      /\ \A id \in missed : jobs[id].next # 0 /\ jobs[id].next <= now + Cron!Retry
  BY DEF CronInv
<1>3. Kept(new, now) /\ nextId \notin DOMAIN jobs
  BY <1>2, CronAssumption DEF Kept, Spaced, Jobs, Cron!Never
<1> HIDE DEF new
<1>4. /\ DOMAIN js = DOMAIN jobs \cup {nextId} /\ js = [id \in DOMAIN js |-> js[id]]
      /\ js[nextId] = new /\ \A id \in DOMAIN jobs : js[id] = jobs[id]
  BY <1>3 DEF Cron!Put
<1> HIDE DEF js
<1>5. DOMAIN js \subseteq 0..(nextId' - 1)
  BY <1>1, <1>2, <1>4
<1>6. CronInv'
  BY <1>1, <1>2, <1>3, <1>4, <1>5, StoredIsKept
<1>7. \A id \in DOMAIN jobs : jobs'[id].ran = jobs[id].ran /\ jobs[id].ran \in Int
  BY <1>1, <1>2, <1>4 DEF Cron!Store, Kept, Jobs, Cron!Never
<1> QED BY <1>6, <1>7 DEF Cron!OncePerOccurrence

LEMMA CronRemoveStep ==
    ASSUME CronInv, NEW id \in DOMAIN jobs, Cron!Remove(id)
    PROVE  CronInv' /\ Cron!OncePerOccurrence
<1> DEFINE js == Cron!Drop(jobs, id)
<1>1. Cron!Store(js) /\ nextId' = nextId /\ now' = now /\ missed' = missed \ {id}
  BY DEF Cron!Remove
<1>2. /\ now \in Nat \ {0} /\ nextId \in Nat
      /\ DOMAIN jobs \subseteq 0..(nextId - 1) /\ missed \subseteq DOMAIN jobs
      /\ \A k \in DOMAIN jobs : Kept(jobs[k], now)
      /\ \A k \in missed : jobs[k].next # 0 /\ jobs[k].next <= now + Cron!Retry
  BY DEF CronInv
<1>3. /\ DOMAIN js = DOMAIN jobs \ {id} /\ js = [k \in DOMAIN js |-> js[k]]
      /\ \A k \in DOMAIN js : js[k] = jobs[k]
  BY DEF Cron!Drop
<1> HIDE DEF js
<1>4. CronInv'
  BY <1>1, <1>2, <1>3, StoredIsKept
<1>5. \A k \in DOMAIN jobs \cap DOMAIN jobs' : jobs'[k].ran = jobs[k].ran /\ jobs[k].ran \in Int
  BY <1>1, <1>2, <1>3 DEF Cron!Store, Kept, Jobs, Cron!Never
<1> QED BY <1>4, <1>5 DEF Cron!OncePerOccurrence

LEMMA CronSetEnabledStep ==
    ASSUME CronInv, NEW id \in DOMAIN jobs, Cron!SetEnabled(id)
    PROVE  CronInv' /\ Cron!OncePerOccurrence
<1> DEFINE js == [jobs EXCEPT ![id].enabled = ~@]
<1>1. Cron!Store(js) /\ nextId' = nextId /\ now' = now /\ missed' = missed
  BY DEF Cron!SetEnabled
<1>2. /\ now \in Nat \ {0} /\ nextId \in Nat /\ jobs \in [DOMAIN jobs -> Jobs]
      /\ DOMAIN jobs \subseteq 0..(nextId - 1) /\ missed \subseteq DOMAIN jobs
      /\ \A k \in DOMAIN jobs : Kept(jobs[k], now)
      /\ \A k \in missed : jobs[k].next # 0 /\ jobs[k].next <= now + Cron!Retry
  BY DEF CronInv
<1>3. /\ DOMAIN js = DOMAIN jobs /\ js = [k \in DOMAIN js |-> js[k]]
      /\ \A k \in DOMAIN js :
            /\ js[k] \in Jobs
            /\ js[k].every = jobs[k].every /\ js[k].next = jobs[k].next /\ js[k].ran = jobs[k].ran
  BY <1>2 DEF Jobs
<1> HIDE DEF js
<1>4. \A k \in DOMAIN js : Kept(js[k], now)
  BY <1>2, <1>3 DEF Kept, Spaced
<1>5. CronInv'
  BY <1>1, <1>2, <1>3, <1>4, StoredIsKept
<1>6. \A k \in DOMAIN jobs : jobs'[k].ran = jobs[k].ran /\ jobs[k].ran \in Int
  BY <1>1, <1>2, <1>3 DEF Cron!Store, Kept, Jobs, Cron!Never
<1> QED BY <1>5, <1>6 DEF Cron!OncePerOccurrence

\* A job that is submitted had its next run before now, and that is apart
\* from its last one; a refused one is due again after the shortest retry.
LEMMA CronTickStep == ASSUME CronInv, Cron!Tick PROVE CronInv' /\ Cron!OncePerOccurrence
<1> DEFINE due == {id \in DOMAIN jobs : Cron!Due(jobs[id])}
<1>1. /\ now \in Nat \ {0} /\ nextId \in Nat
      /\ DOMAIN jobs \subseteq 0..(nextId - 1) /\ missed \subseteq DOMAIN jobs
      /\ \A k \in DOMAIN jobs : Kept(jobs[k], now) /\ jobs[k] \in Jobs
      /\ \A k \in missed : jobs[k].next # 0 /\ jobs[k].next <= now + Cron!Retry
  BY DEF CronInv, Kept
<1>2. PICK refused \in SUBSET due :
         /\ Cron!Store([id \in DOMAIN jobs |->
                          IF id \in refused THEN Cron!Refused(jobs[id])
                          ELSE IF id \in due THEN Cron!Submitted(jobs[id])
                          ELSE IF jobs[id].enabled THEN Cron!First(jobs[id])
                          ELSE jobs[id]])
         /\ missed' = (missed \ due) \cup refused
  BY DEF Cron!Tick
<1>3. now' = now /\ nextId' = nextId
  BY DEF Cron!Tick
<1> DEFINE js == [id \in DOMAIN jobs |->
                     IF id \in refused THEN Cron!Refused(jobs[id])
                     ELSE IF id \in due THEN Cron!Submitted(jobs[id])
                     ELSE IF jobs[id].enabled THEN Cron!First(jobs[id])
                     ELSE jobs[id]]
<1>4. DOMAIN js = DOMAIN jobs /\ js = [id \in DOMAIN js |-> js[id]] /\ Cron!Store(js)
  BY <1>2
<1>5. ASSUME NEW id \in DOMAIN jobs
      PROVE  /\ id \in refused => js[id] = Cron!Refused(jobs[id])
             /\ id \in due \ refused => js[id] = Cron!Submitted(jobs[id])
             /\ id \notin due => js[id] \in {Cron!First(jobs[id]), jobs[id]}
             /\ id \in due => Cron!Due(jobs[id])
  BY <1>2
<1> HIDE DEF js, due
<1>6. \A id \in DOMAIN jobs : Kept(js[id], now)
  <2> TAKE id \in DOMAIN jobs
  <2> DEFINE j == jobs[id]
  <2>1. Kept(j, now)
    BY <1>1
  <2> HIDE DEF j
  <2>2. /\ Kept(Cron!First(j), now)
        /\ Cron!Due(j) => Kept(Cron!Refused(j), now) /\ Kept(Cron!Submitted(j), now)
    BY <2>1, ScheduledIsKept
  <2> QED BY <1>2, <1>5, <2>1, <2>2 DEF j
<1>7. \A id \in missed' : js[id].next # 0 /\ js[id].next <= now + Cron!Retry
  <2> TAKE id \in missed'
  <2>1. CASE id \in refused
    <3>1. id \in DOMAIN jobs
      BY <1>2, <2>1 DEF due
    <3>2. js[id].next = now + Cron!Retry
      BY <1>1, <1>5, <2>1, <3>1 DEF Cron!Refused, Jobs
    <3> QED BY <1>1, <3>2 DEF Cron!Retry
  <2>2. CASE id \in missed \ due
    <3>1. Cron!First(jobs[id]) = jobs[id]
      BY <1>1, <2>2 DEF Cron!First
    <3> QED BY <1>1, <1>5, <2>2, <3>1
  <2> QED BY <1>2, <2>1, <2>2
<1>8. missed' \subseteq DOMAIN js
  BY <1>1, <1>2, <1>4 DEF due
<1>9. CronInv'
  BY <1>1, <1>3, <1>4, <1>6, <1>7, <1>8, StoredIsKept
<1>10. Cron!OncePerOccurrence
  <2> SUFFICES ASSUME NEW id \in DOMAIN jobs, NEW r, NEW s,
                      r = jobs[id].ran, s = js[id].ran, r # Cron!Never, s > r
               PROVE  IF jobs[id].every > 0 THEN s >= r + jobs[id].every
                      ELSE \E d \in r + 1 .. s : d % Day = DailyAt
    BY <1>4 DEF Cron!OncePerOccurrence, Cron!Store
  <2> DEFINE j == jobs[id]
  <2>1. /\ Kept(j, now) /\ j.ran \in Nat \cup {Cron!Never} /\ j.every \in Nat /\ j.next \in Nat
    BY <1>1 DEF Jobs
  <2>2. /\ Cron!First(j).ran = j.ran
        /\ Cron!Due(j) => /\ j.next # 0 /\ j.next <= now
                          /\ Cron!Refused(j).ran = j.ran /\ Cron!Submitted(j).ran = now
    BY <2>1, ScheduledIsKept
  <2>3. id \in due \ refused
    BY <1>2, <1>5, <2>1, <2>2 DEF Cron!Never
  <2>4. s = now /\ j.next # 0 /\ j.next <= now
    BY <1>5, <2>2, <2>3
  <2>5. Spaced(j)
    BY <2>1 DEF Kept
  <2> QED BY <1>1, <2>1, <2>4, <2>5 DEF Spaced, Cron!Never
<1> QED BY <1>9, <1>10

LEMMA CronStep ==
    CronInv /\ [Cron!Next]_(Cron!cronVars) => CronInv' /\ (Cron!OncePerOccurrence \/ UNCHANGED Cron!cronVars)
<1> SUFFICES ASSUME CronInv, [Cron!Next]_(Cron!cronVars)
             PROVE  CronInv' /\ (Cron!OncePerOccurrence \/ UNCHANGED Cron!cronVars)
  OBVIOUS
<1>1. CASE UNCHANGED Cron!cronVars
  BY <1>1 DEF Cron!cronVars, CronInv
<1>2. CASE Cron!Next
  BY <1>2, CronClockStep, CronTickStep, CronRestartStep, CronAddStep, CronRemoveStep,
     CronSetEnabledStep DEF Cron!Next
<1> QED BY <1>1, <1>2

\* Only Cron's own steps touch its state.
LEMMA CronAlone == Init => CronInv
BY CronStarts DEF Init

LEMMA OthersLeaveCron == [Next]_vars => [Cron!Next]_(Cron!cronVars)
BY DEF Next, vars, cronVars, Cron!cronVars

\* The runs of a job are an interval apart, or a due time lies between them,
\* through refusals, changes, failing writes and restarts, and a job that the
\* scheduler refused is due again after the shortest retry (cron_tick,
\* cron_load).
THEOREM CronIsOnTime == Spec => CronKeepsTime
<1>1. CronInv /\ [Next]_vars => CronInv' /\ [Cron!OncePerOccurrence /\ Cron!RefusedStaysDue']_(Cron!cronVars)
  <2> SUFFICES ASSUME CronInv, [Next]_vars
               PROVE  CronInv' /\ [Cron!OncePerOccurrence /\ Cron!RefusedStaysDue']_(Cron!cronVars)
    OBVIOUS
  <2>1. CronInv' /\ (Cron!OncePerOccurrence \/ UNCHANGED Cron!cronVars)
    BY OthersLeaveCron, CronStep
  <2>2. Cron!RefusedStaysDue'
    BY <2>1 DEF CronInv, Cron!RefusedStaysDue
  <2> QED BY <2>1, <2>2
<1>2. Init => CronInv
  BY CronAlone
<1> QED BY <1>1, <1>2, PTL DEF Spec, CronKeepsTime, Cron!CronKeepsTime

-----------------------------------------------------------------------------
(* Rooms *)

LEMMA RoomCounts == ASSUME NEW S PROVE Room!Cardinality(S) = Cardinality(S)
BY DEF Room!Cardinality, Cardinality

Stages == {"none", "sent", "marking", "queued", "locking", "locked", "asking", "thinking",
           "publishing", "leaving", "over"}

Talks == [room : Rooms \cup {0}, place : Stages, seen : Int, cancel : BOOLEAN,
          failed : BOOLEAN, pass : Int, speaker : Room!Speakers, votes : Nat,
          agree : BOOLEAN, status : {"none", "cancelled", "failed", "done"},
          agreed : SUBSET Room!Speakers]

Entries == [id : Nat, by : {Room!User} \cup {Members[i] : i \in Room!Speakers}, to : Int]

Slots == {Room!Slot(r) : r \in Rooms}

RoomTypes ==
    /\ nextMessage \in Nat
    /\ log \in [Rooms -> Seq(Entries)] /\ gone \in SUBSET Rooms
    /\ talk \in [Room!Messages -> Talks] /\ speaking \in [Slots -> Int]

\* The numbers are given out one after the other.
Numbered ==
    /\ nextMessage >= Room!FirstMessage
    /\ \A r \in Rooms : \A i \in DOMAIN log[r] : log[r][i].id < nextMessage
    /\ \A m \in Room!Messages : talk[m].place = "none" => talk[m] = Room!NewTalk
    /\ \A m \in Room!Messages : m >= nextMessage => talk[m].place = "none"

\* The room of a discussion has its message, or a later one.
Said(m) ==
    /\ talk[m].room \in Rooms
    /\ talk[m].room \in gone \/ Room!Latest(talk[m].room) >= m

\* A discussion cancelled by nobody has a newer message in its room.
Overdue(m) ==
    talk[m].cancel /\ m \notin stopped =>
        talk[m].room \in gone \/ Room!Latest(talk[m].room) > m

Complete(t) == t.pass = Rounds \/ t.agreed = Room!Speakers

\* The votes are those of the seats that had their turn in this round.
Voting(t) ==
    /\ t.place \notin {"leaving", "over"} =>
          /\ t.votes = Cardinality(t.agreed) /\ t.status = "none"
          /\ \A i \in t.agreed : IF t.place = "publishing" THEN i <= t.speaker ELSE i < t.speaker
    /\ t.place = "leaving" =>
          t.status = "none" /\ (~t.cancel /\ ~t.failed => Complete(t))
    /\ t.status = "done" => Complete(t)

RoomInv ==
    /\ RoomTypes /\ Numbered
    /\ \A m \in Room!Messages : talk[m].place # "none" => Said(m)
    /\ \A m \in Room!Messages : Voting(talk[m])
    /\ Room!RepliesFit /\ Room!OvertakenOnly

LEMMA RoomInvIsEnough == RoomInv => Room!RoomsSafe
<1> SUFFICES ASSUME RoomInv PROVE Room!RoomsSafe
  OBVIOUS
<1>1. Room!EndsTogether
  BY DEF RoomInv, Voting, Complete, Room!EndsTogether
<1> QED BY <1>1 DEF RoomInv, Room!RoomsSafe

LEMMA MembersSpeak ==
    /\ 1 \in Room!Speakers /\ Room!Speakers \in SUBSET (1 .. 3)
    /\ \A i \in Room!Speakers : Members[i] # Room!User
    /\ IsFiniteSet(Room!Speakers)
<1>1. DOMAIN Members = 1 .. 3
  BY DEF Members
<1>2. Members[1] = "ann" /\ Members[2] = "bob" /\ Members[3] = "ann"
  BY DEF Members
<1>3. \A i \in 1 .. 3 : i = 1 \/ i = 2 \/ i = 3
  OBVIOUS
<1>4. 1 \in Room!Speakers /\ Room!Speakers \in SUBSET (1 .. 3)
  BY <1>1 DEF Room!Speakers
<1>5. \A i \in Room!Speakers : Members[i] # Room!User
  BY <1>2, <1>3, <1>4 DEF Room!User
<1>6. IsFiniteSet(1 .. 3)
  BY FS_Interval, 1 \in Int, 3 \in Int
<1>7. IsFiniteSet(Room!Speakers)
  BY <1>4, <1>6, FS_Subset
<1> QED BY <1>4, <1>5, <1>7

LEMMA MessagesArePositive ==
    /\ Room!FirstMessage \in Nat \ {0}
    /\ \A m \in Room!Messages : m \in Nat \ {0} /\ m <= LastMessage
<1>1. \E r \in Rooms : \A s \in Rooms : s <= r
  BY RoomAssumption
<1>2. (CHOOSE r \in Rooms : \A s \in Rooms : s <= r) \in Nat
  BY <1>1, RoomAssumption
<1>3. Room!FirstMessage \in Nat \ {0}
  BY <1>2 DEF Room!FirstMessage
<1> QED BY <1>3, RoomAssumption DEF Room!Messages

LEMMA RoomStarts == Room!Init => RoomInv
<1> SUFFICES ASSUME Room!Init PROVE RoomInv
  OBVIOUS
<1>1. Room!NewTalk \in Talks
  BY MembersSpeak DEF Room!NewTalk, Talks, Stages, Room!NoTalk
<1>2. RoomTypes
  BY <1>1, MessagesArePositive DEF Room!Init, RoomTypes, Room!NoTalk, Slots
<1>3. Numbered
  BY MessagesArePositive DEF Room!Init, Numbered, Room!NewTalk
<1>4. \A m \in Room!Messages : talk[m].place = "none" /\ Voting(talk[m]) /\ ~talk[m].cancel
  BY FS_EmptySet DEF Room!Init, Room!NewTalk, Voting
<1>5. Room!RepliesFit /\ Room!OvertakenOnly
  BY <1>4 DEF Room!Init, Room!RepliesFit, Room!OvertakenOnly
<1> QED BY <1>2, <1>3, <1>4, <1>5 DEF RoomInv

\* The last of some places in a log.
LEMMA LastExists ==
    ASSUME NEW n \in Nat, NEW S \in SUBSET (1 .. n), S # {}
    PROVE  LET k == CHOOSE i \in S : \A j \in S : j <= i
           IN  k \in S /\ \A j \in S : j <= k
<1>1. \A j \in S : j \in 0 .. n
  OBVIOUS
<1>2. \E i \in S : \A j \in S : j <= i
  BY <1>1, LargestExists
<1> QED BY <1>2

\* The latest message of a room was said there.
LEMMA LatestIsSaid ==
    ASSUME RoomTypes, NEW r \in Rooms
    PROVE  /\ Room!Seen(r) = {} => Room!Latest(r) = 0
           /\ Room!Seen(r) # {} =>
                 LET k == CHOOSE i \in Room!Seen(r) : \A j \in Room!Seen(r) : j <= i
                 IN  /\ k \in Room!Seen(r) /\ \A j \in Room!Seen(r) : j <= k
                     /\ Room!Latest(r) = log[r][k].id
           /\ Room!Latest(r) \in Nat
<1>1. log[r] \in Seq(Entries)
  BY DEF RoomTypes
<1>2. Len(log[r]) \in Nat /\ Room!Seen(r) \in SUBSET (1 .. Len(log[r]))
  BY <1>1 DEF Room!Seen
<1>3. CASE Room!Seen(r) = {}
  BY <1>3 DEF Room!Latest
<1>4. CASE Room!Seen(r) # {}
  <2> DEFINE k == CHOOSE i \in Room!Seen(r) : \A j \in Room!Seen(r) : j <= i
  <2>1. k \in Room!Seen(r) /\ \A j \in Room!Seen(r) : j <= k
    BY <1>2, <1>4, LastExists
  <2>2. Room!Latest(r) = log[r][k].id
    BY <1>4 DEF Room!Latest
  <2> HIDE DEF k
  <2>3. k \in 1 .. Len(log[r])
    BY <1>2, <2>1
  <2>4. log[r][k].id \in Nat
    <3>1. log[r][k] \in Entries
      BY <1>1, <2>3
    <3> QED BY <3>1 DEF Entries
  <2> QED BY <1>4, <2>1, <2>2, <2>4 DEF k
<1> QED BY <1>3, <1>4

LEMMA LatestStays ==
    ASSUME NEW q, log'[q] = log[q]
    PROVE  Room!Seen(q)' = Room!Seen(q) /\ Room!Latest(q)' = Room!Latest(q)
<1> DEFINE K(S) == CHOOSE i \in S : \A j \in S : j <= i
<1>1. Room!Seen(q)' = Room!Seen(q)
  BY DEF Room!Seen
<1>2. Room!Latest(q) = IF Room!Seen(q) = {} THEN 0 ELSE log[q][K(Room!Seen(q))].id
  BY DEF Room!Latest
<1>3. Room!Latest(q)' = IF Room!Seen(q)' = {} THEN 0 ELSE log'[q][K(Room!Seen(q)')].id
  BY DEF Room!Latest
<1> HIDE DEF K
<1> QED BY <1>1, <1>2, <1>3

\* A discussion goes on, while the logs stay.
LEMMA TalkStep ==
    ASSUME RoomInv, NEW m \in Room!Messages, NEW t \in Talks,
           talk' = [talk EXCEPT ![m] = t], t.room = talk[m].room,
           talk[m].place # "none", t.place # "none", Voting(t),
           t.cancel => talk[m].cancel \/ m \in stopped' \/ Room!Overtaken(m),
           stopped \subseteq stopped',
           UNCHANGED <<nextMessage, log, gone>>, speaking' \in [Slots -> Int]
    PROVE  RoomInv'
<1>1. /\ talk \in [Room!Messages -> Talks] /\ talk'[m] = t
      /\ \A o \in Room!Messages \ {m} : talk'[o] = talk[o]
  BY DEF RoomInv, RoomTypes
<1>2. RoomTypes'
  BY <1>1 DEF RoomInv, RoomTypes
<1>3. Numbered'
  BY <1>1 DEF RoomInv, Numbered
<1>4. \A r : Room!Latest(r)' = Room!Latest(r)
  BY DEF Room!Latest, Room!Seen
<1>5. \A o \in Room!Messages : talk'[o].room = talk[o].room
  BY <1>1
<1>6. \A o \in Room!Messages : talk'[o].place # "none" => Said(o)'
  BY <1>1, <1>4, <1>5 DEF RoomInv, Said
<1>7. \A o \in Room!Messages : Voting(talk'[o])
  BY <1>1 DEF RoomInv
<1>8. Room!RepliesFit'
  <2>1. \A r : Room!Seen(r)' = Room!Seen(r)
    BY DEF Room!Seen
  <2>2. Room!RepliesFit
    BY DEF RoomInv
  <2> QED BY <2>1, <2>2, Zenon DEF Room!RepliesFit
<1>9. Room!OvertakenOnly'
  <2>1. ASSUME NEW o \in Room!Messages, talk'[o].cancel, o \notin stopped'
        PROVE  talk'[o].room \in gone \/ Room!Latest(talk'[o].room) > o
    <3>1. CASE talk[o].cancel
      BY <1>5, <2>1, <3>1 DEF RoomInv, Room!OvertakenOnly
    <3>2. CASE ~talk[o].cancel
      <4>1. o = m /\ Room!Overtaken(m)
        BY <1>1, <2>1, <3>2
      <4>2. talk[m].room \in gone \/ Room!Latest(talk[m].room) >= m
        BY DEF RoomInv, Said
      <4>3. CASE talk[m].room \in gone
        BY <1>5, <4>1, <4>3
      <4>4. CASE talk[m].room \notin gone
        <5>1. Room!Latest(talk[m].room) # m /\ Room!Latest(talk[m].room) >= m
          BY <4>1, <4>2, <4>4 DEF Room!Overtaken
        <5>2. Room!Latest(talk[m].room) \in Nat /\ m \in Nat
          BY LatestIsSaid, MessagesArePositive DEF RoomInv, Said
        <5> QED BY <1>5, <4>1, <5>1, <5>2
      <4> QED BY <4>3, <4>4
    <3> QED BY <3>1, <3>2
  <2> QED BY <1>4, <2>1 DEF Room!OvertakenOnly
<1> QED BY <1>2, <1>3, <1>6, <1>7, <1>8, <1>9 DEF RoomInv

\* The next seat has its turn, or the votes of a whole round are counted.
LEMMA NextSpeakerVotes ==
    ASSUME NEW t \in Talks, Voting(t), t.place = "publishing", ~t.cancel
    PROVE  LET u == Room!NextSpeaker(t)
           IN  /\ u \in Talks /\ Voting(u) /\ u.place \in {"asking", "leaving"}
               /\ u.room = t.room /\ ~u.cancel
<1> DEFINE later == {i \in Room!Speakers : i > t.speaker}
           u == Room!NextSpeaker(t)
<1>1. /\ t.votes = Cardinality(t.agreed) /\ t.status = "none" /\ t.speaker \in Nat
      /\ t.agreed \in SUBSET Room!Speakers /\ \A i \in t.agreed : i <= t.speaker /\ i \in Nat
      /\ t.pass \in Int
  <2>1. t.speaker \in Room!Speakers /\ t.agreed \in SUBSET Room!Speakers /\ t.pass \in Int
    BY DEF Talks
  <2>2. \A i \in Room!Speakers : i \in Nat
    BY MembersSpeak
  <2> QED BY <2>1, <2>2 DEF Voting
<1>2. CASE later # {}
  <2> DEFINE s == CHOOSE i \in later : \A j \in later : i <= j
  <2>1. \E i \in later : \A j \in later : i <= j
    <3>1. later \in SUBSET Nat
      <4>1. \A i \in Room!Speakers : i \in Nat
        BY MembersSpeak
      <4> QED BY <4>1
    <3> QED BY <1>2, <3>1, LeastExists
  <2>2. s \in Room!Speakers /\ s > t.speaker
    BY <2>1
  <2>3. u = [t EXCEPT !.speaker = s, !.place = "asking"]
    BY <1>2 DEF Room!NextSpeaker
  <2> HIDE DEF s, u
  <2>4. /\ u \in Talks /\ u.speaker = s /\ u.place = "asking" /\ u.room = t.room
        /\ u.cancel = t.cancel /\ u.votes = t.votes /\ u.agreed = t.agreed /\ u.status = t.status
    BY <2>2, <2>3 DEF Talks, Stages
  <2>5. \A i \in t.agreed : i < s
    BY <1>1, <2>2, MembersSpeak
  <2> QED BY <1>1, <2>4, <2>5 DEF Voting, u
<1>3. CASE later = {} /\ (t.votes = Cardinality(Room!Speakers) \/ t.pass = Rounds)
  <2>1. u = [t EXCEPT !.place = "leaving"]
    BY <1>3, RoomCounts DEF Room!NextSpeaker
  <2> HIDE DEF u
  <2>2. /\ u \in Talks /\ u.place = "leaving" /\ u.room = t.room /\ u.cancel = t.cancel
        /\ u.agreed = t.agreed /\ u.pass = t.pass /\ u.status = t.status
    BY <2>1 DEF Talks, Stages
  <2>3. t.pass = Rounds \/ t.agreed = Room!Speakers
    BY <1>1, <1>3, MembersSpeak, FS_Subset
  <2>4. Complete(u)
    BY <2>2, <2>3 DEF Complete
  <2> QED BY <1>1, <2>2, <2>4 DEF Voting, u
<1>4. CASE later = {} /\ ~(t.votes = Cardinality(Room!Speakers) \/ t.pass = Rounds)
  <2>1. u = [t EXCEPT !.pass = @ + 1, !.speaker = 1, !.votes = 0, !.agreed = {}, !.place = "asking"]
    BY <1>4, RoomCounts DEF Room!NextSpeaker
  <2> HIDE DEF u
  <2>2. /\ u \in Talks /\ u.place = "asking" /\ u.room = t.room /\ u.cancel = t.cancel
        /\ u.agreed = {} /\ u.votes = 0 /\ u.status = t.status
    <3> DEFINE n == t.pass + 1
    <3>1. n \in Int /\ 1 \in Room!Speakers /\ {} \in SUBSET Room!Speakers /\ "asking" \in Stages
      BY <1>1, MembersSpeak DEF Stages
    <3>2. u = [t EXCEPT !.pass = n, !.speaker = 1, !.votes = 0, !.agreed = {}, !.place = "asking"]
      BY <2>1
    <3> HIDE DEF n
    <3>3. u = [room |-> t.room, place |-> "asking", seen |-> t.seen, cancel |-> t.cancel,
               failed |-> t.failed, pass |-> n, speaker |-> 1, votes |-> 0,
               agree |-> t.agree, status |-> t.status, agreed |-> {}]
      BY <3>2 DEF Talks
    <3>4. /\ t.room \in Rooms \cup {0} /\ t.seen \in Int /\ t.cancel \in BOOLEAN
          /\ t.failed \in BOOLEAN /\ t.agree \in BOOLEAN
          /\ t.status \in {"none", "cancelled", "failed", "done"}
      BY DEF Talks
    <3> QED BY <3>1, <3>3, <3>4 DEF Talks
  <2> QED BY <1>1, <2>2, FS_EmptySet DEF Voting, u
<1> QED BY <1>2, <1>3, <1>4

LEMMA GivenUpVotes ==
    ASSUME NEW u \in Talks, u.place \in {"leaving", "over"}, u.status # "done",
           u.place = "leaving" => u.status = "none" /\ (u.cancel \/ u.failed)
    PROVE  Voting(u)
BY DEF Voting

\* A step of one discussion that leaves the logs alone.
LEMMA QuietStep ==
    ASSUME RoomInv, NEW m \in Room!Messages,
           \/ Room!ReadSlot(m) \/ Room!NothingToDispatch(m) \/ Room!Stop(m) \/ Room!Start(m)
           \/ Room!Lock(m) \/ Room!GiveUp(m) \/ Room!Enter(m)
    PROVE  RoomInv'
<1> DEFINE o == talk[m]
<1>1. o \in Talks /\ Voting(o) /\ talk \in [Room!Messages -> Talks]
      /\ speaking \in [Slots -> Int] /\ m \in Int
  BY MessagesArePositive DEF RoomInv, RoomTypes
<1>2. CASE Room!ReadSlot(m)
  <2> DEFINE t == [Room!To(m, "marking") EXCEPT !.seen = speaking[Room!Slot(talk[m].room)]]
  <2>1. o.place = "sent" /\ speaking[Room!Slot(o.room)] \in Int
    <3>1. o.place = "sent"
      BY <1>2 DEF Room!ReadSlot, Room!At
    <3>2. o.room \in Rooms
      BY <3>1 DEF RoomInv, Said
    <3> QED BY <1>1, <3>1, <3>2 DEF Slots
  <2>2. /\ t \in Talks /\ t.room = o.room /\ t.cancel = o.cancel
        /\ t.place = "marking" /\ t.status = o.status /\ t.votes = o.votes
        /\ t.agreed = o.agreed /\ t.speaker = o.speaker
    BY <1>1, <2>1 DEF Room!To, Talks, Stages
  <2>3. Voting(t)
    BY <1>1, <2>1, <2>2 DEF Voting
  <2> QED BY <1>1, <1>2, <2>1, <2>2, <2>3, TalkStep DEF Room!ReadSlot, Room!Go
<1>3. CASE Room!NothingToDispatch(m)
  <2> DEFINE t == Room!To(m, "over")
  <2>1. o.place = "sent" /\ t \in Talks /\ t.room = o.room /\ t.cancel = o.cancel
        /\ t.place = "over" /\ t.status = o.status
    BY <1>1, <1>3 DEF Room!NothingToDispatch, Room!At, Room!To, Talks, Stages
  <2>2. Voting(t)
    BY <1>1, <2>1, GivenUpVotes DEF Voting
  <2> QED BY <1>1, <1>3, <2>1, <2>2, TalkStep DEF Room!NothingToDispatch, Room!Go
<1>4. CASE Room!Stop(m)
  <2> DEFINE t == [talk[m] EXCEPT !.cancel = TRUE]
  <2>1. /\ o.place \in Room!Running \cup {"queued"} /\ t \in Talks /\ t.room = o.room
        /\ t.place = o.place /\ t.status = o.status /\ t.votes = o.votes /\ t.agreed = o.agreed
        /\ t.speaker = o.speaker /\ t.cancel /\ t.pass = o.pass
    BY <1>1, <1>4 DEF Room!Stop, Talks, Stages
  <2>2. Voting(t)
    BY <1>1, <2>1 DEF Voting, Complete
  <2>3. o.place # "none"
    BY <2>1 DEF Room!Running
  <2> QED BY <1>1, <1>4, <2>1, <2>2, <2>3, TalkStep DEF Room!Stop, Room!Go
<1>5. CASE Room!Start(m)
  <2> DEFINE t == IF talk[m].cancel THEN Room!To(m, "over") ELSE Room!To(m, "locking")
  <2>1. /\ o.place = "queued" /\ t \in Talks /\ t.room = o.room /\ t.cancel = o.cancel
        /\ t.place \in {"over", "locking"} /\ t.status = o.status /\ t.votes = o.votes
        /\ t.agreed = o.agreed /\ t.speaker = o.speaker
    BY <1>1, <1>5 DEF Room!Start, Room!At, Room!To, Talks, Stages
  <2>2. Voting(t)
    BY <1>1, <2>1 DEF Voting
  <2> QED BY <1>1, <1>5, <2>1, <2>2, TalkStep DEF Room!Start, Room!Go
<1>6. CASE Room!Lock(m)
  <2> DEFINE t == Room!To(m, "locked")
  <2>1. /\ o.place = "locking" /\ t \in Talks /\ t.room = o.room /\ t.cancel = o.cancel
        /\ t.place = "locked" /\ t.status = o.status /\ t.votes = o.votes
        /\ t.agreed = o.agreed /\ t.speaker = o.speaker
    BY <1>1, <1>6 DEF Room!Lock, Room!At, Room!To, Talks, Stages
  <2>2. Voting(t)
    BY <1>1, <2>1 DEF Voting
  <2> QED BY <1>1, <1>6, <2>1, <2>2, TalkStep DEF Room!Lock, Room!Go
<1>7. CASE Room!GiveUp(m)
  <2> DEFINE t == [Room!To(m, "over") EXCEPT !.status = "cancelled"]
  <2>1. /\ o.place = "locking" /\ t \in Talks /\ t.room = o.room /\ t.cancel = o.cancel
        /\ t.place = "over" /\ t.status = "cancelled"
    BY <1>1, <1>7 DEF Room!GiveUp, Room!At, Room!To, Talks, Stages
  <2>2. Voting(t)
    BY <2>1 DEF Voting
  <2> QED BY <1>1, <1>7, <2>1, <2>2, TalkStep DEF Room!GiveUp, Room!Go
<1>8. CASE Room!Enter(m)
  <2> DEFINE ends == talk[m].room \in gone \/ talk[m].cancel
             t == IF ends THEN [Room!To(m, "leaving") EXCEPT !.failed = TRUE]
                  ELSE Room!To(m, "asking")
  <2>1. /\ o.place = "locked" /\ t \in Talks /\ t.room = o.room /\ t.cancel = o.cancel
        /\ t.place \in {"leaving", "asking"} /\ t.status = o.status /\ t.votes = o.votes
        /\ t.agreed = o.agreed /\ t.speaker = o.speaker /\ (t.place = "leaving" => t.failed)
    BY <1>1, <1>8 DEF Room!Enter, Room!At, Room!To, Talks, Stages
  <2>2. Voting(t)
    BY <1>1, <2>1 DEF Voting
  <2>3. speaking' \in [Slots -> Int]
    BY <1>1, <1>8 DEF Room!Enter
  <2> QED BY <1>1, <1>8, <2>1, <2>2, <2>3, TalkStep DEF Room!Enter, Room!Go
<1> QED BY <1>2, <1>3, <1>4, <1>5, <1>6, <1>7, <1>8

\* The end of a discussion.
LEMMA LeavingStep ==
    ASSUME RoomInv, NEW m \in Room!Messages, Room!Leave(m) \/ Room!Settle(m) PROVE RoomInv'
<1> DEFINE o == talk[m]
<1>1. o \in Talks /\ Voting(o) /\ talk \in [Room!Messages -> Talks] /\ speaking \in [Slots -> Int]
  BY DEF RoomInv, RoomTypes
<1>2. CASE Room!Leave(m)
  <2>1. speaking' \in [Slots -> Int]
    <3>1. Room!NoTalk \in Int
      BY DEF Room!NoTalk
    <3>2. speaking' = [speaking EXCEPT ![Room!Slot(talk[m].room)] = Room!NoTalk]
      BY <1>2 DEF Room!Leave
    <3> QED BY <1>1, <3>1, <3>2
  <2>2. talk' = [talk EXCEPT ![m] = o] /\ o.place # "none"
    BY <1>1, <1>2 DEF Room!Leave, Room!At
  <2> QED BY <1>1, <1>2, <2>1, <2>2, TalkStep DEF Room!Leave
<1>3. CASE Room!Settle(m)
  <2> DEFINE s == IF talk[m].cancel THEN "cancelled" ELSE IF talk[m].failed THEN "failed" ELSE "done"
             t == [Room!To(m, "over") EXCEPT !.status = s]
  <2>1. /\ o.place = "leaving" /\ t \in Talks /\ t.room = o.room /\ t.cancel = o.cancel
        /\ t.place = "over" /\ t.status = s /\ t.pass = o.pass /\ t.agreed = o.agreed
    BY <1>1, <1>3 DEF Room!Settle, Room!At, Room!To, Talks, Stages
  <2>2. Voting(t)
    BY <1>1, <2>1 DEF Voting, Complete
  <2> QED BY <1>1, <1>3, <2>1, <2>2, TalkStep DEF Room!Settle, Room!Go
<1> QED BY <1>2, <1>3

\* Before and after the call of the model, a discussion that was overtaken
\* is given up.
LEMMA AskStep ==
    ASSUME RoomInv, NEW m \in Room!Messages, Room!Ask(m) PROVE RoomInv'
<1> DEFINE o == talk[m]
<1>1. o \in Talks /\ Voting(o) /\ talk \in [Room!Messages -> Talks] /\ speaking \in [Slots -> Int]
  BY DEF RoomInv, RoomTypes
<1>2. /\ o.place = "asking"
      /\ UNCHANGED <<nextMessage, log, gone, speaking, stopped>>
  BY DEF Room!Ask, Room!At
<1>3. PICK t :
         /\ talk' = [talk EXCEPT ![m] = t]
         /\ \/ o.cancel /\ t = Room!To(m, "leaving")
            \/ Room!Overtaken(m) /\ t = [Room!To(m, "leaving") EXCEPT !.cancel = TRUE]
            \/ t = Room!To(m, "thinking")
            \/ t = [Room!To(m, "leaving") EXCEPT !.failed = TRUE]
  BY Zenon DEF Room!Ask, Room!Go
<1>4. /\ t \in Talks /\ t.room = o.room /\ t.place \in {"leaving", "thinking"}
      /\ t.status = o.status /\ t.votes = o.votes /\ t.agreed = o.agreed /\ t.speaker = o.speaker
      /\ t.cancel => o.cancel \/ Room!Overtaken(m)
      /\ t.place = "leaving" => t.cancel \/ t.failed
  <2>1. CASE o.cancel /\ t = Room!To(m, "leaving")
    BY <1>1, <2>1 DEF Room!To, Talks, Stages
  <2>2. CASE t = Room!To(m, "thinking")
    BY <1>1, <2>2 DEF Room!To, Talks, Stages
  <2>3. CASE Room!Overtaken(m) /\ t = [Room!To(m, "leaving") EXCEPT !.cancel = TRUE]
    BY <1>1, <2>3 DEF Room!To, Talks, Stages
  <2>4. CASE t = [Room!To(m, "leaving") EXCEPT !.failed = TRUE]
    BY <1>1, <2>4 DEF Room!To, Talks, Stages
  <2> QED BY <1>3, <2>1, <2>2, <2>3, <2>4
<1>5. Voting(t)
  BY <1>1, <1>2, <1>4 DEF Voting
<1> QED BY <1>1, <1>2, <1>3, <1>4, <1>5, TalkStep

LEMMA AnsweredStep ==
    ASSUME RoomInv, NEW m \in Room!Messages, Room!Answered(m) PROVE RoomInv'
<1> DEFINE o == talk[m]
           Vote(agree) ==
               [Room!To(m, "publishing") EXCEPT !.agree = agree,
                  !.votes = IF agree THEN @ + 1 ELSE @,
                  !.agreed = IF agree THEN @ \cup {o.speaker} ELSE @]
<1>1. o \in Talks /\ Voting(o) /\ talk \in [Room!Messages -> Talks] /\ speaking \in [Slots -> Int]
  BY DEF RoomInv, RoomTypes
<1>2. o.place = "thinking" /\ UNCHANGED <<nextMessage, log, gone, speaking, stopped>>
  BY DEF Room!Answered, Room!At
<1>3. PICK t :
         /\ talk' = [talk EXCEPT ![m] = t]
         /\ \/ o.cancel /\ t = Room!To(m, "leaving")
            \/ Room!Overtaken(m) /\ t = [Room!To(m, "leaving") EXCEPT !.cancel = TRUE]
            \/ t = [Room!To(m, "leaving") EXCEPT !.failed = TRUE]
            \/ \E agree \in BOOLEAN : t = Vote(agree)
  BY Zenon DEF Room!Answered, Room!Go
<1>4. CASE \E agree \in BOOLEAN : t = Vote(agree)
  <2>1. PICK agree \in BOOLEAN : t = Vote(agree)
    BY <1>4
  <2> DEFINE v == IF agree THEN o.votes + 1 ELSE o.votes
             a == IF agree THEN o.agreed \cup {o.speaker} ELSE o.agreed
  <2>2. /\ o.speaker \in Room!Speakers /\ o.agreed \in SUBSET Room!Speakers /\ o.votes \in Nat
        /\ o.votes = Cardinality(o.agreed) /\ o.status = "none"
        /\ \A i \in o.agreed : i < o.speaker
    BY <1>1, <1>2 DEF Talks, Voting
  <2>3. \A i \in Room!Speakers : i \in Nat
    BY MembersSpeak
  <2>4. o.speaker \notin o.agreed /\ IsFiniteSet(o.agreed)
    <3> DEFINE g == o.agreed
               w == o.speaker
               S == Room!Speakers
    <3>1. g \in SUBSET S /\ w \in Nat /\ IsFiniteSet(S) /\ \A i \in g : i < w
      BY <2>2, <2>3, MembersSpeak
    <3> HIDE DEF g, w, S
    <3>2. w \notin g
      BY <3>1
    <3>3. IsFiniteSet(g)
      BY <3>1, FS_Subset
    <3> QED BY <3>2, <3>3 DEF g, w
  <2>5. v = Cardinality(a) /\ v \in Nat /\ a \in SUBSET Room!Speakers
    <3> DEFINE g == o.agreed
               w == o.speaker
               n == o.votes
    <3>1. /\ IsFiniteSet(g) /\ w \notin g /\ n = Cardinality(g) /\ n \in Nat
          /\ g \in SUBSET Room!Speakers /\ w \in Room!Speakers
      BY <2>2, <2>4
    <3>2. v = (IF agree THEN n + 1 ELSE n) /\ a = (IF agree THEN g \cup {w} ELSE g)
      OBVIOUS
    <3> HIDE DEF g, w, n, v, a
    <3>3. Cardinality(g \cup {w}) = n + 1
      BY <3>1, FS_AddElement
    <3> QED BY <3>1, <3>2, <3>3
  <2>6. \A i \in a : i <= o.speaker
    BY <2>2, <2>3
  <2>7. t = [[o EXCEPT !.place = "publishing"] EXCEPT !.agree = agree, !.votes = v, !.agreed = a]
    BY <1>1, <2>1 DEF Room!To, Talks
  <2> HIDE DEF v, a
  <2>8. /\ t \in Talks /\ t.room = o.room /\ t.place = "publishing" /\ t.cancel = o.cancel
        /\ t.votes = v /\ t.agreed = a /\ t.speaker = o.speaker /\ t.status = o.status
    BY <1>1, <2>5, <2>7 DEF Talks, Stages
  <2>9. Voting(t)
    BY <2>2, <2>5, <2>6, <2>8 DEF Voting
  <2> QED BY <1>1, <1>2, <1>3, <2>8, <2>9, TalkStep
<1>5. CASE ~\E agree \in BOOLEAN : t = Vote(agree)
  <2>1. /\ t \in Talks /\ t.room = o.room /\ t.place = "leaving" /\ t.status = o.status
        /\ t.cancel => o.cancel \/ Room!Overtaken(m)
        /\ t.cancel \/ t.failed
    <3>1. CASE o.cancel /\ t = Room!To(m, "leaving")
      BY <1>1, <3>1 DEF Room!To, Talks, Stages
    <3>2. CASE Room!Overtaken(m) /\ t = [Room!To(m, "leaving") EXCEPT !.cancel = TRUE]
      BY <1>1, <3>2 DEF Room!To, Talks, Stages
    <3>3. CASE t = [Room!To(m, "leaving") EXCEPT !.failed = TRUE]
      BY <1>1, <3>3 DEF Room!To, Talks, Stages
    <3> QED BY <1>3, <1>5, <3>1, <3>2, <3>3
  <2>2. Voting(t)
    BY <1>1, <1>2, <2>1 DEF Voting
  <2> QED BY <1>1, <1>2, <1>3, <2>1, <2>2, TalkStep
<1> QED BY <1>4, <1>5

\* What a discussion does when it has published, or has nothing to publish.
LEMMA ContinueVotes ==
    ASSUME NEW t \in Talks, Voting(t), t.place = "publishing"
    PROVE  LET u == Room!Continue(t)
           IN  /\ u \in Talks /\ Voting(u) /\ u.place \in {"asking", "leaving"}
               /\ u.room = t.room /\ (u.cancel => t.cancel)
<1>1. CASE t.cancel
  <2> DEFINE u == [t EXCEPT !.place = "leaving"]
  <2>1. Room!Continue(t) = u
    BY <1>1 DEF Room!Continue
  <2>2. /\ u \in Talks /\ u.place = "leaving" /\ u.room = t.room /\ u.cancel = t.cancel
        /\ u.status = t.status
    BY DEF Talks, Stages
  <2>3. Voting(u)
    BY <1>1, <2>2 DEF Voting
  <2> QED BY <1>1, <2>1, <2>2, <2>3
<1>2. CASE ~t.cancel
  <2> DEFINE u == [t EXCEPT !.agree = FALSE]
  <2>1. Room!Continue(t) = Room!NextSpeaker(u)
    BY <1>2 DEF Room!Continue
  <2>2. /\ u \in Talks /\ u.place = t.place /\ u.room = t.room /\ u.cancel = t.cancel
        /\ u.status = t.status /\ u.votes = t.votes /\ u.agreed = t.agreed
        /\ u.speaker = t.speaker
    BY DEF Talks
  <2>3. Voting(u)
    BY <2>2 DEF Voting
  <2> HIDE DEF u
  <2> QED BY <1>2, <2>1, <2>2, <2>3, NextSpeakerVotes
<1> QED BY <1>1, <1>2

LEMMA SilentStep ==
    ASSUME RoomInv, NEW m \in Room!Messages, Room!Silent(m) PROVE RoomInv'
<1> DEFINE o == talk[m]
           t == Room!Continue(o)
<1>1. o \in Talks /\ Voting(o) /\ talk \in [Room!Messages -> Talks] /\ speaking \in [Slots -> Int]
  BY DEF RoomInv, RoomTypes
<1>2. /\ o.place = "publishing" /\ talk' = [talk EXCEPT ![m] = t]
      /\ UNCHANGED <<nextMessage, log, gone, speaking, stopped>>
  BY DEF Room!Silent, Room!At, Room!Go
<1>3. /\ t \in Talks /\ Voting(t) /\ t.place \in {"asking", "leaving"}
      /\ t.room = o.room /\ (t.cancel => o.cancel)
  BY <1>1, <1>2, ContinueVotes
<1> QED BY <1>1, <1>2, <1>3, TalkStep

\* Something is said at the end of a log: a human message is the latest, a
\* reply must answer the latest.
LEMMA SayingFits ==
    ASSUME RoomTypes, Room!RepliesFit, NEW r \in Rooms, NEW e \in Entries,
           log' = [log EXCEPT ![r] = Append(@, e)],
           e.by # Room!User => Room!Latest(r) # 0 /\ e.to = Room!Latest(r)
    PROVE  /\ log' \in [Rooms -> Seq(Entries)]
           /\ \A q \in Rooms : \A i \in DOMAIN log'[q] :
                 \/ i \in DOMAIN log[q] /\ log'[q][i] = log[q][i]
                 \/ log'[q][i] = e
           /\ \A q \in Rooms \ {r} : Room!Latest(q)' = Room!Latest(q)
           /\ Room!Latest(r)' = IF e.by = Room!User THEN e.id ELSE Room!Latest(r)
           /\ Room!RepliesFit'
<1> DEFINE n == Len(log[r])
<1>1. log \in [Rooms -> Seq(Entries)] /\ log[r] \in Seq(Entries) /\ n \in Nat
  BY DEF RoomTypes
<1>2. log' \in [Rooms -> Seq(Entries)] /\ log'[r] = Append(log[r], e)
      /\ \A q \in Rooms \ {r} : log'[q] = log[q]
  BY <1>1
<1>3. /\ DOMAIN log[r] = 1 .. n /\ DOMAIN log'[r] = 1 .. n + 1
      /\ \A i \in 1 .. n : log'[r][i] = log[r][i]
      /\ log'[r][n + 1] = e
  BY <1>1, <1>2
<1> HIDE DEF n
<1>4. \A q \in Rooms \ {r} : Room!Seen(q)' = Room!Seen(q)
  BY <1>2 DEF Room!Seen
<1>5. \A q \in Rooms \ {r} : Room!Latest(q)' = Room!Latest(q)
  <2>1. ASSUME NEW q \in Rooms \ {r} PROVE Room!Latest(q)' = Room!Latest(q)
    <3>1. log'[q] = log[q]
      BY <1>2
    <3> QED BY <3>1, LatestStays
  <2> QED BY <2>1
<1>6. /\ Room!Seen(r) \in SUBSET (1 .. n)
      /\ Room!Seen(r)' = IF e.by = Room!User THEN Room!Seen(r) \cup {n + 1} ELSE Room!Seen(r)
  <2>1. Room!Seen(r) = {i \in 1 .. n : log[r][i].by = Room!User}
    BY <1>3 DEF Room!Seen
  <2>2. Room!Seen(r)' = {i \in 1 .. n + 1 : log'[r][i].by = Room!User}
    BY <1>3 DEF Room!Seen
  <2>3. \A i \in 1 .. n + 1 : i \in 1 .. n \/ i = n + 1
    BY <1>1
  <2>4. 1 .. n \subseteq 1 .. n + 1 /\ n + 1 \in 1 .. n + 1 /\ n + 1 \notin 1 .. n
    BY <1>1
  <2>5. CASE e.by = Room!User
    <3>1. \A i : i \in Room!Seen(r)' <=> i \in Room!Seen(r) \cup {n + 1}
      BY <1>3, <2>1, <2>2, <2>3, <2>4, <2>5
    <3> QED BY <2>1, <2>5, <3>1
  <2>6. CASE e.by # Room!User
    <3>1. \A i : i \in Room!Seen(r)' <=> i \in Room!Seen(r)
      BY <1>3, <2>1, <2>2, <2>3, <2>4, <2>6
    <3> QED BY <2>1, <2>6, <3>1
  <2> QED BY <2>5, <2>6
<1>7. Room!Latest(r)' = IF e.by = Room!User THEN e.id ELSE Room!Latest(r)
  <2>1. CASE e.by = Room!User
    <3> DEFINE T == Room!Seen(r) \cup {n + 1}
               k == CHOOSE i \in T : \A j \in T : j <= i
    <3>1. T \in SUBSET (1 .. n + 1) /\ T # {} /\ n + 1 \in T
      BY <1>1, <1>6
    <3>2. k \in T /\ \A j \in T : j <= k
      BY <1>1, <3>1, LastExists, n + 1 \in Nat
    <3>3. Room!Latest(r)' = log'[r][k].id
      BY <1>6, <2>1, <3>1 DEF Room!Latest
    <3> HIDE DEF T, k
    <3>4. k = n + 1
      <4>1. k \in 1 .. n + 1 /\ n + 1 <= k
        BY <3>1, <3>2
      <4> QED BY <1>1, <4>1
    <3> QED BY <1>3, <2>1, <3>3, <3>4
  <2>2. CASE e.by # Room!User
    <3>1. CASE Room!Seen(r) = {}
      BY <1>6, <2>2, <3>1 DEF Room!Latest
    <3>2. CASE Room!Seen(r) # {}
      <4> DEFINE k == CHOOSE i \in Room!Seen(r) : \A j \in Room!Seen(r) : j <= i
      <4>1. k \in 1 .. n /\ Room!Latest(r) = log[r][k].id
        BY <1>6, <3>2, LatestIsSaid
      <4>2. Room!Latest(r)' = log'[r][k].id
        BY <1>6, <2>2, <3>2 DEF Room!Latest
      <4> HIDE DEF k
      <4> QED BY <1>3, <2>2, <4>1, <4>2
    <3> QED BY <3>1, <3>2
  <2> QED BY <2>1, <2>2
<1>8. Room!RepliesFit'
  <2> DEFINE Before(S, i) == {j \in S : j < i}
             K(S) == CHOOSE j \in S : \A k \in S : k <= j
  <2>1. ASSUME NEW q \in Rooms, NEW i \in DOMAIN log'[q], log'[q][i].by # Room!User
        PROVE  /\ Before(Room!Seen(q)', i) # {}
               /\ log'[q][i].to = log'[q][K(Before(Room!Seen(q)', i))].id
    <3>1. CASE q # r
      <4>1. log'[q] = log[q] /\ Room!Seen(q)' = Room!Seen(q)
        BY <1>2, <1>4, <3>1
      <4>2. i \in DOMAIN log[q] /\ log[q][i].by # Room!User
        BY <2>1, <4>1
      <4>3. /\ Before(Room!Seen(q), i) # {}
            /\ log[q][i].to = log[q][K(Before(Room!Seen(q), i))].id
        BY <4>2, Zenon DEF Room!RepliesFit
      <4> QED BY <4>1, <4>3, Zenon
    <3>2. CASE q = r /\ i \in 1 .. n
      <4>1. log'[r][i] = log[r][i] /\ log[r][i].by # Room!User /\ i \in DOMAIN log[r]
        BY <1>3, <2>1, <3>2
      <4>2. Before(Room!Seen(r)', i) = Before(Room!Seen(r), i)
        <5>1. ~(n + 1 < i)
          BY <1>1, <3>2
        <5> QED BY <1>6, <5>1
      <4>3. /\ Before(Room!Seen(r), i) # {}
            /\ log[r][i].to = log[r][K(Before(Room!Seen(r), i))].id
        BY <4>1, Zenon DEF Room!RepliesFit
      <4>4. K(Before(Room!Seen(r), i)) \in 1 .. n
        <5>1. Before(Room!Seen(r), i) \in SUBSET (1 .. n)
          BY <1>6
        <5> HIDE DEF Before
        <5>2. K(Before(Room!Seen(r), i)) \in Before(Room!Seen(r), i)
          BY <1>1, <4>3, <5>1, LastExists
        <5> QED BY <5>1, <5>2
      <4> HIDE DEF Before, K
      <4> QED BY <1>3, <3>2, <4>1, <4>2, <4>3, <4>4
    <3>3. CASE q = r /\ i \notin 1 .. n
      <4>1. i = n + 1 /\ e.by # Room!User
        BY <1>1, <1>3, <2>1, <3>3
      <4>2. Room!Seen(r) # {} /\ e.to = Room!Latest(r)
        BY <4>1, LatestIsSaid
      <4>3. Before(Room!Seen(r)', i) = Room!Seen(r)
        <5>1. \A j \in 1 .. n : j < n + 1
          BY <1>1
        <5> QED BY <1>6, <4>1, <5>1
      <4>4. K(Room!Seen(r)) \in 1 .. n /\ Room!Latest(r) = log[r][K(Room!Seen(r))].id
        BY <1>6, <4>2, LatestIsSaid
      <4> HIDE DEF Before, K
      <4> QED BY <1>3, <3>3, <4>1, <4>2, <4>3, <4>4
    <3> QED BY <3>1, <3>2, <3>3
  <2> QED BY <2>1, Zenon DEF Room!RepliesFit
<1>9. \A q \in Rooms : \A i \in DOMAIN log'[q] :
         \/ i \in DOMAIN log[q] /\ log'[q][i] = log[q][i]
         \/ log'[q][i] = e
  BY <1>1, <1>2, <1>3
<1> QED BY <1>2, <1>5, <1>7, <1>8, <1>9

LEMMA SendStep ==
    ASSUME RoomInv, NEW r \in Rooms, Room!Send(r) PROVE RoomInv'
<1> DEFINE m == nextMessage
           e == [id |-> m, by |-> Room!User, to |-> Room!NoTalk]
           t == [Room!To(m, "sent") EXCEPT !.room = r]
<1>1. /\ RoomTypes /\ Numbered /\ Room!RepliesFit /\ Room!OvertakenOnly
      /\ m \in Room!Messages /\ m \in Nat /\ talk[m] = Room!NewTalk
  <2>1. m >= Room!FirstMessage /\ m <= LastMessage /\ m \in Nat
    BY DEF Room!Send, RoomInv, RoomTypes, Numbered
  <2>2. m \in Room!Messages
    BY <2>1, MessagesArePositive, RoomAssumption DEF Room!Messages
  <2>3. m >= nextMessage
    BY <2>1
  <2> QED BY <2>1, <2>2, <2>3 DEF RoomInv, Numbered
<1>2. e \in Entries /\ e.by = Room!User /\ e.id = m
  BY <1>1 DEF Entries, Room!NoTalk
<1>3. log' = [log EXCEPT ![r] = Append(@, e)]
  BY DEF Room!Send
<1>4. /\ nextMessage' = m + 1 /\ talk' = [talk EXCEPT ![m] = t]
      /\ UNCHANGED <<gone, speaking, stopped>> /\ r \notin gone
  BY DEF Room!Send, Room!Go
<1> HIDE DEF e
<1>5. /\ log' \in [Rooms -> Seq(Entries)]
      /\ \A q \in Rooms : \A i \in DOMAIN log'[q] :
            \/ i \in DOMAIN log[q] /\ log'[q][i] = log[q][i]
            \/ log'[q][i] = e
      /\ \A q \in Rooms \ {r} : Room!Latest(q)' = Room!Latest(q)
      /\ Room!Latest(r)' = m
      /\ Room!RepliesFit'
  BY <1>1, <1>2, <1>3, SayingFits
<1>6. t \in Talks /\ t.room = r /\ t.place = "sent" /\ Voting(t) /\ ~t.cancel
  <2>1. t = [[Room!NewTalk EXCEPT !.place = "sent"] EXCEPT !.room = r]
    BY <1>1 DEF Room!To
  <2> HIDE DEF t
  <2>2. t = [room |-> r, place |-> "sent", seen |-> -1, cancel |-> FALSE, failed |-> FALSE,
             pass |-> 1, speaker |-> 1, votes |-> 0, agree |-> FALSE, status |-> "none",
             agreed |-> {}]
    BY <2>1 DEF Room!NewTalk, Room!NoTalk
  <2>3. 1 \in Room!Speakers /\ r \in Rooms /\ {} \in SUBSET Room!Speakers /\ -1 \in Int
    BY MembersSpeak
  <2>4. t \in Talks /\ t.room = r /\ t.place = "sent" /\ ~t.cancel
        /\ t.votes = 0 /\ t.agreed = {} /\ t.status = "none"
    BY <2>2, <2>3 DEF Talks, Stages
  <2> QED BY <2>4, FS_EmptySet DEF Voting
<1> HIDE DEF t
<1>7. /\ talk \in [Room!Messages -> Talks] /\ talk' \in [Room!Messages -> Talks] /\ talk'[m] = t
      /\ \A o \in Room!Messages \ {m} : talk'[o] = talk[o]
  BY <1>1, <1>4, <1>6 DEF RoomTypes
<1>8. RoomTypes'
  BY <1>1, <1>4, <1>5, <1>7 DEF RoomTypes
<1>9. Numbered'
  <2>1. \A q \in Rooms : \A i \in DOMAIN log'[q] : log'[q][i].id < m + 1
    <3> SUFFICES ASSUME NEW q \in Rooms, NEW i \in DOMAIN log'[q] PROVE log'[q][i].id < m + 1
      OBVIOUS
    <3>1. CASE i \in DOMAIN log[q] /\ log'[q][i] = log[q][i]
      <4>1. log[q][i].id < m
        BY <1>1, <3>1 DEF Numbered
      <4>2. log[q][i].id \in Nat
        <5>1. log[q] \in Seq(Entries)
          BY <1>1 DEF RoomTypes
        <5>2. log[q][i] \in Entries
          BY <3>1, <5>1
        <5> QED BY <5>2 DEF Entries
      <4> QED BY <1>1, <3>1, <4>1, <4>2
    <3>2. CASE log'[q][i] = e
      BY <1>1, <1>2, <3>2
    <3> QED BY <1>5, <3>1, <3>2
  <2>2. \A o \in Room!Messages : talk'[o].place = "none" => talk'[o] = Room!NewTalk
    BY <1>1, <1>6, <1>7 DEF Numbered
  <2>3. \A o \in Room!Messages : o >= m + 1 => talk'[o].place = "none"
    BY <1>1, <1>7, MessagesArePositive DEF Numbered
  <2>4. m + 1 >= Room!FirstMessage
    BY <1>1, MessagesArePositive DEF Numbered
  <2> QED BY <1>4, <2>1, <2>2, <2>3, <2>4 DEF Numbered
<1>10. ASSUME NEW o \in Room!Messages, talk'[o].place # "none", o # m
       PROVE  /\ o < m /\ talk'[o] = talk[o] /\ talk[o].room \in Rooms
              /\ talk[o].room \in gone \/ Room!Latest(talk[o].room) >= o
  <2>1. talk'[o] = talk[o]
    BY <1>7, <1>10
  <2>2. Said(o)
    BY <1>10, <2>1 DEF RoomInv
  <2>3. o < m
    BY <1>1, <1>10, <2>1, MessagesArePositive DEF Numbered
  <2> QED BY <2>1, <2>2, <2>3 DEF Said
<1>11. \A o \in Room!Messages : talk'[o].place # "none" => Said(o)'
  <2> SUFFICES ASSUME NEW o \in Room!Messages, talk'[o].place # "none" PROVE Said(o)'
    OBVIOUS
  <2>1. CASE o = m
    BY <1>1, <1>5, <1>6, <1>7, <2>1 DEF Said
  <2>2. CASE o # m /\ talk[o].room = r
    BY <1>1, <1>4, <1>5, <1>10, <2>2, MessagesArePositive DEF Said
  <2>3. CASE o # m /\ talk[o].room # r
    BY <1>4, <1>5, <1>10, <2>3 DEF Said
  <2> QED BY <2>1, <2>2, <2>3
<1>12. \A o \in Room!Messages : Voting(talk'[o])
  BY <1>6, <1>7 DEF RoomInv
<1>13. ASSUME NEW o \in Room!Messages PROVE Overdue(o)'
  <2> SUFFICES ASSUME talk'[o].cancel, o \notin stopped PROVE Overdue(o)'
    BY <1>4 DEF Overdue
  <2>1. o # m
    BY <1>6, <1>7
  <2>2. talk'[o] = talk[o] /\ talk[o].cancel
    BY <1>7, <2>1
  <2>3. talk'[o].place # "none"
    <3>1. ~Room!NewTalk.cancel
      BY DEF Room!NewTalk
    <3> QED BY <1>1, <2>2, <3>1 DEF Numbered
  <2>4. talk[o].room \in gone \/ Room!Latest(talk[o].room) > o
    BY <1>1, <2>2 DEF Room!OvertakenOnly
  <2>5. o < m /\ talk[o].room \in Rooms
    BY <1>10, <2>1, <2>3
  <2>6. CASE talk[o].room = r
    BY <1>1, <1>5, <2>2, <2>5, <2>6, MessagesArePositive DEF Overdue
  <2>7. CASE talk[o].room # r
    BY <1>4, <1>5, <2>2, <2>4, <2>5, <2>7 DEF Overdue
  <2> QED BY <2>6, <2>7
<1>14. Room!OvertakenOnly'
  BY <1>13 DEF Overdue, Room!OvertakenOnly
<1> QED BY <1>5, <1>8, <1>9, <1>11, <1>12, <1>14 DEF RoomInv

\* Deleting a room ends everything said in it.
LEMMA DeleteStep ==
    ASSUME RoomInv, NEW r \in Rooms, Room!Delete(r) PROVE RoomInv'
<1>1. /\ RoomTypes /\ Numbered /\ Room!RepliesFit /\ Room!OvertakenOnly
      /\ log \in [Rooms -> Seq(Entries)]
  BY DEF RoomInv, RoomTypes
<1>2. /\ log' = [log EXCEPT ![r] = <<>>] /\ gone' = gone \cup {r}
      /\ UNCHANGED <<nextMessage, talk, speaking, stopped>>
  BY DEF Room!Delete
<1>3. /\ log' \in [Rooms -> Seq(Entries)] /\ log'[r] = <<>> /\ DOMAIN log'[r] = {}
      /\ \A q \in Rooms \ {r} : log'[q] = log[q]
  BY <1>1, <1>2
<1>4. \A q \in Rooms \ {r} : Room!Seen(q)' = Room!Seen(q)
  BY <1>3 DEF Room!Seen
<1>5. \A q \in Rooms \ {r} : Room!Latest(q)' = Room!Latest(q)
  <2>1. ASSUME NEW q \in Rooms \ {r} PROVE Room!Latest(q)' = Room!Latest(q)
    <3>1. log'[q] = log[q]
      BY <1>3
    <3> QED BY <3>1, LatestStays
  <2> QED BY <2>1
<1>6. RoomTypes'
  BY <1>1, <1>2, <1>3 DEF RoomTypes
<1>7. Numbered'
  BY <1>1, <1>2, <1>3 DEF Numbered
<1>8. ASSUME NEW o \in Room!Messages, talk[o].place # "none" PROVE Said(o)'
  <2>1. Said(o)
    BY <1>8 DEF RoomInv
  <2>2. CASE talk[o].room = r
    BY <1>2, <2>1, <2>2 DEF Said
  <2>3. CASE talk[o].room # r
    BY <1>2, <1>5, <2>1, <2>3 DEF Said
  <2> QED BY <2>2, <2>3
<1>9. \A o \in Room!Messages : Voting(talk'[o])
  BY <1>2 DEF RoomInv
<1>10. Room!RepliesFit'
  <2> DEFINE Before(S, i) == {j \in S : j < i}
             K(S) == CHOOSE j \in S : \A k \in S : k <= j
  <2>1. ASSUME NEW q \in Rooms, NEW i \in DOMAIN log'[q], log'[q][i].by # Room!User
        PROVE  /\ Before(Room!Seen(q)', i) # {}
               /\ log'[q][i].to = log'[q][K(Before(Room!Seen(q)', i))].id
    <3>1. log'[q] = log[q] /\ Room!Seen(q)' = Room!Seen(q)
      BY <1>3, <1>4, <2>1
    <3>2. i \in DOMAIN log[q] /\ log[q][i].by # Room!User
      BY <2>1, <3>1
    <3>3. /\ Before(Room!Seen(q), i) # {}
          /\ log[q][i].to = log[q][K(Before(Room!Seen(q), i))].id
      BY <1>1, <3>2, Zenon DEF Room!RepliesFit
    <3> QED BY <3>1, <3>3, Zenon
  <2> QED BY <2>1, Zenon DEF Room!RepliesFit
<1>11. ASSUME NEW o \in Room!Messages PROVE Overdue(o)'
  <2> SUFFICES ASSUME talk[o].cancel, o \notin stopped PROVE Overdue(o)'
    BY <1>2 DEF Overdue
  <2>1. talk[o].room \in gone \/ Room!Latest(talk[o].room) > o
    BY <1>1 DEF Room!OvertakenOnly
  <2>2. talk[o].room \in Rooms
    <3>1. ~Room!NewTalk.cancel
      BY DEF Room!NewTalk
    <3>2. talk[o].place # "none"
      BY <1>1, <3>1 DEF Numbered
    <3> QED BY <3>2 DEF RoomInv, Said
  <2>3. CASE talk[o].room = r
    BY <1>2, <2>3 DEF Overdue
  <2>4. CASE talk[o].room # r
    BY <1>2, <1>5, <2>1, <2>2, <2>4 DEF Overdue
  <2> QED BY <2>3, <2>4
<1>12. Room!OvertakenOnly'
  BY <1>11 DEF Overdue, Room!OvertakenOnly
<1> QED BY <1>2, <1>6, <1>7, <1>8, <1>9, <1>10, <1>12 DEF RoomInv

LEMMA PublishStep ==
    ASSUME RoomInv, NEW m \in Room!Messages, Room!Publish(m) PROVE RoomInv'
<1> DEFINE o == talk[m]
           n == nextMessage
<1>r. PICK r : r = talk[m].room
  OBVIOUS
<1>1. /\ o \in Talks /\ Voting(o) /\ talk \in [Room!Messages -> Talks]
      /\ speaking \in [Slots -> Int] /\ n \in Nat
  BY DEF RoomInv, RoomTypes
<1>2. o.place = "publishing" /\ UNCHANGED <<gone, speaking, stopped>> /\ r \in Rooms
  <2>1. o.place = "publishing" /\ UNCHANGED <<gone, speaking, stopped>>
    BY DEF Room!Publish, Room!At
  <2> QED BY <1>r, <2>1 DEF RoomInv, Said
<1>3. CASE r \in gone \/ Room!Latest(r) # m
  <2>1. PICK t :
           /\ talk' = [talk EXCEPT ![m] = t]
           /\ \/ Room!Overtaken(m) /\ t = [Room!To(m, "leaving") EXCEPT !.cancel = TRUE]
              \/ t = [Room!To(m, "leaving") EXCEPT !.failed = TRUE]
    BY <1>r, <1>3, Zenon DEF Room!Publish, Room!Go, Room!Overtaken
  <2>2. UNCHANGED <<log, nextMessage>>
    BY <1>r, <1>3 DEF Room!Publish
  <2>3. /\ t \in Talks /\ t.room = o.room /\ t.place = "leaving" /\ t.status = o.status
        /\ t.cancel => o.cancel \/ Room!Overtaken(m)
        /\ t.cancel \/ t.failed
    <3>1. CASE Room!Overtaken(m) /\ t = [Room!To(m, "leaving") EXCEPT !.cancel = TRUE]
      BY <1>1, <3>1 DEF Room!To, Talks, Stages
    <3>2. CASE t = [Room!To(m, "leaving") EXCEPT !.failed = TRUE]
      BY <1>1, <3>2 DEF Room!To, Talks, Stages
    <3> QED BY <2>1, <3>1, <3>2
  <2>4. Voting(t)
    BY <1>1, <1>2, <2>3 DEF Voting
  <2> QED BY <1>1, <1>2, <2>1, <2>2, <2>3, <2>4, TalkStep
<1>4. CASE r \notin gone /\ Room!Latest(r) = m
  <2> DEFINE t == Room!Continue(o)
             e == [id |-> n, by |-> Members[o.speaker], to |-> m]
  <2>1. /\ log' = [log EXCEPT ![r] = Append(@, e)] /\ nextMessage' = n + 1
        /\ talk' = [talk EXCEPT ![m] = t]
    BY <1>r, <1>4 DEF Room!Publish, Room!Go
  <2>2. /\ t \in Talks /\ Voting(t) /\ t.place \in {"asking", "leaving"}
        /\ t.room = o.room /\ (t.cancel => o.cancel)
    BY <1>1, <1>2, ContinueVotes
  <2>3. e \in Entries /\ e.by # Room!User /\ e.id = n /\ e.to = m /\ m # 0 /\ m \in Nat
    <3>1. o.speaker \in Room!Speakers /\ Members[o.speaker] # Room!User
      BY <1>1, MembersSpeak DEF Talks
    <3> QED BY <1>1, <3>1, MessagesArePositive DEF Entries
  <2>4. RoomTypes /\ Room!RepliesFit /\ Room!OvertakenOnly /\ Numbered
    BY DEF RoomInv
  <2> HIDE DEF t, e, o, n
  <2>5. /\ log' \in [Rooms -> Seq(Entries)]
        /\ \A q \in Rooms : \A i \in DOMAIN log'[q] :
              \/ i \in DOMAIN log[q] /\ log'[q][i] = log[q][i]
              \/ log'[q][i] = e
        /\ \A q \in Rooms \ {r} : Room!Latest(q)' = Room!Latest(q)
        /\ Room!Latest(r)' = Room!Latest(r)
        /\ Room!RepliesFit'
    <3>1. e.by # Room!User => Room!Latest(r) # 0 /\ e.to = Room!Latest(r)
      BY <1>4, <2>3
    <3>2. log' = [log EXCEPT ![r] = Append(@, e)] /\ e \in Entries /\ r \in Rooms
      BY <1>2, <2>1, <2>3
    <3>3. RoomTypes /\ Room!RepliesFit /\ ~(e.by = Room!User)
      BY <2>3, <2>4
    <3> QED BY <3>1, <3>2, <3>3, SayingFits
  <2>6. \A q \in Rooms : Room!Latest(q)' = Room!Latest(q)
    BY <2>5
  <2>7. /\ talk' \in [Room!Messages -> Talks] /\ talk'[m] = t
        /\ \A p \in Room!Messages \ {m} : talk'[p] = talk[p]
        /\ \A p \in Room!Messages : talk'[p].room = talk[p].room
    BY <1>1, <2>1, <2>2 DEF o
  <2>8. RoomTypes'
    BY <1>1, <1>2, <2>1, <2>4, <2>5, <2>7 DEF RoomTypes
  <2>9. Numbered'
    <3>1. \A q \in Rooms : \A i \in DOMAIN log'[q] : log'[q][i].id < n + 1
      <4> SUFFICES ASSUME NEW q \in Rooms, NEW i \in DOMAIN log'[q] PROVE log'[q][i].id < n + 1
        OBVIOUS
      <4>1. CASE i \in DOMAIN log[q] /\ log'[q][i] = log[q][i]
        <5>1. log[q][i].id < n
          BY <2>4, <4>1 DEF Numbered, n
        <5>2. log[q][i].id \in Nat
          <6>1. log[q] \in Seq(Entries)
            BY <2>4 DEF RoomTypes
          <6>2. log[q][i] \in Entries
            BY <4>1, <6>1
          <6> QED BY <6>2 DEF Entries
        <5> QED BY <1>1, <4>1, <5>1, <5>2
      <4>2. CASE log'[q][i] = e
        BY <1>1, <2>3, <4>2
      <4> QED BY <2>5, <4>1, <4>2
    <3>2. \A p \in Room!Messages : talk'[p].place = "none" => talk'[p] = Room!NewTalk
      BY <2>2, <2>4, <2>7 DEF Numbered
    <3>3. m < n
      <4>1. ~(m >= n)
        BY <1>2, <2>4 DEF Numbered, n, o
      <4> QED BY <1>1, <2>3, <4>1
    <3>4. \A p \in Room!Messages : p >= n + 1 => talk'[p].place = "none"
      BY <1>1, <2>3, <2>4, <2>7, <3>3, MessagesArePositive DEF Numbered, n
    <3>5. n + 1 >= Room!FirstMessage
      BY <1>1, <2>4, MessagesArePositive DEF Numbered, n
    <3> QED BY <2>1, <3>1, <3>2, <3>4, <3>5 DEF Numbered
  <2>10. ASSUME NEW p \in Room!Messages, talk'[p].place # "none" PROVE Said(p)'
    <3>1. talk[p].place # "none"
      BY <1>2, <2>7, <2>10 DEF o
    <3>2. Said(p)
      BY <3>1 DEF RoomInv
    <3> QED BY <1>2, <2>6, <2>7, <3>2 DEF Said
  <2>11. \A p \in Room!Messages : Voting(talk'[p])
    BY <2>2, <2>7 DEF RoomInv
  <2>12. ASSUME NEW p \in Room!Messages PROVE Overdue(p)'
    <3> SUFFICES ASSUME talk'[p].cancel, p \notin stopped PROVE Overdue(p)'
      BY <1>2 DEF Overdue
    <3>1. talk[p].cancel
      BY <2>2, <2>7 DEF o
    <3>2. talk[p].room \in gone \/ Room!Latest(talk[p].room) > p
      BY <2>4, <3>1 DEF Room!OvertakenOnly
    <3>3. talk[p].room \in Rooms
      <4>1. ~Room!NewTalk.cancel
        BY DEF Room!NewTalk
      <4>2. talk[p].place # "none"
        BY <2>4, <3>1, <4>1 DEF Numbered
      <4> QED BY <4>2 DEF RoomInv, Said
    <3> QED BY <1>2, <2>6, <2>7, <3>2, <3>3 DEF Overdue
  <2>13. Room!OvertakenOnly'
    BY <2>12 DEF Overdue, Room!OvertakenOnly
  <2> QED BY <2>5, <2>8, <2>9, <2>10, <2>11, <2>13 DEF RoomInv
<1> QED BY <1>3, <1>4

\* The scheduler takes the discussion or not, and the one of this room that
\* runs for an older message is told.
LEMMA DispatchStep ==
    ASSUME RoomInv, NEW m \in Room!Messages, Room!Dispatch(m) PROVE RoomInv'
<1>1. /\ RoomTypes /\ Room!RepliesFit /\ Room!OvertakenOnly /\ Numbered
      /\ talk \in [Room!Messages -> Talks] /\ speaking \in [Slots -> Int]
  BY DEF RoomInv, RoomTypes
<1>2. PICK to \in {"queued", "over"} :
         talk' = [o \in Room!Messages |->
                    IF o = m THEN [Room!To(m, to) EXCEPT !.seen = Room!NoTalk]
                    ELSE IF o = talk[m].seen /\ Room!Older(m, o)
                         THEN [talk[o] EXCEPT !.cancel = TRUE] ELSE talk[o]]
  BY DEF Room!Dispatch
<1>3. talk[m].place = "marking" /\ UNCHANGED <<nextMessage, log, gone, speaking, stopped>>
  BY DEF Room!Dispatch, Room!At
<1>4. ASSUME NEW o \in Room!Messages
      PROVE  /\ talk'[o] \in Talks /\ talk'[o].room = talk[o].room /\ Voting(talk'[o])
             /\ talk'[o] = talk[o] \/ (talk[o].place # "none" /\ talk'[o].place # "none")
             /\ talk'[o].cancel => talk[o].cancel \/ Room!Older(m, o)
  <2> DEFINE t == talk[o]
             u == talk'[o]
  <2>1. t \in Talks /\ Voting(t)
    BY <1>1 DEF RoomInv
  <2>2. CASE o = m
    <3>1. u = [[t EXCEPT !.place = to] EXCEPT !.seen = Room!NoTalk]
      BY <1>2, <2>2 DEF Room!To
    <3>2. Room!NoTalk \in Int /\ to \in Stages /\ t.place = "marking"
      BY <1>2, <1>3, <2>2 DEF Room!NoTalk, Stages
    <3> HIDE DEF u, t
    <3>3. /\ u \in Talks /\ u.room = t.room /\ u.place = to /\ u.cancel = t.cancel
          /\ u.votes = t.votes /\ u.agreed = t.agreed /\ u.status = t.status
          /\ u.speaker = t.speaker
      BY <2>1, <3>1, <3>2 DEF Talks
    <3>4. Voting(u)
      BY <1>2, <2>1, <3>2, <3>3 DEF Voting
    <3> QED BY <1>2, <3>2, <3>3, <3>4 DEF u, t
  <2>3. CASE o # m /\ o = talk[m].seen /\ Room!Older(m, o)
    <3>1. u = [t EXCEPT !.cancel = TRUE]
      BY <1>2, <2>3
    <3>2. t.place \in Room!Running
      BY <2>3 DEF Room!Older
    <3> HIDE DEF u, t
    <3>3. /\ u \in Talks /\ u.room = t.room /\ u.place = t.place /\ u.cancel
          /\ u.votes = t.votes /\ u.agreed = t.agreed /\ u.status = t.status
          /\ u.speaker = t.speaker /\ u.pass = t.pass
      BY <2>1, <3>1 DEF Talks
    <3>4. Voting(u)
      BY <2>1, <3>2, <3>3 DEF Voting, Complete
    <3>5. t.place # "none"
      BY <3>2 DEF Room!Running
    <3> QED BY <2>3, <3>3, <3>4, <3>5 DEF u, t
  <2>4. CASE o # m /\ ~(o = talk[m].seen /\ Room!Older(m, o))
    <3>1. u = t
      BY <1>2, <2>4
    <3> QED BY <2>1, <3>1
  <2> QED BY <2>2, <2>3, <2>4
<1>5. \A q : Room!Seen(q)' = Room!Seen(q) /\ Room!Latest(q)' = Room!Latest(q)
  BY <1>3, LatestStays
<1>6. RoomTypes'
  <2>1. talk' \in [Room!Messages -> Talks]
    <3>1. talk' = [o \in Room!Messages |-> talk'[o]]
      BY <1>2
    <3> QED BY <1>4, <3>1
  <2> QED BY <1>1, <1>3, <2>1 DEF RoomTypes
<1>7. Numbered'
  BY <1>1, <1>3, <1>4 DEF Numbered
<1>8. ASSUME NEW o \in Room!Messages, talk'[o].place # "none" PROVE Said(o)'
  <2>1. Said(o)
    BY <1>4, <1>8 DEF RoomInv
  <2> QED BY <1>3, <1>4, <1>5, <2>1 DEF Said
<1>9. Room!RepliesFit'
  <2>1. \A q : Room!Seen(q)' = Room!Seen(q)
    BY <1>5
  <2>2. log' = log
    BY <1>3
  <2> QED BY <1>1, <2>1, <2>2, Zenon DEF Room!RepliesFit
<1>10. ASSUME NEW o \in Room!Messages PROVE Overdue(o)'
  <2> SUFFICES ASSUME talk'[o].cancel, o \notin stopped PROVE Overdue(o)'
    BY <1>3 DEF Overdue
  <2>1. CASE talk[o].cancel
    <3>1. talk[o].room \in gone \/ Room!Latest(talk[o].room) > o
      BY <1>1, <2>1 DEF Room!OvertakenOnly
    <3> QED BY <1>3, <1>4, <1>5, <3>1 DEF Overdue
  <2>2. CASE Room!Older(m, o)
    <3>1. talk[o].room = talk[m].room /\ o < m
      BY <2>2 DEF Room!Older
    <3>2. talk[m].room \in Rooms /\ (talk[m].room \in gone \/ Room!Latest(talk[m].room) >= m)
      BY <1>3 DEF RoomInv, Said
    <3>3. talk[o].room \in gone \/ Room!Latest(talk[o].room) > o
      BY <1>1, <3>1, <3>2, LatestIsSaid, MessagesArePositive
    <3> QED BY <1>3, <1>4, <1>5, <3>3 DEF Overdue
  <2> QED BY <1>4, <2>1, <2>2
<1>11. Room!OvertakenOnly'
  BY <1>10 DEF Overdue, Room!OvertakenOnly
<1> QED BY <1>4, <1>6, <1>7, <1>8, <1>9, <1>11 DEF RoomInv

LEMMA RoomStep == RoomInv /\ [Room!Next]_(Room!roomsVars) => RoomInv'
<1> SUFFICES ASSUME RoomInv, [Room!Next]_(Room!roomsVars) PROVE RoomInv'
  OBVIOUS
<1>1. ASSUME NEW r \in Rooms, Room!Send(r) PROVE RoomInv'
  BY <1>1, SendStep
<1>2. ASSUME NEW r \in Rooms, Room!Delete(r) PROVE RoomInv'
  BY <1>2, DeleteStep
<1>3. ASSUME NEW m \in Room!Messages, Room!Discuss(m) \/ Room!Stop(m) PROVE RoomInv'
  BY <1>3, QuietStep, DispatchStep, AskStep, AnsweredStep, PublishStep, SilentStep,
     LeavingStep DEF Room!Discuss
<1>4. CASE UNCHANGED Room!roomsVars
  <2>1. UNCHANGED <<nextMessage, log, gone, talk, speaking, stopped>>
    BY <1>4 DEF Room!roomsVars
  <2>2. \A q : Room!Seen(q)' = Room!Seen(q) /\ Room!Latest(q)' = Room!Latest(q)
    BY <2>1, LatestStays
  <2>3. RoomTypes' /\ Numbered'
    BY <2>1 DEF RoomInv, RoomTypes, Numbered
  <2>4. ASSUME NEW o \in Room!Messages
        PROVE  (talk'[o].place # "none" => Said(o)') /\ Voting(talk'[o])
    BY <2>1, <2>2 DEF RoomInv, Said
  <2>5. Room!RepliesFit'
    <3>1. \A q : Room!Seen(q)' = Room!Seen(q)
      BY <2>2
    <3> QED BY <2>1, <3>1, Zenon DEF Room!RepliesFit, RoomInv
  <2>6. Room!OvertakenOnly'
    BY <2>1, <2>2 DEF Room!OvertakenOnly, RoomInv
  <2> QED BY <2>3, <2>4, <2>5, <2>6 DEF RoomInv
<1> QED BY <1>1, <1>2, <1>3, <1>4 DEF Room!Next

-----------------------------------------------------------------------------
(* Flow *)

\* An instance has a copy of Cardinality.
LEMMA FlowCounts == ASSUME NEW S PROVE Flow!Cardinality(S) = Cardinality(S)
BY DEF Flow!Cardinality, Cardinality

Nodes == Flow!Nodes
Places == {"waiting", "ready", "spawned", "started", "reasoning", "detached", "ended", "over"}
Ends == {"none", "stopped", "blocked", "ok", "error"}

\* The nodes whose edges Kahn's algorithm has used.
Used == {v \in Nodes : pending[v] = 0 /\ \A k \in DOMAIN queue : queue[k] # v}

GraphTypes ==
    /\ edges \in SUBSET (Nodes \X Nodes)
    /\ indeg \in [Nodes -> Nat] /\ pending \in [Nodes -> Nat] /\ layer \in [Nodes -> Nat]

\* A degree counts the edges into a node, a pending one those not yet used;
\* the nodes in the queue are those that are free and still to be used; and
\* what was used has its successors in later layers.
Layered ==
    /\ \A v \in Nodes : indeg[v] = Cardinality(Flow!Pred(v))
    /\ phase = "layering" =>
          /\ queue \in Seq(Nodes)
          /\ \A j, k \in DOMAIN queue : queue[j] = queue[k] => j = k
          /\ \A k \in DOMAIN queue : pending[queue[k]] = 0
          /\ \A v \in Nodes : pending[v] = Cardinality(Flow!Pred(v) \ Used)
          /\ \A u, v \in Nodes : u \in Used /\ v \in Flow!Succ(u) => layer[u] < layer[v]
    /\ phase = "cyclic" => \E S \in (SUBSET Nodes) \ {{}} : \A v \in S : Flow!Pred(v) \cap S # {}
    /\ phase \in {"running", "over"} =>
          \A u, v \in Nodes : v \in Flow!Succ(u) => layer[u] < layer[v]

\* The layers below the one that runs are over, those above it wait.
Climbing ==
    /\ level \in Nat
    /\ \A i \in Nodes : layer[i] < level => at[i] = "over"
    /\ \A i \in Nodes : layer[i] > level => at[i] = "waiting"
    /\ phase \notin {"running", "over"} =>
          level = 0 /\ \A i \in Nodes : at[i] = "waiting" /\ rc[i] = "none"

\* What was taken up has what it builds on, what was left out lacks some of it.
Grounded ==
    /\ \A i \in Nodes : at[i] \notin {"waiting", "over"} =>
          \A u \in Flow!Pred(i) : at[u] = "over" /\ rc[u] = "ok"
    /\ \A i \in Nodes : rc[i] = "blocked" =>
          \E u \in Flow!Pred(i) : at[u] = "over" /\ rc[u] # "ok"

RunTypes ==
    /\ at \in [Nodes -> Places] /\ rc \in [Nodes -> Ends]
    /\ engine \in [Nodes -> {"none", "live", "freed"}] /\ attached \in [Nodes -> BOOLEAN]
    /\ shown \in [Nodes -> Ends \cup {"queued", "running"}]

\* The table shows how nodes ended and only engines that reason.
Shows ==
    /\ held => \A i \in Nodes : at[i] = "over" => shown[i] = rc[i]
    /\ \A i \in Nodes : attached[i] => at[i] = "reasoning"
    /\ \A i \in Nodes : at[i] = "reasoning" => engine[i] = "live"

Bounded == Cardinality(Flow!Busy) <= MaxParallel

Ended ==
    phase = "over" => /\ \A i \in Nodes : at[i] = "over"
                      /\ verdict = "ok" <=> \A i \in Nodes : rc[i] = "ok"

FlowInv ==
    /\ GraphTypes /\ Layered /\ RunTypes /\ Climbing /\ Grounded /\ Shows /\ Bounded /\ Ended

LEMMA FlowInvIsEnough == FlowInv => Flow!FlowSafe
<1> SUFFICES ASSUME FlowInv PROVE Flow!FlowSafe
  OBVIOUS
<1>1. Flow!LayersFit
  <2>1. phase = "cyclic" => \E S \in (SUBSET Nodes) \ {{}} : \A v \in S : Flow!Pred(v) \cap S # {}
    BY DEF FlowInv, Layered
  <2>2. ASSUME phase = "running", NEW e \in edges PROVE layer[e[1]] < layer[e[2]]
    <3>1. e[1] \in Nodes /\ e[2] \in Nodes /\ e = <<e[1], e[2]>>
      BY DEF FlowInv, GraphTypes
    <3>2. e[2] \in Flow!Succ(e[1])
      BY <2>2, <3>1 DEF Flow!Succ, Nodes
    <3> QED BY <2>2, <3>1, <3>2 DEF FlowInv, Layered
  <2> QED BY <2>1, <2>2 DEF Flow!LayersFit, Nodes
<1>2. Flow!NodeHasInputs
  BY DEF FlowInv, Grounded, Flow!NodeHasInputs, Flow!Busy, Nodes
<1>3. Flow!VerdictFits
  <2> SUFFICES ASSUME phase = "over" PROVE Flow!VerdictFits
    BY DEF Flow!VerdictFits
  <2>1. /\ \A i \in Nodes : at[i] = "over"
        /\ verdict = "ok" <=> \A i \in Nodes : rc[i] = "ok"
        /\ \A i \in Nodes : rc[i] = "blocked" => \E u \in Flow!Pred(i) : rc[u] # "ok"
    BY DEF FlowInv, Ended, Grounded
  <2>2. held => \A i \in Nodes : shown[i] = rc[i]
    BY <2>1 DEF FlowInv, Shows
  <2>3. held => shown = rc
    BY <2>2 DEF FlowInv, RunTypes
  <2> QED BY <2>1, <2>3 DEF Flow!VerdictFits, Nodes
<1>4. Flow!EngineLives
  BY FlowCounts DEF FlowInv, Shows, Bounded, Flow!EngineLives, Nodes
<1> QED BY <1>1, <1>2, <1>3, <1>4 DEF Flow!FlowSafe

LEMMA FlowStarts == Flow!Init => FlowInv
<1> SUFFICES ASSUME Flow!Init PROVE FlowInv
  OBVIOUS
<1>1. GraphTypes /\ RunTypes /\ Climbing /\ Grounded /\ Shows /\ Ended
  BY DEF Flow!Init, Flow!All, GraphTypes, RunTypes, Climbing, Grounded, Shows, Ended, Nodes,
         Places, Ends
<1>2. Layered
  <2>1. \A v \in Nodes : Flow!Pred(v) = {}
    BY DEF Flow!Init, Flow!Pred
  <2> QED BY <2>1, FS_EmptySet DEF Flow!Init, Flow!All, Layered, Nodes
<1>3. Bounded
  <2>1. Flow!Busy = {}
    BY DEF Flow!Init, Flow!All, Flow!Busy, Nodes
  <2> QED BY <2>1, FS_EmptySet, FlowAssumption DEF Bounded
<1> QED BY <1>1, <1>2, <1>3 DEF FlowInv

\* Sets of nodes are finite.
LEMMA NodesAreFinite ==
    ASSUME NEW S \in SUBSET Nodes PROVE IsFiniteSet(S) /\ Cardinality(S) \in Nat
<1>1. IsFiniteSet(Nodes)
  BY FS_Interval, FlowAssumption DEF Nodes, Flow!Nodes
<1> QED BY <1>1, FS_Subset, FS_CardinalityType

\* A set of nodes can be put in order: a least one that cannot has a largest
\* node, and the others can.
LEMMA OrderExists ==
    ASSUME NEW S \in SUBSET Nodes
    PROVE  \E q \in [1 .. Cardinality(S) -> S] :
              \A i, j \in 1 .. Cardinality(S) : i < j => q[i] < q[j]
<1> DEFINE Ordered(T) == \E q \in [1 .. Cardinality(T) -> T] :
                            \A i, j \in 1 .. Cardinality(T) : i < j => q[i] < q[j]
           Bad == {n \in Nat : \E T \in SUBSET Nodes : Cardinality(T) = n /\ ~Ordered(T)}
<1> SUFFICES ASSUME ~Ordered(S) PROVE FALSE
  OBVIOUS
<1>1. Bad \subseteq Nat /\ Cardinality(S) \in Bad
  BY NodesAreFinite
<1> HIDE DEF Bad
<1>2. PICK n \in Bad : \A k \in Bad : <<k, n>> \notin OpToRel(<, Nat)
  BY <1>1, WFMin, NatLessThanWellFounded, Zenon
<1>3. \A k \in Bad : ~(k < n)
  BY <1>1, <1>2, Zenon DEF OpToRel
<1>4. PICK T \in SUBSET Nodes : Cardinality(T) = n /\ ~Ordered(T)
  BY <1>2 DEF Bad
<1>5. IsFiniteSet(T) /\ n \in Nat /\ T \subseteq Nat
  BY <1>4, NodesAreFinite, FlowAssumption DEF Nodes, Flow!Nodes
<1>6. T # {}
  <2> SUFFICES ASSUME T = {} PROVE FALSE
    OBVIOUS
  <2>1. Cardinality(T) = 0 /\ 1..0 = {}
    BY FS_EmptySet
  <2>2. [x \in 1..0 |-> x] \in [1..0 -> T]
    BY <2>1
  <2>3. Ordered(T)
    BY <2>1, <2>2
  <2> QED BY <1>4, <2>3
<1>7. PICK m \in T : \A k \in T : k <= m
  <2>1. \A k \in T : k \in 0..N
    BY FlowAssumption DEF Nodes, Flow!Nodes
  <2> QED BY <1>6, <2>1, LargestExists, FlowAssumption
<1> DEFINE U == T \ {m}
<1>8. Cardinality(U) = n - 1 /\ U \in SUBSET Nodes /\ n - 1 \in Nat
  <2>1. Cardinality(U) = n - 1 /\ U \in SUBSET Nodes
    BY <1>4, <1>5, FS_RemoveElement
  <2> QED BY <2>1, NodesAreFinite
<1>9. Ordered(U)
  <2>1. ~(n - 1 \in Bad)
    BY <1>3, <1>5, <1>8
  <2> QED BY <1>8, <2>1 DEF Bad
<1>10. PICK q \in [1 .. n - 1 -> U] : \A i, j \in 1 .. n - 1 : i < j => q[i] < q[j]
  BY <1>8, <1>9
<1> DEFINE p == [i \in 1 .. n |-> IF i = n THEN m ELSE q[i]]
<1>11. p \in [1 .. n -> T]
  BY <1>5, <1>7, <1>10
<1>12. ASSUME NEW i \in 1 .. n, NEW j \in 1 .. n, i < j PROVE p[i] < p[j]
  <2>1. i \in 1 .. n - 1 /\ p[i] = q[i] /\ q[i] \in U
    BY <1>5, <1>10, <1>12
  <2>2. CASE j = n
    <3>1. q[i] <= m /\ q[i] # m /\ q[i] \in Nat /\ m \in Nat /\ p[j] = m
      BY <1>5, <1>7, <2>1, <2>2
    <3> QED BY <2>1, <3>1
  <2>3. CASE j # n
    <3>1. j \in 1 .. n - 1 /\ p[j] = q[j]
      BY <1>5, <2>3
    <3> QED BY <1>10, <1>12, <2>1, <3>1
  <2> QED BY <2>2, <2>3
<1>13. Ordered(T)
  BY <1>4, <1>11, <1>12
<1> QED BY <1>4, <1>13

LEMMA OrderHasAll ==
    ASSUME NEW S \in SUBSET Nodes
    PROVE  LET q == Flow!InOrder(S)
           IN  /\ q \in Seq(S) /\ \A i, j \in DOMAIN q : q[i] = q[j] => i = j
               /\ \A v \in S : \E k \in DOMAIN q : q[k] = v
<1> DEFINE q == Flow!InOrder(S)
           n == Cardinality(S)
<1>1. q = CHOOSE p \in [1 .. n -> S] : \A i, j \in 1 .. n : i < j => p[i] < p[j]
  BY FlowCounts DEF Flow!InOrder
<1>2. q \in [1 .. n -> S] /\ \A i, j \in 1 .. n : i < j => q[i] < q[j]
  BY <1>1, OrderExists
<1>3. IsFiniteSet(S) /\ n \in Nat /\ S \subseteq Nat
  BY NodesAreFinite, FlowAssumption DEF Nodes, Flow!Nodes
<1> HIDE DEF q, n
<1>4. ASSUME NEW i \in 1 .. n, NEW j \in 1 .. n, q[i] = q[j] PROVE i = j
  <2>1. q[i] \in S /\ q[j] \in S
    BY <1>2
  <2>2. q[i] \in Nat /\ q[j] \in Nat
    BY <1>3, <2>1
  <2>3. i \in Nat /\ j \in Nat
    BY <1>3
  <2> QED BY <1>2, <1>4, <2>2, <2>3
<1>5. q \in Injection(1 .. n, S)
  BY <1>2, <1>4 DEF Injection, IsInjective
<1>6. Cardinality(1 .. n) = n
  BY <1>3, FS_Interval
<1>7. q \in Surjection(1 .. n, S)
  BY <1>3, <1>5, <1>6, FS_Injection DEF n
<1> QED BY <1>2, <1>3, <1>4, <1>7 DEF q, Surjection

\* While the graph is read nothing runs.
LEMMA GraphStepLeavesRun ==
    ASSUME FlowInv, phase \notin {"running", "over"}, phase' \notin {"running", "over"},
           layer' \in [Nodes -> Nat],
           UNCHANGED <<level, at, rc, engine, shown, attached, held, verdict>>
    PROVE  RunTypes' /\ Climbing' /\ Grounded' /\ Shows' /\ Bounded' /\ Ended'
<1>1. RunTypes' /\ Shows' /\ Ended'
  BY DEF FlowInv, RunTypes, Shows, Ended
<1>2. level' = 0 /\ \A i \in Nodes : at'[i] = "waiting" /\ rc'[i] = "none"
  BY DEF FlowInv, Climbing
<1>3. Climbing' /\ Grounded'
  BY <1>2 DEF Climbing, Grounded
<1>4. Bounded'
  BY DEF FlowInv, Bounded, Flow!Busy
<1> QED BY <1>1, <1>3, <1>4

\* While it runs the graph stays.
LEMMA RunStepLeavesGraph ==
    ASSUME FlowInv, UNCHANGED Flow!graph,
           phase' = phase \/ (phase = "running" /\ phase' = "over")
    PROVE  GraphTypes' /\ Layered'
<1>1. UNCHANGED <<edges, indeg, queue, pending, layer>>
  BY DEF Flow!graph
<1>2. GraphTypes'
  BY <1>1 DEF FlowInv, GraphTypes
<1>3. Used' = Used /\ \A v \in Nodes : Flow!Pred(v)' = Flow!Pred(v) /\ Flow!Succ(v)' = Flow!Succ(v)
  BY <1>1 DEF Used, Flow!Pred, Flow!Succ
<1>4. CASE phase' = phase
  BY <1>1, <1>2, <1>3, <1>4 DEF FlowInv, Layered
<1>5. CASE phase = "running" /\ phase' = "over"
  BY <1>1, <1>2, <1>3, <1>5 DEF FlowInv, Layered
<1> QED BY <1>2, <1>4, <1>5

LEMMA AddEdgeStep ==
    ASSUME FlowInv, NEW u \in Nodes, NEW v \in Nodes, Flow!AddEdge(u, v) PROVE FlowInv'
<1>1. /\ phase = "parsing" /\ phase' = phase /\ edges' = edges \cup {<<u, v>>}
      /\ indeg' = IF <<u, v>> \in edges THEN indeg ELSE [indeg EXCEPT ![v] = @ + 1]
      /\ UNCHANGED <<pending, layer, level, at, rc, engine, shown, attached, held, verdict>>
  BY DEF Flow!AddEdge, Flow!Count, Flow!table
<1>2. GraphTypes'
  BY <1>1 DEF FlowInv, GraphTypes
<1>3. ASSUME NEW x \in Nodes PROVE indeg'[x] = Cardinality(Flow!Pred(x)')
  <2>1. indeg[x] = Cardinality(Flow!Pred(x)) /\ IsFiniteSet(Flow!Pred(x))
    <3>1. Flow!Pred(x) \in SUBSET Nodes
      BY DEF Flow!Pred, Nodes
    <3> QED BY <3>1, NodesAreFinite DEF FlowInv, Layered
  <2>2. CASE <<u, v>> \in edges \/ x # v
    <3>1. Flow!Pred(x)' = Flow!Pred(x) /\ indeg'[x] = indeg[x]
      BY <1>1, <2>2 DEF Flow!Pred, FlowInv, GraphTypes
    <3> QED BY <2>1, <3>1
  <2>3. CASE <<u, v>> \notin edges /\ x = v
    <3>1. Flow!Pred(x)' = Flow!Pred(x) \cup {u} /\ u \notin Flow!Pred(x)
      BY <1>1, <2>3 DEF Flow!Pred, Nodes
    <3>2. indeg'[x] = indeg[x] + 1
      BY <1>1, <2>3 DEF FlowInv, GraphTypes
    <3> QED BY <2>1, <3>1, <3>2, FS_AddElement
  <2> QED BY <2>2, <2>3
<1>4. Layered'
  BY <1>1, <1>3 DEF Layered
<1> QED BY <1>1, <1>2, <1>4, GraphStepLeavesRun DEF FlowInv, GraphTypes

\* The document is refused.
LEMMA RefuseStep ==
    ASSUME FlowInv, Flow!ParseFails \/ Flow!CycleFound \/ Flow!NoAgent PROVE FlowInv'
<1>1. /\ phase \in {"parsing", "layering"}
      /\ UNCHANGED <<edges, indeg, queue, pending, layer, level, at, rc, engine,
                     shown, attached, held, verdict>>
  BY DEF Flow!ParseFails, Flow!CycleFound, Flow!NoAgent, Flow!Refuse, Flow!graph, Flow!table
<1>2. /\ phase' \in {"malformed", "cyclic", "unknown agent"}
      /\ phase' = "cyclic" => Flow!CycleFound
  BY DEF Flow!ParseFails, Flow!CycleFound, Flow!NoAgent, Flow!Refuse
<1>3. GraphTypes'
  BY <1>1 DEF FlowInv, GraphTypes
<1>4. ASSUME Flow!CycleFound
      PROVE  \E S \in (SUBSET Nodes) \ {{}} : \A v \in S : Flow!Pred(v) \cap S # {}
  <2> DEFINE S == {v \in Nodes : pending[v] # 0}
  <2>1. phase = "layering" /\ queue = <<>> /\ S # {}
    BY <1>4 DEF Flow!CycleFound, Flow!Cyclic, Nodes
  <2>2. Used = Nodes \ S
    BY <2>1 DEF Used
  <2>3. ASSUME NEW v \in S PROVE Flow!Pred(v) \cap S # {}
    <3>1. Cardinality(Flow!Pred(v) \ Used) # 0
      BY <2>1 DEF FlowInv, Layered
    <3>2. Flow!Pred(v) \ Used # {}
      BY <3>1, FS_EmptySet
    <3> QED BY <2>2, <3>2 DEF Flow!Pred, Nodes
  <2> QED BY <2>1, <2>3
<1>5. \A v \in Nodes : Flow!Pred(v)' = Flow!Pred(v)
  BY <1>1 DEF Flow!Pred
<1>6. \A v \in Nodes : indeg'[v] = Cardinality(Flow!Pred(v)')
  BY <1>1, <1>5 DEF FlowInv, Layered
<1>7. phase' = "cyclic" => \E S \in (SUBSET Nodes) \ {{}} : \A v \in S : Flow!Pred(v)' \cap S # {}
  BY <1>2, <1>4, <1>5
<1>8. Layered'
  BY <1>2, <1>6, <1>7 DEF Layered
<1>9. phase \notin {"running", "over"} /\ phase' \notin {"running", "over"} /\ layer' \in [Nodes -> Nat]
  BY <1>1, <1>2, <1>3 DEF GraphTypes
<1> QED BY <1>1, <1>3, <1>8, <1>9, GraphStepLeavesRun DEF FlowInv

LEMMA LayerStartsStep == ASSUME FlowInv, Flow!LayerStarts PROVE FlowInv'
<1> DEFINE S == {i \in Nodes : indeg[i] = 0}
<1>1. /\ phase = "parsing" /\ phase' = "layering" /\ queue' = Flow!InOrder(S)
      /\ pending' = indeg /\ layer' = [i \in Nodes |-> 0]
      /\ UNCHANGED <<edges, indeg, level, at, rc, engine, shown, attached, held, verdict>>
  BY DEF Flow!LayerStarts, Flow!All, Flow!table, Nodes
<1>2. GraphTypes'
  BY <1>1 DEF FlowInv, GraphTypes
<1>3. /\ queue' \in Seq(S) /\ \A i, j \in DOMAIN queue' : queue'[i] = queue'[j] => i = j
      /\ \A v \in S : \E k \in DOMAIN queue' : queue'[k] = v
  BY <1>1, OrderHasAll
<1>4. Used' = {}
  BY <1>1, <1>3 DEF Used
<1>5. \A v \in Nodes : indeg[v] = Cardinality(Flow!Pred(v)) /\ Flow!Pred(v)' = Flow!Pred(v)
  BY <1>1 DEF FlowInv, Layered, Flow!Pred
<1>6. queue' \in Seq(Nodes) /\ \A k \in DOMAIN queue' : pending'[queue'[k]] = 0
  <2>1. queue' \in Seq(Nodes) /\ \A k \in DOMAIN queue' : queue'[k] \in S
    BY <1>3
  <2> QED BY <1>1, <2>1
<1>7. \A v \in Nodes : pending'[v] = Cardinality(Flow!Pred(v)' \ {})
  BY <1>1, <1>5
<1>8. Layered'
  BY <1>1, <1>3, <1>4, <1>5, <1>6, <1>7 DEF Layered
<1>9. phase \notin {"running", "over"} /\ phase' \notin {"running", "over"} /\ layer' \in [Nodes -> Nat]
  BY <1>1, <1>2 DEF GraphTypes
<1> QED BY <1>1, <1>2, <1>8, <1>9, GraphStepLeavesRun DEF FlowInv

\* The head of the queue is used: its successors lose an edge, and those that
\* lose their last one join the queue.
LEMMA LayerNextStep == ASSUME FlowInv, Flow!LayerNext PROVE FlowInv'
<1> DEFINE u == Head(queue)
           S == {v \in Flow!Succ(u) : pending[v] = 1}
           r == Flow!InOrder(S)
<1>1. /\ phase = "layering" /\ phase' = phase /\ queue # <<>>
      /\ layer' = [v \in Nodes |-> IF v \in Flow!Succ(u) /\ layer[u] + 1 > layer[v]
                                   THEN layer[u] + 1 ELSE layer[v]]
      /\ pending' = [v \in Nodes |-> IF v \in Flow!Succ(u) THEN pending[v] - 1 ELSE pending[v]]
      /\ queue' = Tail(queue) \o r
      /\ UNCHANGED <<edges, indeg, level, at, rc, engine, shown, attached, held, verdict>>
  BY DEF Flow!LayerNext, Flow!table, Nodes
<1>2. /\ queue \in Seq(Nodes) /\ \A j, k \in DOMAIN queue : queue[j] = queue[k] => j = k
      /\ \A k \in DOMAIN queue : pending[queue[k]] = 0
      /\ \A v \in Nodes : pending[v] = Cardinality(Flow!Pred(v) \ Used)
      /\ \A x, v \in Nodes : x \in Used /\ v \in Flow!Succ(x) => layer[x] < layer[v]
      /\ pending \in [Nodes -> Nat] /\ layer \in [Nodes -> Nat]
      /\ edges \in SUBSET (Nodes \X Nodes) /\ indeg \in [Nodes -> Nat]
  BY <1>1 DEF FlowInv, Layered, GraphTypes
<1>3. u \in Nodes /\ u = queue[1] /\ 1 \in DOMAIN queue /\ pending[u] = 0 /\ u \notin Used
  BY <1>1, <1>2 DEF Used
<1>4. \A v \in Nodes : IsFiniteSet(Flow!Pred(v) \ Used)
  <2>1. \A v \in Nodes : Flow!Pred(v) \ Used \in SUBSET Nodes
    BY DEF Flow!Pred, Nodes
  <2> QED BY <2>1, NodesAreFinite
<1>5. \A v \in Flow!Succ(u) : v \in Nodes /\ u \in Flow!Pred(v) \ Used /\ pending[v] > 0
  <2> SUFFICES ASSUME NEW v \in Flow!Succ(u)
               PROVE  v \in Nodes /\ u \in Flow!Pred(v) \ Used /\ pending[v] > 0
    OBVIOUS
  <2>1. v \in Nodes /\ u \in Flow!Pred(v) \ Used
    BY <1>3 DEF Flow!Succ, Flow!Pred, Nodes
  <2>2. Cardinality(Flow!Pred(v) \ Used) # 0
    BY <1>4, <2>1, FS_EmptySet
  <2> QED BY <1>2, <2>1, <2>2
<1>6. S \in SUBSET Nodes
  BY <1>5
<1>7. /\ r \in Seq(S) /\ \A i, j \in DOMAIN r : r[i] = r[j] => i = j
      /\ \A v \in S : \E k \in DOMAIN r : r[k] = v
  BY <1>6, OrderHasAll
<1> HIDE DEF u, S, r
<1>8. /\ queue' \in Seq(Nodes) /\ Len(queue') = Len(queue) - 1 + Len(r)
      /\ \A k \in DOMAIN queue' : IF k < Len(queue) THEN queue'[k] = queue[k + 1]
                                  ELSE queue'[k] = r[k - Len(queue) + 1] /\ queue'[k] \in S
      /\ \A k \in 1 .. Len(r) : queue'[Len(queue) - 1 + k] = r[k]
  <2>1. r \in Seq(Nodes) /\ Tail(queue) \in Seq(Nodes) /\ Len(Tail(queue)) = Len(queue) - 1
    BY <1>1, <1>2, <1>6, <1>7
  <2>2. /\ Len(queue) \in Nat /\ Len(r) \in Nat
        /\ \A k \in 1 .. Len(queue) - 1 : Tail(queue)[k] = queue[k + 1]
        /\ \A k \in 1 .. Len(r) : r[k] \in S
    BY <1>1, <1>2, <1>7
  <2>3. queue' \in Seq(Nodes) /\ Len(queue') = Len(queue) - 1 + Len(r)
    BY <1>1, <2>1, <2>2
  <2>4. \A k \in 1 .. Len(queue') : queue'[k] = IF k <= Len(queue) - 1 THEN Tail(queue)[k]
                                                ELSE r[k - (Len(queue) - 1)]
    BY <1>1, <2>1, <2>2, <2>3
  <2>5. ASSUME NEW k \in DOMAIN queue'
        PROVE  IF k < Len(queue) THEN queue'[k] = queue[k + 1]
               ELSE queue'[k] = r[k - Len(queue) + 1] /\ queue'[k] \in S
    <3>1. k \in 1 .. Len(queue') /\ k \in Nat
      BY <2>3
    <3>2. CASE k < Len(queue)
      <4>1. k \in 1 .. Len(queue) - 1
        BY <2>2, <3>1, <3>2
      <4> QED BY <2>2, <2>4, <3>1, <3>2, <4>1
    <3>3. CASE ~(k < Len(queue))
      <4>1. k - (Len(queue) - 1) \in 1 .. Len(r) /\ ~(k <= Len(queue) - 1)
            /\ k - (Len(queue) - 1) = k - Len(queue) + 1
        BY <2>2, <2>3, <3>1, <3>3
      <4>2. queue'[k] = r[k - Len(queue) + 1]
        BY <2>4, <3>1, <4>1
      <4> QED BY <2>2, <3>3, <4>1, <4>2
    <3> QED BY <3>2, <3>3
  <2>6. ASSUME NEW k \in 1 .. Len(r) PROVE queue'[Len(queue) - 1 + k] = r[k]
    <3>1. /\ Len(queue) - 1 + k \in 1 .. Len(queue') /\ ~(Len(queue) - 1 + k <= Len(queue) - 1)
          /\ (Len(queue) - 1 + k) - (Len(queue) - 1) = k
      BY <1>1, <1>2, <2>2, <2>3
    <3> QED BY <2>4, <3>1
  <2> QED BY <2>3, <2>5, <2>6
<1>dom. /\ Len(queue) \in Nat \ {0} /\ Len(r) \in Nat
      /\ DOMAIN queue = 1 .. Len(queue) /\ DOMAIN r = 1 .. Len(r)
      /\ DOMAIN queue' = 1 .. Len(queue) - 1 + Len(r)
  BY <1>1, <1>2, <1>7, <1>8
<1>9. \A v \in Nodes : /\ pending'[v] = IF v \in Flow!Succ(u) THEN pending[v] - 1 ELSE pending[v]
                       /\ pending'[v] \in Nat
                       /\ layer'[v] \in Nat /\ layer'[v] >= layer[v]
                       /\ v \in Flow!Succ(u) => layer'[v] > layer[u]
                       /\ v \notin Flow!Succ(u) => layer'[v] = layer[v]
  BY <1>1, <1>2, <1>3, <1>5
<1>10. u \notin Flow!Succ(u) /\ \A v \in Used : v \notin Flow!Succ(u)
  BY <1>3, <1>5 DEF Used
<1>11. Used' = Used \cup {u}
  <2>1. ASSUME NEW v \in Used' PROVE v \in Used \cup {u}
    <3>1. v \in Nodes /\ pending'[v] = 0 /\ \A k \in DOMAIN queue' : queue'[k] # v
      BY <2>1 DEF Used
    <3>2. v \notin S
      <4> SUFFICES ASSUME v \in S PROVE FALSE
        OBVIOUS
      <4>1. PICK k \in DOMAIN r : r[k] = v
        BY <1>7
      <4>2. k \in 1 .. Len(r) /\ Len(queue) \in Nat \ {0} /\ Len(r) \in Nat
        <5>1. r \in Seq(S)
          BY <1>7
        <5>2. queue \in Seq(Nodes) /\ queue # <<>>
          BY <1>1, <1>2
        <5> QED BY <4>1, <5>1, <5>2
      <4>3. Len(queue) - 1 + k \in DOMAIN queue' /\ queue'[Len(queue) - 1 + k] = v
        BY <1>8, <4>1, <4>2
      <4> QED BY <3>1, <4>3
    <3>3. v \notin Flow!Succ(u)
      BY <1>2, <1>5, <1>9, <3>1, <3>2 DEF S
    <3>4. pending[v] = 0
      BY <1>9, <3>1, <3>3
    <3>5. ASSUME v # u, NEW k \in DOMAIN queue PROVE queue[k] # v
      <4>1. CASE k = 1
        BY <1>3, <3>5, <4>1
      <4>2. CASE k # 1
        <5>1. k - 1 \in DOMAIN queue' /\ k - 1 < Len(queue) /\ k - 1 + 1 = k
          BY <1>dom, <4>2
        <5>2. queue'[k - 1] = queue[k]
          BY <1>8, <5>1
        <5> QED BY <3>1, <5>1, <5>2
      <4> QED BY <4>1, <4>2
    <3> QED BY <3>1, <3>4, <3>5 DEF Used
  <2>2. ASSUME NEW v \in Used \cup {u} PROVE v \in Used'
    <3>1. v \in Nodes /\ pending[v] = 0 /\ v \notin Flow!Succ(u)
      BY <1>3, <1>10 DEF Used
    <3>2. v \notin S
      BY <3>1 DEF S
    <3>3. ASSUME NEW k \in DOMAIN queue' PROVE queue'[k] # v
      <4>1. CASE k < Len(queue)
        <5>1. k + 1 \in DOMAIN queue /\ k + 1 # 1
          BY <1>dom, <4>1
        <5>3. queue'[k] = queue[k + 1]
          BY <1>8, <4>1
        <5> QED BY <1>2, <1>3, <5>1, <5>3 DEF Used
      <4>2. CASE ~(k < Len(queue))
        BY <1>8, <3>2, <4>2
      <4> QED BY <4>1, <4>2
    <3> QED BY <1>9, <3>1, <3>3 DEF Used
  <2> QED BY <2>1, <2>2
<1>12. \A v \in Nodes : Flow!Pred(v)' = Flow!Pred(v) /\ Flow!Succ(v)' = Flow!Succ(v)
  BY <1>1 DEF Flow!Pred, Flow!Succ
<1>13. ASSUME NEW v \in Nodes PROVE pending'[v] = Cardinality(Flow!Pred(v)' \ Used')
  <2>1. Flow!Pred(v)' \ Used' = (Flow!Pred(v) \ Used) \ {u}
    BY <1>11, <1>12
  <2>2. Cardinality((Flow!Pred(v) \ Used) \ {u}) =
           IF u \in Flow!Pred(v) \ Used THEN pending[v] - 1 ELSE pending[v]
    <3> DEFINE P == Flow!Pred(v) \ Used
    <3>1. IsFiniteSet(P) /\ pending[v] = Cardinality(P)
      BY <1>2, <1>4
    <3> HIDE DEF P
    <3>2. Cardinality(P \ {u}) = IF u \in P THEN Cardinality(P) - 1 ELSE Cardinality(P)
      BY <3>1, FS_RemoveElement
    <3> QED BY <3>1, <3>2 DEF P
  <2>3. u \in Flow!Pred(v) \ Used <=> v \in Flow!Succ(u)
    BY <1>3, <1>5 DEF Flow!Pred, Flow!Succ, Nodes
  <2> QED BY <1>9, <2>1, <2>2, <2>3
<1>14. ASSUME NEW x \in Nodes, NEW v \in Nodes, x \in Used', v \in Flow!Succ(x)'
       PROVE  layer'[x] < layer'[v]
  <2>1. layer'[x] = layer[x]
    BY <1>9, <1>10, <1>11, <1>14
  <2>2. CASE x = u
    BY <1>2, <1>3, <1>9, <1>12, <1>14, <2>1, <2>2
  <2>3. CASE x \in Used
    <3>1. layer[x] < layer[v]
      BY <1>2, <1>12, <1>14, <2>3
    <3> QED BY <1>2, <1>9, <2>1, <3>1
  <2> QED BY <1>11, <1>14, <2>2, <2>3
<1>15. ASSUME NEW k \in DOMAIN queue' PROVE pending'[queue'[k]] = 0
  <2>1. CASE k < Len(queue)
    <3>1. k + 1 \in DOMAIN queue /\ queue'[k] = queue[k + 1]
      <4>1. k + 1 \in DOMAIN queue
        BY <1>dom, <2>1
      <4> QED BY <1>8, <2>1, <4>1
    <3>2. queue'[k] \in Nodes /\ pending[queue'[k]] = 0
      BY <1>2, <3>1
    <3> QED BY <1>5, <1>9, <3>2
  <2>2. CASE ~(k < Len(queue))
    BY <1>5, <1>6, <1>8, <1>9, <2>2 DEF S
  <2> QED BY <2>1, <2>2
<1>16. ASSUME NEW j \in DOMAIN queue', NEW k \in DOMAIN queue', queue'[j] = queue'[k] PROVE j = k
  <2> DEFINE n == Len(queue)
  <2>1. n \in Nat /\ DOMAIN queue' = 1 .. n - 1 + Len(r) /\ Len(r) \in Nat /\ DOMAIN r = 1 .. Len(r)
        /\ DOMAIN queue = 1 .. n
    <3>1. queue' \in Seq(Nodes) /\ Len(queue') = n - 1 + Len(r)
      BY <1>8
    <3>2. n \in Nat /\ DOMAIN queue = 1 .. n
      BY <1>2
    <3>3. Len(r) \in Nat /\ DOMAIN r = 1 .. Len(r)
      BY <1>7
    <3>4. DOMAIN queue' = 1 .. Len(queue')
      BY <3>1
    <3> QED BY <3>1, <3>2, <3>3, <3>4
  <2>2. \A i \in DOMAIN queue' : i < n => queue'[i] \notin S
    <3> TAKE i \in DOMAIN queue'
    <3> HAVE i < n
    <3>1. i + 1 \in DOMAIN queue /\ queue'[i] = queue[i + 1]
      BY <1>8, <2>1
    <3> QED BY <1>2, <3>1 DEF S
  <2>3. CASE j < n /\ k < n
    <3>1. j + 1 \in DOMAIN queue /\ k + 1 \in DOMAIN queue
      BY <2>1, <2>3
    <3>2. queue[j + 1] = queue[k + 1]
      BY <1>8, <1>16, <2>3
    <3> QED BY <1>2, <2>1, <3>1, <3>2
  <2>4. CASE j >= n /\ k >= n
    <3>1. j - n + 1 \in DOMAIN r /\ k - n + 1 \in DOMAIN r
      BY <2>1, <2>4
    <3>2. ~(j < n) /\ ~(k < n)
      BY <2>1, <2>4
    <3>3. r[j - n + 1] = r[k - n + 1]
      BY <1>8, <1>16, <3>2
    <3> QED BY <1>7, <2>1, <3>1, <3>3
  <2>5. ~(j < n /\ k >= n) /\ ~(k < n /\ j >= n)
    BY <1>8, <1>16, <2>1, <2>2
  <2> QED BY <2>1, <2>3, <2>4, <2>5
<1>17. GraphTypes'
  BY <1>1, <1>2, <1>9 DEF GraphTypes
<1>18. \A v \in Nodes : indeg'[v] = Cardinality(Flow!Pred(v)')
  BY <1>1, <1>12 DEF FlowInv, Layered
<1>19. Layered'
  BY <1>1, <1>8, <1>13, <1>14, <1>15, <1>16, <1>18 DEF Layered
<1>20. phase \notin {"running", "over"} /\ phase' \notin {"running", "over"} /\ layer' \in [Nodes -> Nat]
  BY <1>1, <1>17 DEF GraphTypes
<1> QED BY <1>1, <1>17, <1>19, <1>20, GraphStepLeavesRun DEF FlowInv

LEMMA BusyIsFinite == IsFiniteSet(Flow!Busy) /\ Flow!Busy \in SUBSET Nodes
<1>1. Flow!Busy \in SUBSET Nodes
  BY DEF Flow!Busy, Nodes
<1> QED BY <1>1, NodesAreFinite

LEMMA BusyShrinks == ASSUME FlowInv, Flow!Busy' \subseteq Flow!Busy PROVE Bounded'
<1>1. /\ Cardinality(Flow!Busy') <= Cardinality(Flow!Busy)
      /\ Cardinality(Flow!Busy') \in Nat /\ Cardinality(Flow!Busy) \in Nat
  BY BusyIsFinite, FS_Subset, FS_CardinalityType
<1> QED BY <1>1, FlowAssumption DEF FlowInv, Bounded

LEMMA BeginStep == ASSUME FlowInv, Flow!Begin PROVE FlowInv'
<1>1. /\ phase = "layering" /\ phase' = "running" /\ queue = <<>> /\ ~Flow!Cyclic
      /\ held' = TRUE /\ shown' = [i \in Nodes |-> "queued"] /\ attached' = [i \in Nodes |-> FALSE]
      /\ UNCHANGED <<edges, indeg, queue, pending, layer, level, at, rc, engine, verdict>>
  BY DEF Flow!Begin, Flow!All, Flow!graph, Nodes
<1>2. GraphTypes' /\ RunTypes'
  BY <1>1 DEF FlowInv, GraphTypes, RunTypes
<1>3. level' = 0 /\ \A i \in Nodes : at'[i] = "waiting" /\ rc'[i] = "none"
  BY <1>1 DEF FlowInv, Climbing
<1>4. Climbing' /\ Grounded' /\ Shows' /\ Ended'
  BY <1>1, <1>2, <1>3 DEF GraphTypes, Climbing, Grounded, Shows, Ended
<1>5. Used = Nodes
  BY <1>1 DEF Used, Flow!Cyclic, Nodes
<1>6. \A u, v \in Nodes : v \in Flow!Succ(u) => layer[u] < layer[v]
  BY <1>1, <1>5 DEF FlowInv, Layered
<1>7. \A v \in Nodes : Flow!Pred(v)' = Flow!Pred(v) /\ Flow!Succ(v)' = Flow!Succ(v)
  BY <1>1 DEF Flow!Pred, Flow!Succ
<1>8. \A v \in Nodes : indeg'[v] = Cardinality(Flow!Pred(v)')
  BY <1>1, <1>7 DEF FlowInv, Layered
<1>9. Layered'
  BY <1>1, <1>6, <1>7, <1>8 DEF Layered
<1>10. Bounded'
  <2>1. Flow!Busy' \subseteq Flow!Busy
    BY <1>1 DEF Flow!Busy
  <2> QED BY <2>1, BusyShrinks
<1> QED BY <1>2, <1>4, <1>9, <1>10 DEF FlowInv

\* What a node builds on lies in the layers below.
LEMMA PredsAreBelow ==
    ASSUME FlowInv, phase = "running", NEW i \in Nodes, NEW u \in Flow!Pred(i)
    PROVE  u \in Nodes /\ u # i /\ layer[u] < layer[i]
<1>1. u \in Nodes /\ i \in Flow!Succ(u)
  BY DEF Flow!Pred, Flow!Succ, Nodes
<1>2. layer[u] < layer[i] /\ layer[u] \in Nat /\ layer[i] \in Nat
  BY <1>1 DEF FlowInv, Layered, GraphTypes
<1> QED BY <1>1, <1>2

\* The other steps of the run change neither the nodes nor how they ended.
LEMMA StillStep ==
    ASSUME FlowInv, Flow!SlotTaken \/ Flow!Abort \/ Flow!NextLevel \/ Flow!End PROVE FlowInv'
<1>1. /\ phase = "running" /\ UNCHANGED <<at, rc, engine>> /\ UNCHANGED Flow!graph
      /\ phase' = phase \/ (phase = "running" /\ phase' = "over")
  BY DEF Flow!SlotTaken, Flow!Abort, Flow!NextLevel, Flow!End
<1>2. GraphTypes' /\ Layered'
  BY <1>1, RunStepLeavesGraph
<1>3. UNCHANGED <<edges, layer>>
  BY <1>1 DEF Flow!graph
<1>4. Grounded'
  <2>1. \A i : Flow!Pred(i)' = Flow!Pred(i)
    BY <1>3 DEF Flow!Pred
  <2> QED BY <1>1, <2>1 DEF FlowInv, Grounded
<1>5. Bounded'
  <2>1. Flow!Busy' = Flow!Busy
    BY <1>1 DEF Flow!Busy
  <2> QED BY <2>1, BusyShrinks
<1>6. RunTypes' /\ Shows'
  <2>1. CASE Flow!SlotTaken
    <3>1. held' = FALSE /\ shown' = [i \in Nodes |-> "none"] /\ attached' = [i \in Nodes |-> FALSE]
      BY <2>1 DEF Flow!SlotTaken, Flow!All, Nodes
    <3> QED BY <1>1, <3>1 DEF FlowInv, RunTypes, Shows, Ends
  <2>2. CASE Flow!Abort \/ Flow!NextLevel \/ Flow!End
    <3>1. UNCHANGED <<held, shown, attached>>
      BY <2>2 DEF Flow!Abort, Flow!NextLevel, Flow!End, Flow!table
    <3> QED BY <1>1, <3>1 DEF FlowInv, RunTypes, Shows
  <2> QED BY <2>1, <2>2
<1>7. Climbing'
  <2>1. CASE Flow!NextLevel
    <3>1. level' = level + 1 /\ \A i \in Nodes : layer[i] = level => at[i] = "over"
      BY <2>1 DEF Flow!NextLevel, Flow!AtLevel, Nodes
    <3>2. level \in Nat /\ \A i \in Nodes : layer[i] \in Nat
      BY DEF FlowInv, Climbing, GraphTypes
    <3>3. phase' = "running"
      BY <1>1, <2>1 DEF Flow!NextLevel
    <3> QED BY <1>1, <1>3, <3>1, <3>2, <3>3 DEF FlowInv, Climbing
  <2>2. CASE Flow!SlotTaken \/ Flow!Abort \/ Flow!End
    <3>1. UNCHANGED level
      BY <2>2 DEF Flow!SlotTaken, Flow!Abort, Flow!End
    <3> QED BY <1>1, <1>3, <3>1 DEF FlowInv, Climbing
  <2> QED BY <2>1, <2>2
<1>8. Ended'
  <2>1. CASE Flow!End
    BY <1>1, <2>1 DEF Flow!End, Ended, Nodes
  <2>2. CASE ~Flow!End
    <3>1. phase' = "running"
      BY <1>1, <2>2 DEF Flow!SlotTaken, Flow!Abort, Flow!NextLevel
    <3> QED BY <3>1 DEF Ended
  <2> QED BY <2>1, <2>2
<1> QED BY <1>2, <1>4, <1>5, <1>6, <1>7, <1>8 DEF FlowInv

LEMMA LookStep == ASSUME FlowInv, Flow!Look PROVE FlowInv'
<1> DEFINE i == Flow!First(Flow!Undecided)
           end == IF abort THEN "stopped" ELSE IF Flow!Blocked(i) THEN "blocked" ELSE "none"
           to == IF end = "none" THEN "ready" ELSE "over"
<1>1. /\ phase = "running" /\ Flow!Undecided # {} /\ phase' = phase
      /\ rc' = [rc EXCEPT ![i] = end] /\ at' = [at EXCEPT ![i] = to]
      /\ IF end = "none" THEN shown' = shown ELSE Flow!Mark(i, end)
      /\ UNCHANGED Flow!graph /\ UNCHANGED <<level, engine, attached, held, verdict>>
  BY DEF Flow!Look
<1>2. i \in Nodes /\ layer[i] = level /\ at[i] = "waiting"
  <2>1. \E m \in Flow!Undecided : \A j \in Flow!Undecided : m <= j
    <3> DEFINE T == Flow!Undecided
    <3>1. T \in SUBSET Nat /\ T # {}
      BY <1>1, FlowAssumption DEF Flow!Undecided, Flow!AtLevel, Flow!Nodes
    <3> HIDE DEF T
    <3>2. \E m \in T : \A j \in T : m <= j
      BY <3>1, LeastExists
    <3> QED BY <3>2 DEF T
  <2>2. i \in Flow!Undecided
    BY <2>1 DEF Flow!First
  <2> QED BY <2>2 DEF Flow!Undecided, Flow!AtLevel, Nodes
<1>3. ASSUME NEW u \in Flow!Pred(i) PROVE u \in Nodes /\ u # i /\ at[u] = "over"
  <2>1. u \in Nodes /\ u # i /\ layer[u] < layer[i]
    BY <1>1, <1>2, <1>3, PredsAreBelow
  <2> QED BY <1>2, <2>1 DEF FlowInv, Climbing
<1>4. /\ end \in Ends /\ end # "ok" /\ (end = "none" => ~Flow!Blocked(i))
      /\ (end = "blocked" => Flow!Blocked(i)) /\ to \in {"ready", "over"}
      /\ (to = "over" => end # "none")
  BY DEF Ends
<1> HIDE DEF i, end
<1>5. GraphTypes' /\ Layered'
  BY <1>1, RunStepLeavesGraph
<1>6. UNCHANGED <<edges, layer>> /\ \A j : Flow!Pred(j)' = Flow!Pred(j)
  BY <1>1 DEF Flow!graph, Flow!Pred
<1>7. /\ at \in [Nodes -> Places] /\ rc \in [Nodes -> Ends] /\ level \in Nat
      /\ shown \in [Nodes -> Ends \cup {"queued", "running"}]
  BY DEF FlowInv, RunTypes, Climbing
<1>8. /\ at'[i] = to /\ rc'[i] = end
      /\ \A j \in Nodes \ {i} : at'[j] = at[j] /\ rc'[j] = rc[j]
  BY <1>1, <1>2, <1>7
<1>9. /\ shown' \in [Nodes -> Ends \cup {"queued", "running"}]
      /\ held => /\ \A j \in Nodes \ {i} : shown'[j] = shown[j]
                 /\ to = "over" => shown'[i] = end
  BY <1>1, <1>2, <1>4, <1>7 DEF Flow!Mark
<1>10. RunTypes'
  BY <1>1, <1>4, <1>7, <1>9 DEF FlowInv, RunTypes, Places
<1>11. Climbing'
  BY <1>1, <1>2, <1>6, <1>7, <1>8 DEF FlowInv, Climbing
<1>12. Grounded'
  <2>1. ASSUME NEW j \in Nodes, at'[j] \notin {"waiting", "over"}, NEW u \in Flow!Pred(j)
        PROVE  at'[u] = "over" /\ rc'[u] = "ok"
    <3>0. u \in Nodes
      BY <2>1 DEF Flow!Pred, Nodes
    <3>1. CASE j = i
      <4>1. end = "none"
        BY <1>4, <1>8, <2>1, <3>1
      <4>2. rc[u] = "ok"
        BY <1>4, <2>1, <3>1, <4>1 DEF Flow!Blocked
      <4> QED BY <1>3, <1>8, <2>1, <3>1, <4>2
    <3>2. CASE j # i
      <4>1. at[u] = "over" /\ rc[u] = "ok"
        BY <1>8, <2>1, <3>2 DEF FlowInv, Grounded
      <4> QED BY <1>2, <1>8, <3>0, <4>1
    <3> QED BY <3>1, <3>2
  <2>2. ASSUME NEW j \in Nodes, rc'[j] = "blocked"
        PROVE  \E u \in Flow!Pred(j) : at'[u] = "over" /\ rc'[u] # "ok"
    <3>1. CASE j = i
      <4>1. PICK u \in Flow!Pred(i) : rc[u] # "ok"
        BY <1>4, <1>8, <2>2, <3>1 DEF Flow!Blocked
      <4>2. u \in Nodes /\ u # i /\ at[u] = "over"
        BY <1>3, <4>1
      <4> QED BY <1>8, <3>1, <4>1, <4>2
    <3>2. CASE j # i
      <4>1. PICK u \in Flow!Pred(j) : at[u] = "over" /\ rc[u] # "ok"
        BY <1>8, <2>2, <3>2 DEF FlowInv, Grounded
      <4>2. u \in Nodes /\ u # i
        BY <1>2, <4>1 DEF Flow!Pred, Nodes
      <4> QED BY <1>8, <4>1, <4>2
    <3> QED BY <3>1, <3>2
  <2> QED BY <1>6, <2>1, <2>2 DEF Grounded
<1>13. Shows'
  BY <1>1, <1>2, <1>4, <1>8, <1>9 DEF FlowInv, Shows
<1>14. Bounded'
  <2>1. Flow!Busy' \subseteq Flow!Busy
    BY <1>4, <1>8 DEF Flow!Busy, Nodes
  <2> QED BY <2>1, BusyShrinks
<1>15. Ended'
  BY <1>1 DEF Ended
<1> QED BY <1>5, <1>10, <1>11, <1>12, <1>13, <1>14, <1>15 DEF FlowInv

\* The first of those that are ready are no more than fit in a batch.
LEMMA BatchFits ==
    ASSUME NEW R \in SUBSET Nodes
    PROVE  Cardinality({i \in R : Cardinality({j \in R : j < i}) < MaxParallel}) <= MaxParallel
<1> DEFINE B == {i \in R : Cardinality({j \in R : j < i}) < MaxParallel}
<1>1. CASE B = {}
  <2>1. Cardinality(B) = 0
    BY <1>1, FS_EmptySet, Zenon
  <2> QED BY <2>1, FlowAssumption
<1>2. CASE B # {}
  <2>1. \A k \in B : k \in 0 .. N
    BY FlowAssumption DEF Nodes, Flow!Nodes
  <2>2. PICK m \in B : \A k \in B : k <= m
    BY <1>2, <2>1, LargestExists, FlowAssumption
  <2> DEFINE L == {j \in R : j < m}
  <2>3. L \in SUBSET Nodes /\ L \cup {m} \in SUBSET Nodes
    BY <2>2
  <2>4. IsFiniteSet(L) /\ Cardinality(L) \in Nat /\ Cardinality(L \cup {m}) <= Cardinality(L) + 1
        /\ IsFiniteSet(L \cup {m}) /\ Cardinality(L \cup {m}) \in Nat
    <3> HIDE DEF L
    <3>1. /\ IsFiniteSet(L) /\ Cardinality(L) \in Nat
          /\ IsFiniteSet(L \cup {m}) /\ Cardinality(L \cup {m}) \in Nat
      BY <2>3, NodesAreFinite
    <3>2. CASE m \in L
      <4>1. L \cup {m} = L
        BY <3>2
      <4>2. Cardinality(L \cup {m}) = Cardinality(L)
        BY <4>1, Zenon
      <4> QED BY <3>1, <4>2
    <3>3. CASE m \notin L
      <4>1. Cardinality(L \cup {m}) = Cardinality(L) + 1
        BY <3>1, <3>3, FS_AddElement
      <4> QED BY <3>1, <4>1
    <3> QED BY <3>2, <3>3
  <2>5. Cardinality(L) < MaxParallel
    BY <2>2
  <2>6. B \in SUBSET (L \cup {m})
    <3> SUFFICES ASSUME NEW k \in B PROVE k \in L \cup {m}
      OBVIOUS
    <3>1. k <= m /\ k \in R /\ k \in Nat /\ m \in Nat
      BY <2>1, <2>2, FlowAssumption
    <3> QED BY <3>1
  <2> HIDE DEF L, B
  <2>7. Cardinality(B) <= Cardinality(L \cup {m}) /\ Cardinality(B) \in Nat
    BY <2>4, <2>6, FS_Subset, FS_CardinalityType
  <2> QED BY <2>4, <2>5, <2>7, FlowAssumption DEF B
<1> QED BY <1>1, <1>2

LEMMA StartBatchStep == ASSUME FlowInv, Flow!StartBatch PROVE FlowInv'
<1> DEFINE R == Flow!Ready
           B == {i \in R : Cardinality({j \in R : j < i}) < MaxParallel}
<1>1. /\ phase = "running" /\ phase' = phase /\ Flow!Busy = {}
      /\ at' = [i \in Nodes |-> IF i \in B THEN "spawned" ELSE at[i]]
      /\ UNCHANGED Flow!graph
      /\ UNCHANGED <<level, rc, engine, shown, attached, held, verdict>>
  <2>1. at' = [i \in Nodes |-> IF i \in R /\ Flow!Cardinality({j \in R : j < i}) < MaxParallel
                               THEN "spawned" ELSE at[i]]
    BY DEF Flow!StartBatch, Nodes
  <2>2. at' = [i \in Nodes |-> IF i \in B THEN "spawned" ELSE at[i]]
    BY <2>1, FlowCounts
  <2> QED BY <2>2 DEF Flow!StartBatch, Flow!table
<1>2. R \in SUBSET Nodes /\ \A i \in R : at[i] = "ready" /\ layer[i] = level
  BY DEF Flow!Ready, Flow!AtLevel, Nodes
<1>3. B \in SUBSET R
  OBVIOUS
<1>4. Cardinality(B) <= MaxParallel
  BY <1>2, BatchFits
<1> HIDE DEF B, R
<1>5. GraphTypes' /\ Layered'
  BY <1>1, RunStepLeavesGraph
<1>6. UNCHANGED <<edges, layer>> /\ \A j : Flow!Pred(j)' = Flow!Pred(j)
  BY <1>1 DEF Flow!graph, Flow!Pred
<1>7. \A i \in Nodes : IF i \in B THEN at[i] = "ready" /\ at'[i] = "spawned" ELSE at'[i] = at[i]
  BY <1>1, <1>2, <1>3
<1>8. RunTypes'
  BY <1>1 DEF FlowInv, RunTypes, Places
<1>9. Climbing'
  BY <1>1, <1>6, <1>7 DEF FlowInv, Climbing
<1>10. Grounded'
  <2>1. ASSUME NEW i \in Nodes, NEW u \in Flow!Pred(i)
        PROVE  at[u] = "over" => at'[u] = "over"
    BY <1>7 DEF Flow!Pred, Nodes
  <2>2. \A i \in Nodes : at'[i] \notin {"waiting", "over"} => at[i] \notin {"waiting", "over"}
    BY <1>7
  <2> QED BY <1>1, <1>6, <2>1, <2>2 DEF FlowInv, Grounded
<1>11. Shows'
  BY <1>1, <1>7 DEF FlowInv, Shows
<1>12. Bounded'
  <2>1. Flow!Busy' = B
    BY <1>1, <1>2, <1>3, <1>7 DEF Flow!Busy, Nodes
  <2> QED BY <1>4, <2>1 DEF Bounded
<1>13. Ended'
  BY <1>1 DEF Ended
<1> QED BY <1>5, <1>8, <1>9, <1>10, <1>11, <1>12, <1>13 DEF FlowInv

\* A thread takes its node a step further.
LEMMA NodeStep ==
    ASSUME FlowInv, NEW i \in Nodes, NEW p \in Places \ {"waiting", "ready"},
           at[i] \notin {"waiting", "ready", "over"}, at' = [at EXCEPT ![i] = p],
           rc' \in [Nodes -> Ends], \A j \in Nodes \ {i} : rc'[j] = rc[j],
           rc'[i] = "blocked" => rc[i] = "blocked",
           UNCHANGED Flow!graph, UNCHANGED <<phase, level, held, verdict>>,
           shown' \in [Nodes -> Ends \cup {"queued", "running"}],
           held => /\ \A j \in Nodes \ {i} : shown'[j] = shown[j]
                   /\ p = "over" => shown'[i] = rc'[i],
           engine' \in [Nodes -> {"none", "live", "freed"}], attached' \in [Nodes -> BOOLEAN],
           \A j \in Nodes \ {i} : engine'[j] = engine[j] /\ attached'[j] = attached[j],
           attached'[i] => p = "reasoning", p = "reasoning" => engine'[i] = "live"
    PROVE  FlowInv'
<1>1. phase = "running"
  BY DEF FlowInv, Climbing, Ended
<1>2. GraphTypes' /\ Layered'
  BY RunStepLeavesGraph
<1>3. UNCHANGED <<edges, layer>> /\ \A j : Flow!Pred(j)' = Flow!Pred(j)
  BY DEF Flow!graph, Flow!Pred
<1>4. at \in [Nodes -> Places] /\ at'[i] = p /\ \A j \in Nodes \ {i} : at'[j] = at[j]
  BY DEF FlowInv, RunTypes
<1>5. RunTypes'
  BY <1>4 DEF RunTypes
<1>6. Climbing'
  BY <1>1, <1>3, <1>4 DEF FlowInv, Climbing
<1>7. \A j \in Nodes : \A u \in Flow!Pred(j) :
         at[u] = "over" => u \in Nodes /\ u # i /\ at'[u] = "over" /\ rc'[u] = rc[u]
  BY <1>4 DEF Flow!Pred, Nodes
<1>8. Grounded'
  <2>1. ASSUME NEW j \in Nodes, at'[j] \notin {"waiting", "over"}, NEW u \in Flow!Pred(j)
        PROVE  at'[u] = "over" /\ rc'[u] = "ok"
    <3>1. at[j] \notin {"waiting", "over"}
      BY <1>4, <2>1
    <3> QED BY <1>7, <2>1, <3>1 DEF FlowInv, Grounded
  <2>2. ASSUME NEW j \in Nodes, rc'[j] = "blocked"
        PROVE  \E u \in Flow!Pred(j) : at'[u] = "over" /\ rc'[u] # "ok"
    <3>1. rc[j] = "blocked"
      BY <2>2
    <3> QED BY <1>7, <3>1 DEF FlowInv, Grounded
  <2> QED BY <1>3, <2>1, <2>2 DEF Grounded
<1>9. Shows'
  BY <1>4 DEF FlowInv, Shows
<1>10. Bounded'
  <2>1. Flow!Busy' \subseteq Flow!Busy
    BY <1>4 DEF Flow!Busy, Nodes
  <2> QED BY <2>1, BusyShrinks
<1>11. Ended'
  BY <1>1 DEF Ended
<1> QED BY <1>2, <1>5, <1>6, <1>8, <1>9, <1>10, <1>11 DEF FlowInv

LEMMA WorkerStep ==
    ASSUME FlowInv, NEW i \in Nodes,
           \/ Flow!WorkerStarts(i) \/ Flow!NoTask(i) \/ Flow!NoEngine(i) \/ Flow!Attach(i)
           \/ Flow!Detach(i) \/ Flow!Free(i) \/ Flow!WorkerEnds(i)
    PROVE  FlowInv'
<1>1. /\ at \in [Nodes -> Places] /\ rc \in [Nodes -> Ends]
      /\ engine \in [Nodes -> {"none", "live", "freed"}] /\ attached \in [Nodes -> BOOLEAN]
      /\ shown \in [Nodes -> Ends \cup {"queued", "running"}]
      /\ attached[i] => at[i] = "reasoning"
  BY DEF FlowInv, RunTypes, Shows
<1>2. CASE Flow!WorkerStarts(i)
  <2> DEFINE p == "started"
  <2>1. /\ at[i] = "spawned" /\ at' = [at EXCEPT ![i] = p] /\ ~attached[i]
        /\ shown' = IF held THEN [shown EXCEPT ![i] = "running"] ELSE shown
        /\ UNCHANGED Flow!graph /\ UNCHANGED <<phase, level, rc, engine, attached, held, verdict>>
    BY <1>1, <1>2 DEF Flow!WorkerStarts, Flow!Mark
  <2>2. p \in Places \ {"waiting", "ready"}
    BY DEF Places
  <2> QED BY <1>1, <2>1, <2>2, NodeStep
<1>3. CASE Flow!NoTask(i)
  <2> DEFINE p == "over"
  <2>1. /\ at[i] = "spawned" /\ at' = [at EXCEPT ![i] = p] /\ ~attached[i]
        /\ rc' = [rc EXCEPT ![i] = "error"]
        /\ shown' = IF held THEN [shown EXCEPT ![i] = "error"] ELSE shown
        /\ UNCHANGED Flow!graph /\ UNCHANGED <<phase, level, engine, attached, held, verdict>>
    BY <1>1, <1>3 DEF Flow!NoTask, Flow!Mark
  <2>2. p \in Places \ {"waiting", "ready"} /\ "error" \in Ends
    BY DEF Places, Ends
  <2> QED BY <1>1, <2>1, <2>2, NodeStep
<1>4. CASE Flow!NoEngine(i)
  <2> DEFINE p == "ended"
  <2>1. /\ at[i] = "started" /\ at' = [at EXCEPT ![i] = p] /\ ~attached[i]
        /\ rc' = [rc EXCEPT ![i] = IF abort THEN "stopped" ELSE "error"]
        /\ UNCHANGED Flow!graph
        /\ UNCHANGED <<phase, level, engine, shown, attached, held, verdict>>
    BY <1>1, <1>4 DEF Flow!NoEngine, Flow!table
  <2>2. p \in Places \ {"waiting", "ready"} /\ {"error", "stopped"} \subseteq Ends
    BY DEF Places, Ends
  <2> QED BY <1>1, <2>1, <2>2, NodeStep
<1>5. CASE Flow!Attach(i)
  <2> DEFINE p == "reasoning"
  <2>1. /\ at[i] = "started" /\ at' = [at EXCEPT ![i] = p]
        /\ engine' = [engine EXCEPT ![i] = "live"]
        /\ attached' = IF held THEN [attached EXCEPT ![i] = TRUE] ELSE attached
        /\ UNCHANGED Flow!graph
        /\ UNCHANGED <<phase, level, rc, shown, held, verdict>>
    BY <1>5 DEF Flow!Attach
  <2>2. p \in Places \ {"waiting", "ready"}
    BY DEF Places
  <2> QED BY <1>1, <2>1, <2>2, NodeStep
<1>6. CASE Flow!Detach(i)
  <2> DEFINE p == "detached"
  <2>1. /\ at[i] = "reasoning" /\ at' = [at EXCEPT ![i] = p]
        /\ \E end \in {"ok", "error"} : rc' = [rc EXCEPT ![i] = end]
        /\ attached' = [attached EXCEPT ![i] = FALSE]
        /\ UNCHANGED Flow!graph
        /\ UNCHANGED <<phase, level, engine, shown, held, verdict>>
    BY <1>6 DEF Flow!Detach
  <2>2. p \in Places \ {"waiting", "ready"} /\ {"ok", "error"} \subseteq Ends
    BY DEF Places, Ends
  <2>3. /\ rc' \in [Nodes -> Ends] /\ \A j \in Nodes \ {i} : rc'[j] = rc[j]
        /\ rc'[i] # "blocked"
    <3>1. PICK end \in {"ok", "error"} : rc' = [rc EXCEPT ![i] = end]
      BY <2>1
    <3>2. end \in Ends /\ end # "blocked"
      BY <2>2
    <3> QED BY <1>1, <3>1, <3>2
  <2>4. /\ attached' \in [Nodes -> BOOLEAN] /\ ~attached'[i]
        /\ \A j \in Nodes \ {i} : attached'[j] = attached[j]
    BY <1>1, <2>1
  <2>5. at[i] \notin {"waiting", "ready", "over"} /\ p # "over" /\ p # "reasoning"
    BY <2>1
  <2> HIDE DEF p
  <2> QED BY <1>1, <2>1, <2>2, <2>3, <2>4, <2>5, NodeStep
<1>7. CASE Flow!Free(i)
  <2> DEFINE p == "ended"
  <2>1. /\ at[i] = "detached" /\ at' = [at EXCEPT ![i] = p]
        /\ engine' = [engine EXCEPT ![i] = "freed"]
        /\ rc' = IF abort THEN [rc EXCEPT ![i] = "stopped"] ELSE rc
        /\ attached' = [attached EXCEPT ![i] = FALSE]
        /\ UNCHANGED Flow!graph
        /\ UNCHANGED <<phase, level, shown, held, verdict>>
    BY <1>7 DEF Flow!Free
  <2>2. p \in Places \ {"waiting", "ready"} /\ "stopped" \in Ends
    BY DEF Places, Ends
  <2> QED BY <1>1, <2>1, <2>2, NodeStep
<1>8. CASE Flow!WorkerEnds(i)
  <2> DEFINE p == "over"
  <2>1. /\ at[i] = "ended" /\ at' = [at EXCEPT ![i] = p] /\ ~attached[i]
        /\ shown' = IF held THEN [shown EXCEPT ![i] = rc[i]] ELSE shown
        /\ UNCHANGED Flow!graph /\ UNCHANGED <<phase, level, rc, engine, attached, held, verdict>>
    BY <1>1, <1>8 DEF Flow!WorkerEnds, Flow!Mark
  <2>2. p \in Places \ {"waiting", "ready"}
    BY DEF Places
  <2> QED BY <1>1, <2>1, <2>2, NodeStep
<1> QED BY <1>2, <1>3, <1>4, <1>5, <1>6, <1>7, <1>8

LEMMA FlowStep == FlowInv /\ [Flow!Next]_(Flow!flowVars) => FlowInv'
<1> SUFFICES ASSUME FlowInv, [Flow!Next]_(Flow!flowVars) PROVE FlowInv'
  OBVIOUS
<1>1. CASE UNCHANGED Flow!flowVars
  <2>1. UNCHANGED <<phase, edges, indeg, queue, pending, layer, level, at, rc, engine,
                    shown, attached, held, verdict>>
    BY <1>1 DEF Flow!flowVars, Flow!graph, Flow!table
  <2>2. GraphTypes' /\ Layered'
    BY <2>1, RunStepLeavesGraph DEF Flow!graph
  <2>3. RunTypes' /\ Climbing' /\ Shows' /\ Ended'
    BY <2>1 DEF FlowInv, RunTypes, Climbing, Shows, Ended
  <2>4. Grounded'
    <3>1. \A i : Flow!Pred(i)' = Flow!Pred(i)
      BY <2>1 DEF Flow!Pred
    <3> QED BY <2>1, <3>1 DEF FlowInv, Grounded
  <2>5. Bounded'
    <3>1. Flow!Busy' = Flow!Busy
      BY <2>1 DEF Flow!Busy
    <3> QED BY <3>1, BusyShrinks
  <2> QED BY <2>2, <2>3, <2>4, <2>5 DEF FlowInv
<1>2. CASE \E u, v \in Nodes : Flow!AddEdge(u, v)
  BY <1>2, AddEdgeStep
<1>3. CASE Flow!ParseFails \/ Flow!CycleFound \/ Flow!NoAgent
  BY <1>3, RefuseStep
<1>4. CASE Flow!LayerStarts \/ Flow!LayerNext \/ Flow!Begin
  BY <1>4, LayerStartsStep, LayerNextStep, BeginStep
<1>5. CASE Flow!SlotTaken \/ Flow!Abort \/ Flow!NextLevel \/ Flow!End
  BY <1>5, StillStep
<1>6. CASE Flow!Look \/ Flow!StartBatch
  BY <1>6, LookStep, StartBatchStep
<1>7. ASSUME NEW i \in Nodes,
             \/ Flow!WorkerStarts(i) \/ Flow!NoTask(i) \/ Flow!NoEngine(i) \/ Flow!Attach(i)
             \/ Flow!Detach(i) \/ Flow!Free(i) \/ Flow!WorkerEnds(i)
      PROVE  FlowInv'
  BY <1>7, WorkerStep
<1> QED BY <1>1, <1>2, <1>3, <1>4, <1>5, <1>6, <1>7 DEF Flow!Next, Nodes

-----------------------------------------------------------------------------
(* Rooms and flows together *)

LEMMA OthersLeaveTeams ==
    [Next]_vars => [Room!Next]_(Room!roomsVars) /\ [Flow!Next]_(Flow!flowVars)
<1>1. [Next]_vars => [Room!Next]_(Room!roomsVars)
  BY DEF Next, vars, roomsVars, Room!roomsVars
<1>2. [Next]_vars => [Flow!Next]_(Flow!flowVars)
  BY DEF Next, vars, flowVars, Flow!flowVars, Flow!graph, Flow!table
<1> QED BY <1>1, <1>2

\* A reply is written for the message it was made for, and a discussion ends
\* early only for a newer message or with the consent of every speaker
\* (im_run_round, im_send_agent_reply); the layers of a flow follow its edges,
\* a node runs with its inputs, and no more than the pool allows, the verdict
\* tells how the nodes ended, and what is shown lives (flow.c, api_rest.c).
THEOREM TeamsHangTogether == Spec => []TeamsSafe
<1>1. Init => RoomInv /\ FlowInv
  BY RoomStarts, FlowStarts DEF Init
<1>2. RoomInv /\ FlowInv /\ [Next]_vars => RoomInv' /\ FlowInv'
  BY OthersLeaveTeams, RoomStep, FlowStep
<1>3. RoomInv /\ FlowInv => TeamsSafe
  BY RoomInvIsEnough, FlowInvIsEnough DEF TeamsSafe, Room!RoomsSafe, Flow!FlowSafe
<1> QED BY <1>1, <1>2, <1>3, PTL DEF Spec

-----------------------------------------------------------------------------
(* Calls of a tool server *)

CallStages == {"idle", "ensuring", "greet", "send", "greeting", "calling", "done"}
Requests == [id : Nat, of : Callers, greet : BOOLEAN]

McpTypes ==
    /\ process \in Nat /\ alive \in BOOLEAN /\ greeted \in BOOLEAN
    /\ asked \in SUBSET Requests /\ buffer \in Seq(Requests)
    /\ initialized \in BOOLEAN /\ tools \in Nat
    /\ jsonrpcId \in Nat \ {0} /\ test \in Nat
    /\ call \in [Callers -> [at : CallStages, list : BOOLEAN, id : Nat]]
    /\ handed \in Nat /\ twice \in SUBSET Nat

\* A request is on its way, or its answer is.
OnItsWay == asked \cup {buffer[i] : i \in DOMAIN buffer}

\* The answer with the number a caller waits for is the one to its own request,
\* unless the number was given twice.
Answers(r, c) ==
    call[c].at \in {"greeting", "calling"} /\ r.id = call[c].id =>
        r.id \in twice \/ (r.of = c /\ r.greet = (call[c].at = "greeting"))

\* No number was given that is larger than the last one.
NumbersTell ==
    /\ \A r \in OnItsWay : r.id <= handed
    /\ \A c \in Callers : call[c].id <= handed
    /\ \A c \in Callers, r \in OnItsWay : Answers(r, c)

\* The answer to a handshake is there before it is read.
HandshakeAnswered == \A i \in DOMAIN buffer : buffer[i].greet => greeted

SessionIsOwn ==
    /\ initialized => greeted \/ twice # {}
    /\ tools # 0 => tools = process

McpInv ==
    McpTypes /\ NumbersTell /\ HandshakeAnswered /\ wrong \subseteq twice /\ SessionIsOwn

LEMMA McpStarts == Mcp!Init => McpInv
<1> SUFFICES ASSUME Mcp!Init PROVE McpInv
  OBVIOUS
<1>1. OnItsWay = {} /\ DOMAIN buffer = {}
  BY DEF Mcp!Init, OnItsWay
<1>2. McpTypes
  <2>1. /\ process = 0 /\ alive = FALSE /\ greeted = FALSE /\ asked = {} /\ buffer = <<>>
        /\ initialized = FALSE /\ tools = 0 /\ jsonrpcId = 1 /\ test = 0
        /\ handed = 0 /\ twice = {}
        /\ call = [c \in Callers |-> [at |-> "idle", list |-> FALSE, id |-> 0]]
    BY DEF Mcp!Init, Mcp!Idle
  <2>2. call \in [Callers -> [at : CallStages, list : BOOLEAN, id : Nat]]
    BY <2>1 DEF CallStages
  <2>3. <<>> \in Seq(Requests)
    OBVIOUS
  <2>4. alive \in BOOLEAN /\ greeted \in BOOLEAN /\ initialized \in BOOLEAN
    BY <2>1
  <2>5. /\ process \in Nat /\ asked \in SUBSET Requests /\ buffer \in Seq(Requests)
        /\ tools \in Nat /\ jsonrpcId \in Nat \ {0} /\ test \in Nat
        /\ handed \in Nat /\ twice \in SUBSET Nat
    BY <2>1, <2>3
  <2> QED BY <2>2, <2>4, <2>5 DEF McpTypes
<1>3. \A c \in Callers : call[c].id = 0 /\ handed = 0
  BY DEF Mcp!Init, Mcp!Idle
<1> QED BY <1>1, <1>2, <1>3 DEF Mcp!Init, McpInv, NumbersTell, HandshakeAnswered, SessionIsOwn

\* A caller goes on without a new number, and no request is added.
LEMMA CallGoesOn ==
    ASSUME McpInv, McpTypes', OnItsWay' \subseteq OnItsWay,
           \A c \in Callers : /\ call'[c].id \in {0, call[c].id}
                              /\ call'[c].at \in {"greeting", "calling"} => call'[c] = call[c],
           UNCHANGED <<handed, twice>>
    PROVE  NumbersTell'
<1>1. /\ call \in [Callers -> [at : CallStages, list : BOOLEAN, id : Nat]]
      /\ call' \in [Callers -> [at : CallStages, list : BOOLEAN, id : Nat]]
      /\ handed \in Nat
  BY DEF McpInv, McpTypes
<1>2. \A d \in Callers : call'[d].id <= handed'
  BY <1>1 DEF McpInv, NumbersTell
<1>3. ASSUME NEW d \in Callers, NEW r \in OnItsWay', call'[d].at \in {"greeting", "calling"},
             r.id = call'[d].id
      PROVE  r.id \in twice' \/ (r.of = d /\ r.greet = (call'[d].at = "greeting"))
  <2>1. call'[d] = call[d]
    BY <1>3
  <2>2. Answers(r, d)
    BY DEF McpInv, NumbersTell
  <2> QED BY <1>3, <2>1, <2>2 DEF Answers
<1>4. \A r \in OnItsWay' : r.id <= handed'
  BY DEF McpInv, NumbersTell
<1> QED BY <1>2, <1>3, <1>4 DEF NumbersTell, Answers

\* Steps that leave the server alone.
LEMMA CallerStep ==
    ASSUME McpInv, NEW c \in Callers,
           \/ \E list \in BOOLEAN : Mcp!Begin(c, list)
           \/ Mcp!Ensured(c) \/ Mcp!WriteFails(c) \/ Mcp!GiveUp(c) \/ Mcp!End(c)
    PROVE  McpInv'
<1>1. UNCHANGED <<process, alive, greeted, asked, buffer, initialized, tools, jsonrpcId,
                  test, wrong, handed, twice>>
  BY DEF Mcp!Begin, Mcp!Ensured, Mcp!WriteFails, Mcp!GiveUp, Mcp!End, Mcp!server,
         Mcp!session, Mcp!testing, Mcp!numbers
<1>2. \E new \in [at : CallStages \ {"greeting", "calling"}, list : BOOLEAN, id : {0, call[c].id}] :
         call' = [call EXCEPT ![c] = new]
  <2>1. call[c] \in [at : CallStages, list : BOOLEAN, id : Nat]
    BY DEF McpInv, McpTypes
  <2>2. ASSUME NEW list \in BOOLEAN, Mcp!Begin(c, list)
        PROVE  call' = [call EXCEPT ![c] = [at |-> "ensuring", list |-> list, id |-> 0]]
    BY <2>2 DEF Mcp!Begin
  <2>3. ASSUME Mcp!End(c)
        PROVE  call' = [call EXCEPT ![c] = [at |-> "idle", list |-> FALSE, id |-> 0]]
    BY <2>3 DEF Mcp!End, Mcp!Idle
  <2>4. ASSUME Mcp!Ensured(c) \/ Mcp!WriteFails(c) \/ Mcp!GiveUp(c)
        PROVE  \E to \in {"greet", "done", "send"} : call' = [call EXCEPT ![c].at = to]
    BY <2>4 DEF Mcp!Ensured, Mcp!WriteFails, Mcp!GiveUp, Mcp!To
  <2>5. \A to \in {"greet", "done", "send"} :
           /\ [call EXCEPT ![c].at = to] = [call EXCEPT ![c] = [call[c] EXCEPT !.at = to]]
           /\ [call[c] EXCEPT !.at = to]
                 \in [at : CallStages \ {"greeting", "calling"}, list : BOOLEAN,
                      id : {0, call[c].id}]
    BY <2>1 DEF CallStages
  <2>6. \A list \in BOOLEAN, to \in {"ensuring", "idle"} :
           [at |-> to, list |-> list, id |-> 0]
              \in [at : CallStages \ {"greeting", "calling"}, list : BOOLEAN,
                   id : {0, call[c].id}]
    BY DEF CallStages
  <2>7. CASE \E list \in BOOLEAN : Mcp!Begin(c, list)
    BY <2>2, <2>6, <2>7
  <2>8. CASE Mcp!End(c)
    BY <2>3, <2>6, <2>8
  <2>9. CASE Mcp!Ensured(c) \/ Mcp!WriteFails(c) \/ Mcp!GiveUp(c)
    BY <2>4, <2>5, <2>9
  <2> QED BY <2>7, <2>8, <2>9
<1>3. PICK new \in [at : CallStages \ {"greeting", "calling"}, list : BOOLEAN,
                    id : {0, call[c].id}] : call' = [call EXCEPT ![c] = new]
  BY <1>2
<1>4. McpTypes'
  BY <1>1, <1>3 DEF McpInv, McpTypes
<1>5. OnItsWay' = OnItsWay
  BY <1>1 DEF OnItsWay
<1>6. \A d \in Callers : call'[d] = IF d = c THEN new ELSE call[d]
  BY <1>3 DEF McpInv, McpTypes
<1>7. NumbersTell'
  BY <1>1, <1>4, <1>5, <1>6, CallGoesOn
<1> QED BY <1>1, <1>4, <1>7 DEF McpInv, HandshakeAnswered, SessionIsOwn

\* The process of before is forgotten, with all that was on its way.
LEMMA ProcessGoes ==
    ASSUME McpInv, process' \in Nat, alive' \in BOOLEAN, asked' = {}, buffer' = <<>>,
           greeted' = FALSE, initialized' = FALSE, tools' = 0,
           UNCHANGED <<jsonrpcId, test, wrong, handed, twice>>,
           \/ UNCHANGED call
           \/ \E c \in Callers : call' = [call EXCEPT ![c].at = "done"]
    PROVE  McpInv'
<1>1. OnItsWay' = {} /\ DOMAIN buffer' = {}
  BY DEF OnItsWay
<1>2. /\ call' \in [Callers -> [at : CallStages, list : BOOLEAN, id : Nat]]
      /\ \A c \in Callers : call'[c].id = call[c].id
  <2>1. call \in [Callers -> [at : CallStages, list : BOOLEAN, id : Nat]]
    BY DEF McpInv, McpTypes
  <2>2. ASSUME NEW c \in Callers, call' = [call EXCEPT ![c].at = "done"]
        PROVE  /\ call' \in [Callers -> [at : CallStages, list : BOOLEAN, id : Nat]]
               /\ \A d \in Callers : call'[d].id = call[d].id
    BY <2>1, <2>2 DEF CallStages
  <2> QED BY <2>1, <2>2
<1>4. McpTypes'
  <2>1. <<>> \in Seq(Requests)
    OBVIOUS
  <2> QED BY <1>2, <2>1 DEF McpInv, McpTypes
<1>3. NumbersTell'
  BY <1>1, <1>2 DEF McpInv, NumbersTell
<1> QED BY <1>1, <1>3, <1>4 DEF McpInv, HandshakeAnswered, SessionIsOwn

LEMMA ProcessStep ==
    ASSUME McpInv,
           \/ Mcp!Replace
           \/ \E c \in Callers : Mcp!Ensure(c) \/ Mcp!SpawnFails(c)
    PROVE  McpInv'
<1>1. process \in Nat
  BY DEF McpInv, McpTypes
<1>2. CASE Mcp!Replace
  BY <1>1, <1>2, ProcessGoes DEF Mcp!Replace, Mcp!testing, Mcp!numbers
<1>3. ASSUME NEW c \in Callers, Mcp!Ensure(c) PROVE McpInv'
  <2>1. /\ process' = process + 1 /\ alive' \in BOOLEAN /\ greeted' = FALSE /\ asked' = {}
        /\ buffer' = <<>> /\ initialized' = FALSE /\ tools' = 0
        /\ UNCHANGED <<call, jsonrpcId, test, wrong, handed, twice>>
    BY <1>3 DEF Mcp!Ensure, Mcp!Spawn, Mcp!NewProcess, Mcp!testing, Mcp!numbers
  <2>2. process' \in Nat
    BY <1>1, <2>1
  <2> QED BY <2>1, <2>2, ProcessGoes, Zenon
<1>4. ASSUME NEW c \in Callers, Mcp!SpawnFails(c) PROVE McpInv'
  BY <1>1, <1>4, ProcessGoes DEF Mcp!SpawnFails, Mcp!To, Mcp!testing, Mcp!numbers
<1> QED BY <1>2, <1>3, <1>4

\* A number larger than all before is nobody's; any other is given twice.
LEMMA RequestStep == ASSUME McpInv, NEW c \in Callers, Mcp!Request(c) PROVE McpInv'
<1> DEFINE j == jsonrpcId
           new == [id |-> j, of |-> c, greet |-> call[c].at = "greet"]
           to == IF call[c].at = "greet" THEN "greeting" ELSE "calling"
<1>1. /\ call[c].at \in {"greet", "send"} /\ asked' = asked \cup {new} /\ jsonrpcId' = j + 1
      /\ call' = [call EXCEPT ![c].id = j, ![c].at = IF @ = "greet" THEN "greeting" ELSE "calling"]
      /\ handed' = IF j > handed THEN j ELSE handed
      /\ twice' = IF j > handed THEN twice ELSE twice \cup {j}
      /\ UNCHANGED <<process, alive, greeted, buffer, initialized, tools, test, wrong>>
  BY DEF Mcp!Request, Mcp!session, Mcp!testing
<1>2. /\ j \in Nat /\ handed \in Nat /\ twice \in SUBSET Nat /\ asked \in SUBSET Requests
      /\ call \in [Callers -> [at : CallStages, list : BOOLEAN, id : Nat]]
  BY DEF McpInv, McpTypes
<1>3. /\ \A d \in Callers \ {c} : call'[d] = call[d]
      /\ call'[c] = [at |-> to, list |-> call[c].list, id |-> j]
      /\ call' \in [Callers -> [at : CallStages, list : BOOLEAN, id : Nat]]
  BY <1>1, <1>2 DEF CallStages
<1>4. new \in Requests /\ new.id = j /\ new.of = c /\ new.greet = (to = "greeting")
  BY <1>2 DEF Requests
<1> HIDE DEF new, to
<1>5. McpTypes'
  BY <1>1, <1>2, <1>3, <1>4 DEF McpInv, McpTypes
<1>6. OnItsWay' = OnItsWay \cup {new}
  BY <1>1 DEF OnItsWay
<1>7. handed <= handed' /\ j <= handed' /\ handed' \in Nat /\ twice \subseteq twice'
      /\ (j <= handed => j \in twice')
  BY <1>1, <1>2
<1>8. \A r \in OnItsWay : r.id \in Nat
  <2>1. buffer \in Seq(Requests) /\ asked \in SUBSET Requests
    BY DEF McpInv, McpTypes
  <2>2. OnItsWay \subseteq Requests
    BY <2>1 DEF OnItsWay
  <2> QED BY <2>2 DEF Requests
<1>9. NumbersTell'
  <2>1. \A r \in OnItsWay' : r.id <= handed'
    BY <1>2, <1>4, <1>6, <1>7, <1>8 DEF McpInv, NumbersTell
  <2>2. \A d \in Callers : call'[d].id <= handed'
    BY <1>2, <1>3, <1>7 DEF McpInv, NumbersTell
  <2>3. ASSUME NEW d \in Callers, NEW r \in OnItsWay',
               call'[d].at \in {"greeting", "calling"}, r.id = call'[d].id
        PROVE  r.id \in twice' \/ (r.of = d /\ r.greet = (call'[d].at = "greeting"))
    <3>1. CASE r = new /\ d = c
      BY <1>3, <1>4, <3>1
    <3>2. CASE r = new /\ d # c
      <4>1. j = call[d].id /\ j <= handed
        BY <1>3, <1>4, <2>3, <3>2 DEF McpInv, NumbersTell
      <4> QED BY <1>4, <1>7, <3>2, <4>1
    <3>3. CASE r \in OnItsWay /\ d = c
      <4>1. r.id = j /\ j <= handed
        BY <1>3, <2>3, <3>3 DEF McpInv, NumbersTell
      <4> QED BY <1>7, <4>1
    <3>4. CASE r \in OnItsWay /\ d # c
      BY <1>3, <1>7, <2>3, <3>4 DEF McpInv, NumbersTell, Answers
    <3> QED BY <1>6, <3>1, <3>2, <3>3, <3>4
  <2> QED BY <2>1, <2>2, <2>3 DEF NumbersTell, Answers
<1> QED BY <1>1, <1>5, <1>7, <1>9 DEF McpInv, HandshakeAnswered, SessionIsOwn

LEMMA ReceiveStep == ASSUME McpInv, NEW c \in Callers, Mcp!Receive(c) PROVE McpInv'
<1>1. PICK i \in DOMAIN buffer :
         /\ buffer[i].id = call[c].id
         /\ buffer' = SubSeq(buffer, i + 1, Len(buffer))
         /\ wrong' = IF call[c].at = "calling" /\ buffer[i].of # c
                     THEN wrong \cup {buffer[i].id} ELSE wrong
  BY DEF Mcp!Receive, Mcp!Take
<1>2. /\ call[c].at \in {"greeting", "calling"}
      /\ UNCHANGED <<process, alive, greeted, asked, jsonrpcId, test, handed, twice>>
  BY DEF Mcp!Receive, Mcp!testing, Mcp!numbers
<1>3. /\ buffer \in Seq(Requests) /\ process \in Nat /\ tools \in Nat /\ initialized \in BOOLEAN
      /\ call \in [Callers -> [at : CallStages, list : BOOLEAN, id : Nat]]
  BY DEF McpInv, McpTypes
<1>4. /\ buffer' \in Seq(Requests)
      /\ \A k \in DOMAIN buffer' : k + i \in DOMAIN buffer /\ buffer'[k] = buffer[k + i]
  BY <1>1, <1>3
<1>5. \E to \in {"done", "send"} : call' = [call EXCEPT ![c].at = to]
  BY DEF Mcp!Receive, Mcp!To
<1>6. /\ call' \in [Callers -> [at : CallStages, list : BOOLEAN, id : Nat]]
      /\ \A d \in Callers : /\ call'[d].id = call[d].id
                            /\ call'[d].at \in {"greeting", "calling"} => call'[d] = call[d]
  BY <1>3, <1>5 DEF CallStages
<1>7. /\ initialized' \in BOOLEAN /\ tools' \in {tools, process}
      /\ initialized' => initialized \/ call[c].at = "greeting"
  BY <1>2, <1>3 DEF Mcp!Receive, Mcp!session
<1>8. McpTypes'
  BY <1>2, <1>3, <1>4, <1>6, <1>7 DEF McpInv, McpTypes
<1>9. NumbersTell'
  <2>1. OnItsWay' \subseteq OnItsWay
    BY <1>2, <1>4 DEF OnItsWay
  <2> QED BY <1>2, <1>6, <1>8, <2>1, CallGoesOn
<1>10. buffer[i].id \in twice \/ (buffer[i].of = c /\ buffer[i].greet = (call[c].at = "greeting"))
  BY <1>1, <1>2 DEF McpInv, NumbersTell, OnItsWay, Answers
<1>11. wrong' \subseteq twice'
  BY <1>1, <1>2, <1>10 DEF McpInv
<1>12. SessionIsOwn'
  <2>1. call[c].at = "greeting" => greeted \/ twice # {}
    BY <1>10 DEF McpInv, HandshakeAnswered
  <2> QED BY <1>2, <1>7, <2>1 DEF McpInv, SessionIsOwn
<1>13. HandshakeAnswered'
  BY <1>2, <1>4 DEF McpInv, HandshakeAnswered
<1> QED BY <1>8, <1>9, <1>11, <1>12, <1>13 DEF McpInv

LEMMA ServerStep ==
    ASSUME McpInv, Mcp!Answer \/ Mcp!Die \/ Mcp!TestReads \/ Mcp!TestWrites PROVE McpInv'
<1>1. buffer \in Seq(Requests) /\ asked \in SUBSET Requests
  BY DEF McpInv, McpTypes
<1>2. CASE Mcp!Answer
  <2>1. PICK r \in asked :
           /\ asked' = asked \ {r} /\ buffer' = Append(buffer, r)
           /\ greeted' = (greeted \/ r.greet)
           /\ UNCHANGED <<process, alive, initialized, tools, jsonrpcId, call, wrong, test,
                          handed, twice>>
    BY <1>2 DEF Mcp!Answer, Mcp!session, Mcp!testing, Mcp!numbers
  <2>2. r \in Requests
    BY <1>1
  <2>3. /\ buffer' \in Seq(Requests) /\ r.greet \in BOOLEAN /\ asked' \in SUBSET Requests
        /\ \A k \in DOMAIN buffer' :
              \/ k \in DOMAIN buffer /\ buffer'[k] = buffer[k]
              \/ buffer'[k] = r
    BY <1>1, <2>1, <2>2 DEF Requests
  <2>4. McpTypes'
    BY <2>1, <2>3 DEF McpInv, McpTypes
  <2>5. OnItsWay' \subseteq OnItsWay
    BY <2>1, <2>3 DEF OnItsWay
  <2>6. NumbersTell'
    BY <2>1, <2>4, <2>5, CallGoesOn
  <2> QED BY <2>1, <2>3, <2>4, <2>6 DEF McpInv, HandshakeAnswered, SessionIsOwn
<1>3. CASE Mcp!Die
  <2>1. /\ alive' = FALSE /\ asked' = {}
        /\ UNCHANGED <<process, greeted, buffer, initialized, tools, jsonrpcId, call, wrong,
                       test, handed, twice>>
    BY <1>3 DEF Mcp!Die, Mcp!session, Mcp!testing, Mcp!numbers
  <2>2. McpTypes'
    BY <2>1 DEF McpInv, McpTypes
  <2>3. OnItsWay' \subseteq OnItsWay
    BY <2>1 DEF OnItsWay
  <2>4. NumbersTell'
    BY <2>1, <2>2, <2>3, CallGoesOn
  <2> QED BY <2>1, <2>2, <2>4 DEF McpInv, HandshakeAnswered, SessionIsOwn
<1>4. CASE Mcp!TestReads \/ Mcp!TestWrites
  <2>1. /\ test' \in Nat /\ jsonrpcId' \in Nat \ {0}
        /\ UNCHANGED <<process, alive, greeted, asked, buffer, initialized, tools, call, wrong,
                       handed, twice>>
    BY <1>4 DEF McpInv, McpTypes, Mcp!TestReads, Mcp!TestWrites, Mcp!server, Mcp!session,
                Mcp!numbers
  <2>2. McpTypes'
    BY <2>1 DEF McpInv, McpTypes
  <2>3. OnItsWay' = OnItsWay
    BY <2>1 DEF OnItsWay
  <2>4. NumbersTell'
    BY <2>1, <2>2, <2>3, CallGoesOn
  <2> QED BY <2>1, <2>2, <2>4 DEF McpInv, HandshakeAnswered, SessionIsOwn
<1> QED BY <1>2, <1>3, <1>4

LEMMA McpStep == McpInv /\ [Mcp!Next]_(Mcp!mcpVars) => McpInv'
<1> SUFFICES ASSUME McpInv, [Mcp!Next]_(Mcp!mcpVars) PROVE McpInv'
  OBVIOUS
<1>1. CASE UNCHANGED Mcp!mcpVars
  <2>1. UNCHANGED <<process, alive, greeted, asked, buffer, initialized, tools, jsonrpcId,
                    call, test, wrong, handed, twice>>
    BY <1>1 DEF Mcp!mcpVars, Mcp!server, Mcp!session, Mcp!testing, Mcp!numbers
  <2>2. McpTypes' /\ OnItsWay' = OnItsWay
    BY <2>1 DEF McpInv, McpTypes, OnItsWay
  <2>3. NumbersTell'
    BY <2>1, <2>2, CallGoesOn
  <2> QED BY <2>1, <2>2, <2>3 DEF McpInv, HandshakeAnswered, SessionIsOwn
<1> QED BY <1>1, CallerStep, ProcessStep, RequestStep, ReceiveStep, ServerStep DEF Mcp!Next

LEMMA McpInvIsEnough == McpInv => Mcp!AnswersFit /\ Mcp!SessionFits
BY DEF McpInv, SessionIsOwn, Mcp!AnswersFit, Mcp!SessionFits

-----------------------------------------------------------------------------
(* Tool servers *)

Connection == [name : Names, config : Configs, listed : SUBSET Offers]
Entry == [name : Names, config : Configs]
Tool == {[server |-> n, slug |-> Servers!Slug(n), tool |-> t] : n \in Names, t \in Offers}
Ops == {"none", "add", "delete", "sync", "start"}
Points == {"done", "change", "unregister", "sync", "discover", "register", "save"}
Request == [op : Ops, name : Names \cup {Original}, config : Configs, at : Points,
            todo : Seq(Names), left : SUBSET (Nat \cup Offers), stale : Nat]

NamesIn(list) == {list[i].name : i \in DOMAIN list}
Distinct(list) == \A i, j \in DOMAIN list : list[i].name = list[j].name => i = j

ServerTypes ==
    /\ conns \in Seq(Connection) /\ Distinct(conns)
    /\ DOMAIN mcpFile = {"torn", "list"} /\ mcpFile.list \in Seq(Entry) /\ Distinct(mcpFile.list)
    /\ registry \in [Servers!FullNames -> Nat] /\ gens \in Seq(Tool)
    /\ owned \in SUBSET (DOMAIN gens) /\ freed \in SUBSET (DOMAIN gens)
    /\ owned \cap freed = {}
    /\ request \in Request

\* What a request is at, and the names, tools or structures it has left.
RequestFits ==
    /\ request.at = "done" <=> request.op = "none"
    /\ request.at = "change" => /\ request.op \in {"add", "delete", "sync"}
                                /\ request.op = "add" => request.name \in Names
    /\ request.at = "save" => request.op \in {"add", "delete"}
    /\ request.at \in {"sync", "discover", "register"} =>
          /\ request.op \in {"add", "sync", "start"}
          /\ \A i \in DOMAIN request.todo : request.todo[i] \in NamesIn(conns)
    /\ request.at = "register" =>
          /\ request.todo # <<>> /\ request.name \in NamesIn(conns) /\ request.left \subseteq Offers
    /\ request.at = "unregister" =>
          /\ request.op = "delete" /\ request.left \subseteq owned \ {request.stale}
    /\ request.stale # 0 => request.at \in {"unregister", "register"}

\* What the registry leads to is the manager's; all it owns is in the registry
\* but a tool that was taken out and is not freed yet.
Linked ==
    /\ \A f \in Servers!FullNames : registry[f] # 0 =>
          registry[f] \in owned /\ Servers!FullName(registry[f]) = f
    /\ \A g \in owned : registry[Servers!FullName(g)] = g \/ request.stale = g
    /\ request.stale # 0 =>
          request.stale \in owned /\ registry[Servers!FullName(request.stale)] # request.stale

\* A tool that can be found is of a server that is known, or is to be taken out.
Rooted ==
    \A f \in Servers!FullNames : registry[f] # 0 =>
        \/ gens[registry[f]].server \in NamesIn(conns)
        \/ request.at = "unregister" /\ registry[f] \in request.left

\* A saved server is in the file, and in the list unless that is being changed.
Unsettled == request.op \in {"add", "delete"} /\ request.at # "change"
Remembered ==
    /\ wanted \subseteq Servers!Kept(mcpFile.list) /\ deletedServers \cap NamesIn(mcpFile.list) = {}
    /\ deletedServers \cap Local = {}
    /\ ~Unsettled =>
          wanted \subseteq Servers!Kept(conns) /\ deletedServers \cap NamesIn(conns) = {}

ServersInv == ServerTypes /\ RequestFits /\ Linked /\ Rooted /\ Remembered

LEMMA ServersCount == ASSUME NEW S PROVE Servers!Cardinality(S) = Cardinality(S)
BY DEF Servers!Cardinality, Cardinality

LEMMA KeptIs ==
    ASSUME NEW list
    PROVE  Servers!Kept(list) =
              {[name |-> list[i].name, config |-> list[i].config] :
                  i \in {j \in DOMAIN list : list[j].name \notin Local}}
BY DEF Servers!Kept

LEMMA ServersInvIsEnough == ServersInv => Servers!McpServersSafe
<1> SUFFICES ASSUME ServersInv PROVE Servers!McpServersSafe
  OBVIOUS
<1>1. Servers!RegistryIsLive
  BY DEF ServersInv, Linked, ServerTypes, Servers!RegistryIsLive
<1>2. Servers!Known = NamesIn(conns)
  BY DEF Servers!Known, NamesIn
<1>3. Servers!NoZombies
  BY <1>2 DEF ServersInv, Rooted, RequestFits, Servers!NoZombies
<1>4. Servers!ServersKept
  BY <1>2 DEF ServersInv, Remembered, Unsettled, Servers!ServersKept
<1> QED BY <1>1, <1>3, <1>4 DEF Servers!McpServersSafe

LEMMA ServersStart == Servers!Init => ServersInv
<1> SUFFICES ASSUME Servers!Init PROVE ServersInv
  OBVIOUS
<1>1. /\ conns = <<>> /\ mcpFile = [torn |-> FALSE, list |-> <<>>]
      /\ registry = [f \in Servers!FullNames |-> 0] /\ gens = <<>>
      /\ owned = {} /\ freed = {} /\ wanted = {} /\ deletedServers = {}
      /\ request = [op |-> "none", name |-> Original, config |-> Default, at |-> "done",
                    todo |-> <<>>, left |-> {}, stale |-> 0]
  BY DEF Servers!Init, Servers!NoRequest
<1>2. request \in Request
  BY <1>1, ServersAssumption DEF Request, Ops, Points
<1>3. <<>> \in Seq(Connection) /\ <<>> \in Seq(Entry) /\ <<>> \in Seq(Tool)
  OBVIOUS
<1>4. ServerTypes
  BY <1>1, <1>2, <1>3 DEF ServerTypes, Distinct
<1> QED BY <1>1, <1>4 DEF ServersInv, RequestFits, Linked, Rooted, Remembered, NamesIn

-----------------------------------------------------------------------------
(* Lists of connections *)

\* mcp_manager_load_local adds the names of its files, once each.
LEMMA LocalsAreAdded ==
    ASSUME NEW list \in Seq(Connection), Distinct(list), NEW c \in Servers!WithLocal(list)
    PROVE  /\ c \in Seq(Connection) /\ Distinct(c)
           /\ NamesIn(c) = NamesIn(list) \cup Local
           /\ Servers!Kept(list) \subseteq Servers!Kept(c)
<1> DEFINE new == Local \ NamesIn(list)
           m == Cardinality(new)
           renewed == [i \in DOMAIN list |->
                      IF list[i].name \in Local THEN Servers!Conn(list[i].name, Default)
                      ELSE list[i]]
<1>1. IsFiniteSet(new) /\ m \in Nat
  BY ServersAssumption, FS_Difference, FS_CardinalityType
<1>2. PICK order \in [1 .. m -> new] :
         /\ \A a, b \in 1 .. m : order[a] = order[b] => a = b
         /\ \A n \in new : \E a \in 1 .. m : order[a] = n
         /\ c = renewed \o [i \in 1 .. m |-> Servers!Conn(order[i], Default)]
  BY ServersCount DEF Servers!WithLocal, Servers!Bijection, Servers!Injection, Servers!Surjection,
     Servers!IsInjective, NamesIn
<1>3. /\ \A n \in Names : /\ Servers!Conn(n, Default) \in Connection
                          /\ Servers!Conn(n, Default).name = n
      /\ Local \subseteq Names
  BY ServersAssumption DEF Servers!Conn, Connection
<1>4. /\ renewed \in Seq(Connection) /\ Len(renewed) = Len(list)
      /\ \A i \in 1 .. Len(list) : /\ renewed[i].name = list[i].name /\ renewed[i] \in Connection
                                   /\ list[i].name \notin Local => renewed[i] = list[i]
  <2>1. \A i \in 1 .. Len(list) : list[i] \in Connection /\ list[i].name \in Names
    <3>1. \A i \in 1 .. Len(list) : list[i] \in Connection
      OBVIOUS
    <3> QED BY <3>1 DEF Connection
  <2>2. renewed \in [1 .. Len(list) -> Connection]
    BY <1>3, <2>1
  <2> QED BY <1>3, <2>1, <2>2
<1> DEFINE late == [i \in 1 .. m |-> Servers!Conn(order[i], Default)]
<1>5. /\ late \in Seq(Connection) /\ Len(late) = m
      /\ \A i \in 1 .. m : late[i].name = order[i] /\ order[i] \in new
  <2>1. \A i \in 1 .. m : order[i] \in new /\ order[i] \in Names
    BY <1>2, <1>3
  <2>2. \A i \in 1 .. m : late[i].name = order[i] /\ late[i] \in Connection
    BY <1>3, <2>1
  <2>3. late \in [1 .. m -> Connection]
    BY <2>2
  <2>4. late \in Seq(Connection) /\ Len(late) = m
    <3> HIDE DEF late, m
    <3> QED BY <1>1, <2>3
  <2> QED BY <2>1, <2>2, <2>4
<1> HIDE DEF late, renewed, m, new
<1>6. /\ c \in Seq(Connection) /\ Len(c) = Len(list) + m
      /\ \A i \in 1 .. Len(list) : c[i] = renewed[i]
      /\ \A i \in 1 .. m : c[Len(list) + i] = late[i]
      /\ DOMAIN c = 1 .. Len(list) + m /\ DOMAIN list = 1 .. Len(list) /\ Len(list) \in Nat
  <2>1. c = renewed \o late
    BY <1>2 DEF late
  <2>2. \A u, v \in Seq(Connection) :
           /\ u \o v \in Seq(Connection) /\ Len(u \o v) = Len(u) + Len(v)
           /\ \A i \in 1 .. Len(u) : (u \o v)[i] = u[i]
           /\ \A i \in 1 .. Len(v) : (u \o v)[Len(u) + i] = v[i]
    OBVIOUS
  <2>3. c \in Seq(Connection) /\ Len(c) = Len(list) + m
    BY <1>4, <1>5, <2>1, <2>2, Zenon
  <2>4. \A i \in 1 .. Len(list) : c[i] = renewed[i]
    <3>1. \A i \in 1 .. Len(renewed) : (renewed \o late)[i] = renewed[i]
      BY <1>4, <1>5, <2>2, Zenon
    <3> QED BY <1>4, <2>1, <3>1, Zenon
  <2>5. \A i \in 1 .. m : c[Len(list) + i] = late[i]
    <3>1. \A i \in 1 .. Len(late) : (renewed \o late)[Len(renewed) + i] = late[i]
      BY <1>4, <1>5, <2>2, Zenon
    <3> QED BY <1>4, <1>5, <2>1, <3>1, Zenon
  <2>6. DOMAIN list = 1 .. Len(list) /\ Len(list) \in Nat /\ DOMAIN c = 1 .. Len(c)
    BY <2>3
  <2> QED BY <2>3, <2>4, <2>5, <2>6
<1>7. \A i \in DOMAIN c :
         \/ i \in DOMAIN list /\ c[i].name = list[i].name
         \/ i - Len(list) \in 1 .. m /\ c[i].name = order[i - Len(list)]
            /\ order[i - Len(list)] \in new
  <2> SUFFICES ASSUME NEW i \in DOMAIN c, ~(i \in DOMAIN list /\ c[i].name = list[i].name)
               PROVE  i - Len(list) \in 1 .. m /\ c[i].name = order[i - Len(list)]
                      /\ order[i - Len(list)] \in new
    OBVIOUS
  <2>1. i \in 1 .. Len(list) + m /\ i \notin 1 .. Len(list)
    BY <1>4, <1>6
  <2>2. i - Len(list) \in 1 .. m /\ i = Len(list) + (i - Len(list))
    BY <1>1, <1>6, <2>1
  <2> QED BY <1>5, <1>6, <2>2
<1>8. Distinct(c)
  <2> SUFFICES ASSUME NEW i \in DOMAIN c, NEW j \in DOMAIN c, c[i].name = c[j].name
               PROVE  i = j
    BY DEF Distinct
  <2>1. CASE i \in DOMAIN list /\ j \in DOMAIN list
    BY <1>4, <1>6, <2>1 DEF Distinct
  <2>2. CASE i \notin DOMAIN list /\ j \notin DOMAIN list
    <3>1. /\ i - Len(list) \in 1 .. m /\ j - Len(list) \in 1 .. m
          /\ order[i - Len(list)] = order[j - Len(list)]
      BY <1>7, <2>2
    <3>2. i - Len(list) = j - Len(list)
      BY <1>2, <3>1
    <3> QED BY <1>1, <1>6, <3>2
  <2>3. ASSUME NEW a \in DOMAIN c, NEW b \in DOMAIN c, a \in DOMAIN list, b \notin DOMAIN list
        PROVE  c[a].name # c[b].name
    <3>1. c[a].name = list[a].name
      BY <1>4, <1>6, <2>3
    <3>2. c[a].name \in NamesIn(list)
      BY <2>3, <3>1 DEF NamesIn
    <3>3. c[b].name \in new
      BY <1>7, <2>3
    <3> QED BY <3>2, <3>3 DEF new
  <2> QED BY <2>1, <2>2, <2>3
<1>9. NamesIn(c) = NamesIn(list) \cup Local
  <2>1. NamesIn(c) \subseteq NamesIn(list) \cup Local
    BY <1>7 DEF NamesIn, new
  <2>2. NamesIn(list) \subseteq NamesIn(c)
    <3>1. \A i \in DOMAIN list : i \in DOMAIN c /\ c[i].name = list[i].name
      BY <1>1, <1>4, <1>6
    <3> QED BY <3>1 DEF NamesIn
  <2>3. new \subseteq NamesIn(c)
    <3> SUFFICES ASSUME NEW n \in new PROVE n \in NamesIn(c)
      OBVIOUS
    <3>1. PICK a \in 1 .. m : order[a] = n
      BY <1>2
    <3>2. Len(list) + a \in DOMAIN c /\ c[Len(list) + a].name = n
      BY <1>1, <1>5, <1>6, <3>1
    <3> QED BY <3>2 DEF NamesIn
  <2> QED BY <2>1, <2>2, <2>3 DEF new
<1>10. Servers!Kept(list) \subseteq Servers!Kept(c)
  <2> SUFFICES ASSUME NEW i \in DOMAIN list, list[i].name \notin Local
               PROVE  i \in DOMAIN c /\ c[i] = list[i]
    BY KeptIs
  <2> QED BY <1>1, <1>4, <1>6
<1> QED BY <1>6, <1>8, <1>9, <1>10

\* mcp_manager_add_ex
LEMMA OneIsAdded ==
    ASSUME NEW list \in Seq(Connection), Distinct(list), NEW new \in Connection
    PROVE  LET c == Servers!Added(list, new)
           IN  c \in Seq(Connection) /\ Distinct(c) /\ NamesIn(c) = NamesIn(list) \cup {new.name}
<1> DEFINE c == Servers!Added(list, new)
<1>1. CASE \E i \in DOMAIN list : list[i].name = new.name
  <2>1. c = [i \in DOMAIN list |-> IF list[i].name = new.name THEN new ELSE list[i]]
    BY <1>1 DEF Servers!Added
  <2>2. /\ DOMAIN c = DOMAIN list /\ c \in Seq(Connection)
        /\ \A i \in DOMAIN list : c[i].name = list[i].name
    BY <2>1
  <2>3. Distinct(c) /\ NamesIn(c) = NamesIn(list) \cup {new.name}
    <3> HIDE DEF c
    <3> QED BY <1>1, <2>2 DEF Distinct, NamesIn
  <2> QED BY <2>2, <2>3
<1>2. CASE ~ \E i \in DOMAIN list : list[i].name = new.name
  <2>1. c = Append(list, new)
    BY <1>2 DEF Servers!Added
  <2>2. /\ c \in Seq(Connection) /\ DOMAIN c = DOMAIN list \cup {Len(list) + 1}
        /\ Len(list) + 1 \notin DOMAIN list
        /\ c[Len(list) + 1] = new /\ \A i \in DOMAIN list : c[i] = list[i]
    BY <2>1
  <2>3. Distinct(c) /\ NamesIn(c) = NamesIn(list) \cup {new.name}
    <3> HIDE DEF c
    <3> QED BY <1>2, <2>2 DEF Distinct, NamesIn
  <2> QED BY <2>2, <2>3
<1> QED BY <1>1, <1>2

\* find_conn finds the connection of a name that is known.
LEMMA Found ==
    ASSUME NEW n \in NamesIn(conns)
    PROVE  Servers!FindConn(n) \in DOMAIN conns /\ conns[Servers!FindConn(n)].name = n
<1>1. \E i \in DOMAIN conns : conns[i].name = n
  BY DEF NamesIn
<1> QED BY <1>1 DEF Servers!FindConn

\* mcp_manager_remove
LEMMA OneIsRemoved ==
    ASSUME NEW list \in Seq(Connection), Distinct(list), NEW i \in DOMAIN list
    PROVE  LET c == Servers!RemoveAt(list, i)
           IN  /\ c \in Seq(Connection) /\ Distinct(c)
               /\ NamesIn(c) = NamesIn(list) \ {list[i].name}
<1> DEFINE c == Servers!RemoveAt(list, i)
           From(k) == IF k < i THEN k ELSE k + 1
           low == SubSeq(list, 1, i - 1)
           high == SubSeq(list, i + 1, Len(list))
<1>1. /\ c \in Seq(Connection) /\ DOMAIN c = 1 .. Len(list) - 1
      /\ \A k \in DOMAIN c : c[k] = list[From(k)] /\ From(k) \in DOMAIN list \ {i}
  <2>1. i \in 1 .. Len(list) /\ i \in Nat /\ Len(list) \in Nat /\ DOMAIN list = 1 .. Len(list)
    OBVIOUS
  <2>2. /\ low \in Seq(Connection) /\ Len(low) = i - 1
        /\ \A k \in 1 .. i - 1 : low[k] = list[k]
    BY <2>1
  <2>3. /\ high \in Seq(Connection) /\ Len(high) = Len(list) - i
        /\ \A k \in 1 .. Len(list) - i : high[k] = list[i + k]
    BY <2>1
  <2>4. c = low \o high
    BY DEF Servers!RemoveAt
  <2> HIDE DEF low, high, c
  <2>5. /\ c \in Seq(Connection) /\ DOMAIN c = 1 .. Len(list) - 1
        /\ \A k \in 1 .. i - 1 : c[k] = low[k]
        /\ \A k \in i .. Len(list) - 1 : c[k] = high[k - (i - 1)]
    <3>0. \A u, v \in Seq(Connection) :
             u \o v \in Seq(Connection) /\ Len(u \o v) = Len(u) + Len(v)
      OBVIOUS
    <3>1. c \in Seq(Connection) /\ Len(c) = Len(low) + Len(high)
      BY <2>2, <2>3, <2>4, <3>0, Zenon
    <3>2. DOMAIN c = 1 .. Len(list) - 1
      BY <2>1, <2>2, <2>3, <3>1
    <3>3. \A u, v \in Seq(Connection) :
             /\ \A k \in 1 .. Len(u) : (u \o v)[k] = u[k]
             /\ \A k \in Len(u) + 1 .. Len(u) + Len(v) : (u \o v)[k] = v[k - Len(u)]
      OBVIOUS
    <3>4. \A k \in 1 .. i - 1 : c[k] = low[k]
      BY <2>2, <2>3, <2>4, <3>3
    <3>5. \A k \in i .. Len(list) - 1 : c[k] = high[k - (i - 1)]
      BY <2>1, <2>2, <2>3, <2>4, <3>3
    <3> QED BY <3>1, <3>2, <3>4, <3>5
  <2>6. ASSUME NEW k \in DOMAIN c
        PROVE  c[k] = list[From(k)] /\ From(k) \in DOMAIN list \ {i}
    <3>1. CASE k < i
      BY <2>1, <2>2, <2>5, <3>1
    <3>2. CASE ~(k < i)
      <4>1. k \in i .. Len(list) - 1 /\ k - (i - 1) \in 1 .. Len(list) - i
            /\ i + (k - (i - 1)) = k + 1
        BY <2>1, <2>5, <3>2
      <4> QED BY <2>1, <2>3, <2>5, <3>2, <4>1
    <3> QED BY <3>1, <3>2
  <2> QED BY <2>5, <2>6
<1>2. \A k \in DOMAIN list \ {i} : \E l \in DOMAIN c : From(l) = k
  <2> HIDE DEF c
  <2> SUFFICES ASSUME NEW k \in DOMAIN list \ {i} PROVE \E l \in DOMAIN c : From(l) = k
    OBVIOUS
  <2>0. i \in Nat /\ k \in Nat /\ k \in 1 .. Len(list) /\ Len(list) \in Nat /\ k # i /\ i \in 1 .. Len(list)
    OBVIOUS
  <2>1. CASE k < i
    <3>1. k \in DOMAIN c /\ From(k) = k
      BY <1>1, <2>0, <2>1
    <3> QED BY <3>1
  <2>2. CASE k > i
    <3>1. k - 1 \in DOMAIN c /\ From(k - 1) = k
      BY <1>1, <2>0, <2>2
    <3> QED BY <3>1
  <2> QED BY <2>0, <2>1, <2>2
<1>3. \A k, l \in DOMAIN c : From(k) = From(l) => k = l
  <2> HIDE DEF c
  <2>1. i \in Nat /\ \A k \in DOMAIN c : k \in Nat
    BY <1>1
  <2> QED BY <2>1
<1> HIDE DEF c, From
<1>4. Distinct(c)
  BY <1>1, <1>3 DEF Distinct
<1>5. NamesIn(c) = NamesIn(list) \ {list[i].name}
  <2>1. NamesIn(c) \subseteq NamesIn(list) \ {list[i].name}
    BY <1>1 DEF NamesIn, Distinct
  <2>2. \A k \in DOMAIN list \ {i} : list[k].name \in NamesIn(c)
    BY <1>1, <1>2 DEF NamesIn
  <2> QED BY <2>1, <2>2 DEF NamesIn
<1> QED BY <1>1, <1>4, <1>5 DEF c

\* What is kept of a list are its names and configurations.
LEMMA SameServers ==
    ASSUME NEW a, NEW b, DOMAIN a = DOMAIN b,
           \A i \in DOMAIN a : a[i].name = b[i].name /\ a[i].config = b[i].config
    PROVE  /\ Servers!Kept(a) = Servers!Kept(b) /\ NamesIn(a) = NamesIn(b)
           /\ Distinct(a) <=> Distinct(b)
<1>1. Servers!Kept(a) = Servers!Kept(b)
  BY KeptIs
<1>2. NamesIn(a) = NamesIn(b)
  BY DEF NamesIn
<1>3. Distinct(a) <=> Distinct(b)
  BY DEF Distinct
<1> QED BY <1>1, <1>2, <1>3

\* A list of tools is noted, or forgotten.
LEMMA ListedChanges ==
    ASSUME NEW list \in Seq(Connection), Distinct(list),
           NEW i \in DOMAIN list, NEW offers \in SUBSET Offers
    PROVE  LET c == [list EXCEPT ![i].listed = offers]
           IN  /\ c \in Seq(Connection) /\ Distinct(c) /\ NamesIn(c) = NamesIn(list)
               /\ Servers!Kept(c) = Servers!Kept(list)
<1> DEFINE c == [list EXCEPT ![i].listed = offers]
<1>1. list[i] \in Connection
  OBVIOUS
<1>2. [list[i] EXCEPT !.listed = offers] \in Connection
  BY <1>1 DEF Connection
<1>3. c = [list EXCEPT ![i] = [list[i] EXCEPT !.listed = offers]]
  OBVIOUS
<1>4. c \in Seq(Connection)
  <2> HIDE DEF c
  <2> QED BY <1>2, <1>3
<1>5. /\ DOMAIN c = DOMAIN list
      /\ \A k \in DOMAIN c : c[k].name = list[k].name /\ c[k].config = list[k].config
  BY <1>1 DEF Connection
<1> HIDE DEF c
<1>6. /\ Servers!Kept(c) = Servers!Kept(list) /\ NamesIn(c) = NamesIn(list)
      /\ Distinct(c) <=> Distinct(list)
  BY <1>5, SameServers, Zenon
<1> QED BY <1>4, <1>6 DEF c

LEMMA NamesAreListed ==
    ASSUME NEW list \in Seq(Connection)
    PROVE  /\ Servers!NamesOf(list) \in Seq(Names)
           /\ \A i \in DOMAIN Servers!NamesOf(list) : Servers!NamesOf(list)[i] \in NamesIn(list)
<1>1. \A i \in 1 .. Len(list) : list[i] \in Connection
  OBVIOUS
<1>2. /\ DOMAIN list = 1 .. Len(list) /\ Len(list) \in Nat
      /\ \A i \in 1 .. Len(list) : list[i].name \in Names
  BY <1>1 DEF Connection
<1>3. Servers!NamesOf(list) \in [1 .. Len(list) -> Names]
  BY <1>2 DEF Servers!NamesOf
<1>4. Servers!NamesOf(list) \in Seq(Names)
  BY <1>2, <1>3
<1> QED BY <1>4 DEF Servers!NamesOf, NamesIn

\* Every structure of a tool has the slug of its server, and a name.
LEMMA ToolsAreNamed ==
    ASSUME ServerTypes
    PROVE  /\ 0 \notin owned
           /\ \A g \in DOMAIN gens : /\ Servers!FullName(g) \in Servers!FullNames
                                    /\ gens[g].slug = Servers!Slug(gens[g].server)
<1>1. gens \in Seq(Tool) /\ owned \subseteq DOMAIN gens
  BY DEF ServerTypes
<1>2. 0 \notin owned
  BY <1>1
<1>3. \A g \in DOMAIN gens : gens[g] \in Tool
  BY <1>1
<1>4. ASSUME NEW g \in DOMAIN gens
      PROVE  /\ Servers!FullName(g) \in Servers!FullNames
             /\ gens[g].slug = Servers!Slug(gens[g].server)
  <2>1. PICK n \in Names, t \in Offers :
           gens[g] = [server |-> n, slug |-> Servers!Slug(n), tool |-> t]
    BY <1>3 DEF Tool
  <2> QED BY <2>1 DEF Servers!FullName, Servers!FullNames
<1> QED BY <1>2, <1>4

-----------------------------------------------------------------------------
(* Requests *)

LEMMA RequestIsOver ==
    ASSUME ServersInv, request' = Servers!NoRequest, request.stale = 0,
           request.at # "unregister", UNCHANGED <<conns, registry, gens, owned, freed>>
    PROVE  request' \in Request /\ RequestFits' /\ Linked' /\ Rooted' /\ ~Unsettled'
<1>1. request' = [op |-> "none", name |-> Original, config |-> Default, at |-> "done",
                  todo |-> <<>>, left |-> {}, stale |-> 0]
  BY DEF Servers!NoRequest
<1>2. request' \in Request
  <2>1. <<>> \in Seq(Names)
    OBVIOUS
  <2> QED BY <1>1, <2>1, ServersAssumption DEF Request, Ops, Points
<1>3. RequestFits' /\ ~Unsettled'
  BY <1>1 DEF RequestFits, Unsettled
<1>4. Linked'
  BY <1>1 DEF ServersInv, Linked, Servers!FullName
<1>5. Rooted'
  BY <1>1 DEF ServersInv, Rooted
<1> QED BY <1>2, <1>3, <1>4, <1>5

LEMMA RequestBegins ==
    ASSUME ServersInv, NEW op \in {"add", "delete", "sync"}, NEW n \in Names \cup {Original},
           NEW c \in Configs, op = "add" => n \in Names, Servers!Begin(op, n, c, "change")
    PROVE  ServersInv'
<1>1. /\ request.op = "none"
      /\ request' = [op |-> op, name |-> n, config |-> c, at |-> "change",
                     todo |-> <<>>, left |-> {}, stale |-> 0]
      /\ UNCHANGED <<conns, registry, gens, owned, freed, mcpFile, wanted, deletedServers>>
  BY DEF Servers!Begin, Servers!NoRequest, Servers!table, Servers!history
<1>2. request.at = "done" /\ request.stale = 0
  <2>1. request.stale \in Nat
    BY DEF ServersInv, ServerTypes, Request
  <2> QED BY <1>1, <2>1 DEF ServersInv, RequestFits
<1>3. request' \in Request
  <2>1. <<>> \in Seq(Names)
    OBVIOUS
  <2> QED BY <1>1, <2>1 DEF Request, Ops, Points
<1>4. ServerTypes'
  BY <1>1, <1>3 DEF ServersInv, ServerTypes
<1>5. RequestFits'
  BY <1>1 DEF RequestFits
<1>6. Linked'
  BY <1>1, <1>2 DEF ServersInv, Linked, Servers!FullName
<1>7. Rooted'
  BY <1>1, <1>2 DEF ServersInv, Rooted
<1>8. Remembered'
  BY <1>1 DEF ServersInv, Remembered, Unsettled
<1> QED BY <1>4, <1>5, <1>6, <1>7, <1>8 DEF ServersInv

LEMMA ConnIsAdded == ServersInv /\ Servers!AddConn => ServersInv'
<1> SUFFICES ASSUME ServersInv, Servers!AddConn PROVE ServersInv'
  OBVIOUS
<1> DEFINE new == Servers!Conn(request.name, request.config)
<1>1. /\ request.op = "add" /\ request.at = "change" /\ conns' = Servers!Added(conns, new)
      /\ request' = [request EXCEPT !.at = "sync", !.todo = <<request.name>>]
      /\ deletedServers' = deletedServers \ {request.name}
      /\ UNCHANGED <<registry, gens, owned, freed, mcpFile, wanted>>
  BY DEF Servers!AddConn, Servers!table
<1>2. request \in Request /\ request.name \in Names /\ request.stale = 0
  <2>1. request \in Request
    BY DEF ServersInv, ServerTypes
  <2>2. request.stale \in Nat
    BY <2>1 DEF Request
  <2> QED BY <1>1, <2>1, <2>2 DEF ServersInv, RequestFits
<1>3. new \in Connection /\ new.name = request.name
  BY <1>2 DEF Servers!Conn, Connection, Request
<1>4. conns \in Seq(Connection) /\ Distinct(conns)
  BY DEF ServersInv, ServerTypes
<1>5. /\ conns' \in Seq(Connection) /\ Distinct(conns')
      /\ NamesIn(conns') = NamesIn(conns) \cup {request.name}
  <2> HIDE DEF new
  <2>1. /\ Servers!Added(conns, new) \in Seq(Connection) /\ Distinct(Servers!Added(conns, new))
        /\ NamesIn(Servers!Added(conns, new)) = NamesIn(conns) \cup {new.name}
    BY <1>3, <1>4, OneIsAdded, Zenon
  <2> QED BY <1>1, <1>3, <2>1
<1>6. /\ request' \in Request /\ request'.op = "add" /\ request'.at = "sync"
      /\ request'.todo = <<request.name>> /\ request'.stale = 0
  <2>1. <<request.name>> \in Seq(Names)
    BY <1>2
  <2> QED BY <1>1, <1>2, <2>1 DEF Request, Points
<1>7. ServerTypes'
  BY <1>1, <1>5, <1>6 DEF ServersInv, ServerTypes
<1>8. RequestFits'
  BY <1>5, <1>6 DEF RequestFits
<1>9. Linked'
  BY <1>1, <1>2, <1>6 DEF ServersInv, Linked, Servers!FullName
<1>10. Rooted'
  BY <1>1, <1>5 DEF ServersInv, Rooted
<1>11. Remembered'
  BY <1>1, <1>6 DEF ServersInv, Remembered, Unsettled
<1> QED BY <1>7, <1>8, <1>9, <1>10, <1>11 DEF ServersInv

LEMMA LocalIsLoaded == ServersInv /\ Servers!LoadLocal => ServersInv'
<1> SUFFICES ASSUME ServersInv, Servers!LoadLocal PROVE ServersInv'
  OBVIOUS
<1>1. /\ request.op = "sync" /\ request.at = "change" /\ conns' \in Servers!WithLocal(conns)
      /\ request' = [request EXCEPT !.at = "sync", !.todo = Servers!NamesOf(conns')]
      /\ UNCHANGED <<registry, gens, owned, freed, mcpFile, wanted, deletedServers>>
  BY DEF Servers!LoadLocal, Servers!table, Servers!history
<1>2. request \in Request /\ request.stale = 0
  <2>1. request \in Request
    BY DEF ServersInv, ServerTypes
  <2>2. request.stale \in Nat
    BY <2>1 DEF Request
  <2> QED BY <1>1, <2>1, <2>2 DEF ServersInv, RequestFits
<1>3. conns \in Seq(Connection) /\ Distinct(conns)
  BY DEF ServersInv, ServerTypes
<1>4. /\ conns' \in Seq(Connection) /\ Distinct(conns')
      /\ NamesIn(conns') = NamesIn(conns) \cup Local
      /\ Servers!Kept(conns) \subseteq Servers!Kept(conns')
  BY <1>1, <1>3, LocalsAreAdded, Zenon
<1>5. /\ Servers!NamesOf(conns') \in Seq(Names)
      /\ \A i \in DOMAIN Servers!NamesOf(conns') :
            Servers!NamesOf(conns')[i] \in NamesIn(conns')
  BY <1>4, NamesAreListed
<1>6. /\ request' \in Request /\ request'.op = "sync" /\ request'.at = "sync"
      /\ request'.todo = Servers!NamesOf(conns') /\ request'.stale = 0
  BY <1>1, <1>2, <1>5 DEF Request, Points
<1>7. ServerTypes'
  BY <1>1, <1>4, <1>6 DEF ServersInv, ServerTypes
<1>8. RequestFits'
  BY <1>5, <1>6 DEF RequestFits
<1>9. Linked'
  BY <1>1, <1>2, <1>6 DEF ServersInv, Linked, Servers!FullName
<1>10. Rooted'
  BY <1>1, <1>4 DEF ServersInv, Rooted
<1>11. Remembered'
  BY <1>1, <1>4 DEF ServersInv, Remembered, Unsettled
<1> QED BY <1>7, <1>8, <1>9, <1>10, <1>11 DEF ServersInv

LEMMA ConnIsRemoved == ServersInv /\ Servers!RemoveConn => ServersInv'
<1> SUFFICES ASSUME ServersInv, Servers!RemoveConn PROVE ServersInv'
  OBVIOUS
<1> DEFINE n == request.name
<1>1. /\ request.op = "delete" /\ request.at = "change"
      /\ wanted' = {w \in wanted : w.name # n}
      /\ UNCHANGED <<registry, gens, owned, freed, mcpFile, deletedServers>>
  BY DEF Servers!RemoveConn, Servers!table
<1>2. request \in Request /\ request.stale = 0
  <2>1. request \in Request
    BY DEF ServersInv, ServerTypes
  <2>2. request.stale \in Nat
    BY <2>1 DEF Request
  <2> QED BY <1>1, <2>1, <2>2 DEF ServersInv, RequestFits
<1>3. conns \in Seq(Connection) /\ Distinct(conns)
  BY DEF ServersInv, ServerTypes
<1>4. CASE n \in Servers!Known
  <2>1. /\ conns' = Servers!RemoveAt(conns, Servers!FindConn(n))
        /\ request' = [request EXCEPT !.at = "unregister",
                          !.left = {g \in owned : gens[g].slug = Servers!Slug(n)}]
    BY <1>4 DEF Servers!RemoveConn
  <2>2. n \in NamesIn(conns)
    BY <1>4 DEF Servers!Known, NamesIn
  <2>3. Servers!FindConn(n) \in DOMAIN conns /\ conns[Servers!FindConn(n)].name = n
    BY <2>2, Found
  <2>4. /\ conns' \in Seq(Connection) /\ Distinct(conns')
        /\ NamesIn(conns') = NamesIn(conns) \ {n}
    <3>1. \A i \in DOMAIN conns :
             /\ Servers!RemoveAt(conns, i) \in Seq(Connection)
             /\ Distinct(Servers!RemoveAt(conns, i))
             /\ NamesIn(Servers!RemoveAt(conns, i)) = NamesIn(conns) \ {conns[i].name}
      BY <1>3, OneIsRemoved, Zenon
    <3> QED BY <2>1, <2>3, <3>1
  <2>5. /\ request'.op = "delete" /\ request'.at = "unregister" /\ request'.stale = 0
        /\ request'.left = {g \in owned : gens[g].slug = Servers!Slug(n)}
        /\ request' \in Request
    <3>1. owned \subseteq Nat
      BY DEF ServersInv, ServerTypes
    <3> QED BY <1>1, <1>2, <2>1, <3>1 DEF Request, Points
  <2>6. ServerTypes'
    BY <1>1, <2>4, <2>5 DEF ServersInv, ServerTypes
  <2>7. 0 \notin owned
    BY ToolsAreNamed DEF ServersInv
  <2>8. RequestFits'
    BY <1>1, <2>5, <2>7 DEF RequestFits
  <2>9. Linked'
    BY <1>1, <1>2, <2>5 DEF ServersInv, Linked, Servers!FullName
  <2>10. Rooted'
    <3> SUFFICES ASSUME NEW f \in Servers!FullNames, registry[f] # 0
                 PROVE  \/ gens[registry[f]].server \in NamesIn(conns')
                        \/ registry[f] \in request'.left
      BY <1>1, <2>5 DEF Rooted
    <3>1. gens[registry[f]].server \in NamesIn(conns)
      BY <1>1 DEF ServersInv, Rooted
    <3>2. registry[f] \in owned
      BY DEF ServersInv, Linked
    <3>3. registry[f] \in DOMAIN gens
      BY <3>2 DEF ServersInv, ServerTypes
    <3>4. gens[registry[f]].slug = Servers!Slug(gens[registry[f]].server)
      BY <3>3, ToolsAreNamed DEF ServersInv
    <3> QED BY <2>4, <2>5, <3>1, <3>2, <3>4
  <2>11. Remembered'
    BY <1>1, <2>5 DEF ServersInv, Remembered, Unsettled
  <2> QED BY <2>6, <2>8, <2>9, <2>10, <2>11 DEF ServersInv
<1>5. CASE n \notin Servers!Known
  <2>1. conns' = conns /\ request' = Servers!NoRequest
    BY <1>5 DEF Servers!RemoveConn
  <2>2. request' \in Request /\ RequestFits' /\ Linked' /\ Rooted' /\ ~Unsettled'
    BY <1>1, <1>2, <2>1, RequestIsOver
  <2>3. ServerTypes'
    BY <1>1, <2>1, <2>2 DEF ServersInv, ServerTypes
  <2>4. Remembered'
    BY <1>1, <2>1 DEF ServersInv, Remembered, Unsettled
  <2> QED BY <2>2, <2>3, <2>4 DEF ServersInv
<1> QED BY <1>4, <1>5

\* mcp_manager_remove takes a tool out of the registry, and then frees it.
LEMMA ToolIsTakenOut == ServersInv /\ Servers!Unregister => ServersInv'
<1> SUFFICES ASSUME ServersInv, Servers!Unregister PROVE ServersInv'
  OBVIOUS
<1>1. PICK g \in request.left :
         /\ registry' = [registry EXCEPT ![Servers!FullName(g)] = 0]
         /\ request' = [request EXCEPT !.left = @ \ {g}, !.stale = g]
  BY DEF Servers!Unregister
<1>2. /\ request.at = "unregister" /\ request.stale = 0
      /\ UNCHANGED <<conns, gens, owned, freed, mcpFile, wanted, deletedServers>>
  BY DEF Servers!Unregister, Servers!history
<1>3. request \in Request /\ request.op = "delete" /\ request.left \subseteq owned
  BY <1>2 DEF ServersInv, ServerTypes, RequestFits
<1>4. /\ owned \subseteq DOMAIN gens /\ DOMAIN gens \subseteq Nat
      /\ registry \in [Servers!FullNames -> Nat]
  BY DEF ServersInv, ServerTypes
<1>5. g \in owned /\ g \in Nat /\ g # 0 /\ Servers!FullName(g) \in Servers!FullNames
  BY <1>3, <1>4, ToolsAreNamed DEF ServersInv
<1>6. /\ request' \in Request /\ request'.op = "delete" /\ request'.at = "unregister"
      /\ request'.left = request.left \ {g} /\ request'.stale = g
  BY <1>1, <1>2, <1>3, <1>5 DEF Request
<1>7. /\ registry' \in [Servers!FullNames -> Nat]
      /\ \A f \in Servers!FullNames :
            registry'[f] = IF f = Servers!FullName(g) THEN 0 ELSE registry[f]
  BY <1>1, <1>4
<1>8. \A h : Servers!FullName(h)' = Servers!FullName(h)
  BY <1>2 DEF Servers!FullName
<1>9. registry[Servers!FullName(g)] = g
  BY <1>2, <1>5 DEF ServersInv, Linked
<1>10. ServerTypes'
  BY <1>2, <1>6, <1>7 DEF ServersInv, ServerTypes
<1>11. RequestFits'
  BY <1>2, <1>3, <1>6 DEF RequestFits
<1>12. Linked'
  <2>1. \A f \in Servers!FullNames : registry'[f] # 0 =>
           registry'[f] \in owned /\ Servers!FullName(registry'[f]) = f
    BY <1>7 DEF ServersInv, Linked
  <2>2. \A h \in owned : registry'[Servers!FullName(h)] = h \/ h = g
    <3> SUFFICES ASSUME NEW h \in owned, h # g PROVE registry'[Servers!FullName(h)] = h
      OBVIOUS
    <3>1. registry[Servers!FullName(h)] = h
      BY <1>2, ToolsAreNamed DEF ServersInv, Linked
    <3>2. Servers!FullName(h) \in Servers!FullNames
      BY <1>4, ToolsAreNamed DEF ServersInv
    <3> QED BY <1>7, <1>9, <3>1, <3>2
  <2>3. registry'[Servers!FullName(g)] # g
    BY <1>5, <1>7
  <2> QED BY <1>2, <1>5, <1>6, <1>8, <2>1, <2>2, <2>3 DEF Linked
<1>13. Rooted'
  <2> SUFFICES ASSUME NEW f \in Servers!FullNames, registry'[f] # 0
               PROVE  \/ gens[registry'[f]].server \in NamesIn(conns)
                      \/ registry'[f] \in request.left \ {g}
    BY <1>2, <1>6 DEF Rooted
  <2>1. registry'[f] = registry[f] /\ f # Servers!FullName(g)
    BY <1>7
  <2>2. registry[f] # g
    BY <2>1 DEF ServersInv, Linked
  <2> QED BY <2>1, <2>2 DEF ServersInv, Rooted
<1>14. Remembered'
  BY <1>2, <1>3, <1>6 DEF ServersInv, Remembered, Unsettled
<1> QED BY <1>10, <1>11, <1>12, <1>13, <1>14 DEF ServersInv

LEMMA ToolIsFreed == ServersInv /\ Servers!Free => ServersInv'
<1> SUFFICES ASSUME ServersInv, Servers!Free PROVE ServersInv'
  OBVIOUS
<1> DEFINE g == request.stale
<1>1. /\ g # 0 /\ owned' = owned \ {g} /\ freed' = freed \cup {g}
      /\ request' = [request EXCEPT !.stale = 0]
      /\ UNCHANGED <<conns, registry, gens, mcpFile, wanted, deletedServers>>
  BY DEF Servers!Free, Servers!history
<1>2. /\ request \in Request /\ g \in owned /\ registry[Servers!FullName(g)] # g
      /\ request.at \in {"unregister", "register"}
  BY <1>1 DEF ServersInv, ServerTypes, RequestFits, Linked
<1>3. /\ request' \in Request /\ request'.stale = 0 /\ request'.op = request.op
      /\ request'.at = request.at /\ request'.left = request.left
      /\ request'.name = request.name /\ request'.todo = request.todo
  BY <1>1, <1>2 DEF Request
<1>4. 0 \notin owned
  BY ToolsAreNamed DEF ServersInv
<1>5. ServerTypes'
  BY <1>1, <1>2, <1>3 DEF ServersInv, ServerTypes
<1>6. RequestFits'
  BY <1>1, <1>2, <1>3, <1>4 DEF ServersInv, RequestFits
<1>7. Linked'
  <2>1. \A h : Servers!FullName(h)' = Servers!FullName(h)
    BY <1>1 DEF Servers!FullName
  <2>2. \A f \in Servers!FullNames : registry[f] # 0 =>
           registry[f] \in owned' /\ Servers!FullName(registry[f]) = f
    BY <1>1, <1>2 DEF ServersInv, Linked
  <2>3. \A h \in owned' : registry[Servers!FullName(h)] = h
    BY <1>1 DEF ServersInv, Linked
  <2> QED BY <1>1, <1>3, <2>1, <2>2, <2>3 DEF Linked
<1>8. Rooted'
  BY <1>1, <1>3 DEF ServersInv, Rooted
<1>9. Remembered'
  BY <1>1, <1>3 DEF ServersInv, Remembered, Unsettled
<1> QED BY <1>5, <1>6, <1>7, <1>8, <1>9 DEF ServersInv

\* Steps that leave the registry, and what is freed next, alone.
LEMMA TableStays ==
    ASSUME ServersInv, UNCHANGED <<registry, gens, owned, freed>>, request'.stale = request.stale
    PROVE  Linked'
BY DEF ServersInv, Linked, Servers!FullName

LEMMA RemovalEnds == ServersInv /\ Servers!Removed => ServersInv'
<1> SUFFICES ASSUME ServersInv, Servers!Removed PROVE ServersInv'
  OBVIOUS
<1>1. /\ request.at = "unregister" /\ request.left = {} /\ request.stale = 0
      /\ request' = [request EXCEPT !.at = "save"]
      /\ UNCHANGED <<conns, registry, gens, owned, freed, mcpFile, wanted, deletedServers>>
  BY DEF Servers!Removed, Servers!table, Servers!history
<1>2. request \in Request /\ request.op = "delete"
  BY <1>1 DEF ServersInv, ServerTypes, RequestFits
<1>3. /\ request' \in Request /\ request'.op = "delete" /\ request'.at = "save"
      /\ request'.stale = 0
  BY <1>1, <1>2 DEF Request, Points
<1>4. ServerTypes'
  BY <1>1, <1>3 DEF ServersInv, ServerTypes
<1>5. RequestFits'
  BY <1>3 DEF RequestFits
<1>6. Linked'
  BY <1>1, <1>3, TableStays
<1>7. Rooted'
  BY <1>1 DEF ServersInv, Rooted
<1>8. Remembered'
  BY <1>1, <1>2, <1>3 DEF ServersInv, Remembered, Unsettled
<1> QED BY <1>4, <1>5, <1>6, <1>7, <1>8 DEF ServersInv

LEMMA SyncBegins == ServersInv /\ Servers!BeginSync => ServersInv'
<1> SUFFICES ASSUME ServersInv, Servers!BeginSync PROVE ServersInv'
  OBVIOUS
<1>1. /\ request.at = "sync" /\ request' = [request EXCEPT !.at = "discover"]
      /\ UNCHANGED <<conns, registry, gens, owned, freed, mcpFile, wanted, deletedServers>>
  BY DEF Servers!BeginSync, Servers!table, Servers!history
<1>2. request \in Request
  BY DEF ServersInv, ServerTypes
<1>3. /\ request' \in Request /\ request'.op = request.op /\ request'.at = "discover"
      /\ request'.stale = request.stale /\ request'.todo = request.todo
  BY <1>1, <1>2 DEF Request, Points
<1>4. ServerTypes'
  BY <1>1, <1>3 DEF ServersInv, ServerTypes
<1>5. RequestFits'
  BY <1>1, <1>3 DEF ServersInv, RequestFits
<1>6. Linked'
  BY <1>1, <1>3, TableStays
<1>7. Rooted'
  BY <1>1 DEF ServersInv, Rooted
<1>8. Remembered'
  BY <1>1, <1>3 DEF ServersInv, Remembered, Unsettled
<1> QED BY <1>4, <1>5, <1>6, <1>7, <1>8 DEF ServersInv

\* What is left of a list of names is of the same names.
LEMMA RestOfNames ==
    ASSUME NEW names \in Seq(Names), names # <<>>, NEW S,
           \A i \in DOMAIN names : names[i] \in S
    PROVE  /\ Tail(names) \in Seq(Names) /\ Head(names) \in S \cap Names
           /\ \A i \in DOMAIN Tail(names) : Tail(names)[i] \in S
<1>1. Len(names) \in Nat /\ Len(names) > 0 /\ DOMAIN names = 1 .. Len(names)
  OBVIOUS
<1>2. Tail(names) \in Seq(Names) /\ DOMAIN Tail(names) = 1 .. Len(names) - 1
  BY <1>1
<1>3. Head(names) = names[1] /\ 1 \in DOMAIN names /\ names[1] \in Names
  BY <1>1
<1>4. \A i \in 1 .. Len(names) - 1 : Tail(names)[i] = names[i + 1] /\ i + 1 \in DOMAIN names
  BY <1>1
<1> QED BY <1>2, <1>3, <1>4

LEMMA ServerIsAsked == ServersInv /\ Servers!Discover => ServersInv'
<1> SUFFICES ASSUME ServersInv, Servers!Discover PROVE ServersInv'
  OBVIOUS
<1> DEFINE n == Head(request.todo)
           i == Servers!FindConn(n)
<1>1. /\ request.at = "discover" /\ request.todo # <<>>
      /\ UNCHANGED <<registry, gens, owned, freed, mcpFile, wanted, deletedServers>>
  BY DEF Servers!Discover, Servers!table, Servers!history
<1>2. \/ request' = [request EXCEPT !.todo = Tail(@)] /\ UNCHANGED conns
      \/ \E offers \in IF conns[i].listed = {} THEN (SUBSET Offers) \ {{}}
                        ELSE {conns[i].listed} :
            /\ conns' = [conns EXCEPT ![i].listed = offers]
            /\ request' = [request EXCEPT !.at = "register", !.left = offers, !.name = n]
  BY DEF Servers!Discover
<1>3. /\ request \in Request /\ request.todo \in Seq(Names)
      /\ request.op \in {"add", "sync", "start"}
      /\ \A k \in DOMAIN request.todo : request.todo[k] \in NamesIn(conns)
  BY <1>1 DEF ServersInv, ServerTypes, RequestFits, Request
<1>4. /\ Tail(request.todo) \in Seq(Names) /\ n \in NamesIn(conns) /\ n \in Names
      /\ \A k \in DOMAIN Tail(request.todo) : Tail(request.todo)[k] \in NamesIn(conns)
  BY <1>1, <1>3, RestOfNames
<1>5. CASE request' = [request EXCEPT !.todo = Tail(@)] /\ UNCHANGED conns
  <2>1. /\ request' \in Request /\ request'.op = request.op /\ request'.at = "discover"
        /\ request'.stale = request.stale /\ request'.todo = Tail(request.todo)
    BY <1>1, <1>3, <1>4, <1>5 DEF Request
  <2>2. ServerTypes'
    BY <1>1, <1>5, <2>1 DEF ServersInv, ServerTypes
  <2>3. RequestFits'
    BY <1>1, <1>3, <1>4, <1>5, <2>1 DEF ServersInv, RequestFits
  <2>4. Linked'
    BY <1>1, <2>1, TableStays
  <2>5. Rooted'
    BY <1>1, <1>5 DEF ServersInv, Rooted
  <2>6. Remembered'
    BY <1>1, <1>5, <2>1 DEF ServersInv, Remembered, Unsettled
  <2> QED BY <2>2, <2>3, <2>4, <2>5, <2>6 DEF ServersInv
<1>6. CASE \E offers \in IF conns[i].listed = {} THEN (SUBSET Offers) \ {{}}
                         ELSE {conns[i].listed} :
              /\ conns' = [conns EXCEPT ![i].listed = offers]
              /\ request' = [request EXCEPT !.at = "register", !.left = offers, !.name = n]
  <2>1. i \in DOMAIN conns
    BY <1>4, Found
  <2>2. conns \in Seq(Connection) /\ Distinct(conns)
    BY DEF ServersInv, ServerTypes
  <2>3. conns[i].listed \in SUBSET Offers
    <3>1. conns[i] \in Connection
      BY <2>1, <2>2
    <3> QED BY <3>1 DEF Connection
  <2> HIDE DEF n, i
  <2>4. PICK offers \in SUBSET Offers :
           /\ conns' = [conns EXCEPT ![i].listed = offers]
           /\ request' = [request EXCEPT !.at = "register", !.left = offers, !.name = n]
    BY <1>6, <2>3
  <2>5. /\ conns' \in Seq(Connection) /\ Distinct(conns') /\ NamesIn(conns') = NamesIn(conns)
        /\ Servers!Kept(conns') = Servers!Kept(conns)
    BY <2>1, <2>2, <2>4, ListedChanges
  <2>6. /\ request' \in Request /\ request'.op = request.op /\ request'.at = "register"
        /\ request'.stale = request.stale /\ request'.todo = request.todo
        /\ request'.name = n /\ request'.left = offers
    BY <1>1, <1>3, <1>4, <2>4 DEF Request, Points
  <2>7. ServerTypes'
    BY <1>1, <2>5, <2>6 DEF ServersInv, ServerTypes
  <2>8. RequestFits'
    BY <1>1, <1>3, <1>4, <2>5, <2>6 DEF ServersInv, RequestFits
  <2>9. Linked'
    BY <1>1, <2>6, TableStays
  <2>10. Rooted'
    BY <1>1, <2>5 DEF ServersInv, Rooted
  <2>11. Remembered'
    BY <1>1, <2>5, <2>6 DEF ServersInv, Remembered, Unsettled
  <2> QED BY <2>7, <2>8, <2>9, <2>10, <2>11 DEF ServersInv
<1> QED BY <1>2, <1>5, <1>6

\* sync_server
LEMMA ToolIsRegistered == ServersInv /\ Servers!Register => ServersInv'
<1> SUFFICES ASSUME ServersInv, Servers!Register PROVE ServersInv'
  OBVIOUS
<1> DEFINE g == Len(gens) + 1
           slug == Servers!Slug(request.name)
<1>1. PICK t \in request.left :
         /\ gens' = Append(gens, [server |-> request.name, slug |-> slug, tool |-> t])
         /\ registry' = [registry EXCEPT ![<<slug, t>>] = g]
         /\ owned' = owned \cup {g}
         /\ request' = [request EXCEPT !.left = @ \ {t},
                           !.stale = IF registry[<<slug, t>>] \in owned
                                     THEN registry[<<slug, t>>] ELSE 0]
  BY DEF Servers!Register
<1>2. /\ request.at = "register" /\ request.stale = 0
      /\ UNCHANGED <<conns, freed, mcpFile, wanted, deletedServers>>
  BY DEF Servers!Register, Servers!history
<1>3. /\ request \in Request /\ request.name \in NamesIn(conns) /\ request.left \subseteq Offers
      /\ request.todo # <<>>
  BY <1>2 DEF ServersInv, ServerTypes, RequestFits
<1>4. /\ gens \in Seq(Tool) /\ owned \subseteq DOMAIN gens /\ DOMAIN gens = 1 .. Len(gens)
      /\ Len(gens) \in Nat /\ g \in Nat /\ freed \subseteq DOMAIN gens
      /\ registry \in [Servers!FullNames -> Nat] /\ conns \in Seq(Connection)
  BY DEF ServersInv, ServerTypes
<1>5. request.name \in Names
  <2>1. PICK k \in DOMAIN conns : request.name = conns[k].name
    BY <1>3 DEF NamesIn
  <2>2. conns[k] \in Connection
    BY <1>4
  <2> QED BY <2>1, <2>2 DEF Connection
<1> DEFINE f == <<slug, t>>
           Full(h) == <<gens'[h].slug, gens'[h].tool>>
           tool == [server |-> request.name, slug |-> slug, tool |-> t]
<1>6. f \in Servers!FullNames /\ tool \in Tool
  BY <1>3, <1>5 DEF Servers!FullNames, Tool
<1>7. /\ gens' \in Seq(Tool) /\ DOMAIN gens' = DOMAIN gens \cup {g} /\ gens'[g] = tool
      /\ g \notin DOMAIN gens /\ \A h \in DOMAIN gens : gens'[h] = gens[h]
  <2> HIDE DEF tool
  <2>1. gens' = Append(gens, tool)
    BY <1>1 DEF tool
  <2> QED BY <1>4, <1>6, <2>1
<1>8. 0 \notin owned
  BY ToolsAreNamed DEF ServersInv
<1>9. registry[f] # 0 => registry[f] \in owned /\ Servers!FullName(registry[f]) = f
  BY <1>6 DEF ServersInv, Linked
<1>10. /\ request' \in Request /\ request'.op = request.op /\ request'.at = "register"
       /\ request'.left = request.left \ {t} /\ request'.name = request.name
       /\ request'.todo = request.todo /\ request'.stale = registry[f]
  <2>1. registry[f] = IF registry[f] \in owned THEN registry[f] ELSE 0
    BY <1>8, <1>9
  <2>2. registry[f] \in Nat
    BY <1>4, <1>6
  <2> QED BY <1>1, <1>2, <1>3, <2>1, <2>2 DEF Request
<1>11. /\ registry' \in [Servers!FullNames -> Nat] /\ registry'[f] = g
       /\ \A e \in Servers!FullNames : e # f => registry'[e] = registry[e]
  BY <1>1, <1>4, <1>6
<1>12. /\ Full(g) = f
       /\ \A h \in DOMAIN gens : Full(h) = Servers!FullName(h)
  BY <1>7 DEF Servers!FullName
<1> HIDE DEF f, tool, g, slug, Full
<1>13. ServerTypes'
  <2>1. owned' \subseteq DOMAIN gens' /\ freed' \subseteq DOMAIN gens' /\ owned' \cap freed' = {}
    BY <1>1, <1>2, <1>4, <1>7 DEF ServersInv, ServerTypes, g
  <2>2. gens' \in Seq(Tool)
    BY <1>7
  <2> QED BY <1>2, <1>10, <1>11, <2>1, <2>2 DEF ServersInv, ServerTypes
<1>14. RequestFits'
  BY <1>2, <1>3, <1>10 DEF ServersInv, RequestFits
<1>15. Linked'
  <2>1. owned' = owned \cup {g}
    BY <1>1 DEF g
  <2>2. ASSUME NEW e \in Servers!FullNames, registry'[e] # 0
        PROVE  registry'[e] \in owned' /\ Full(registry'[e]) = e
    <3>1. CASE e = f
      BY <1>11, <1>12, <2>1, <3>1
    <3>2. CASE e # f
      <4>1. registry'[e] = registry[e]
        BY <1>11, <3>2
      <4>2. registry[e] \in owned /\ Servers!FullName(registry[e]) = e
        BY <2>2, <4>1 DEF ServersInv, Linked
      <4>3. registry[e] \in DOMAIN gens
        BY <1>4, <4>2
      <4>4. Full(registry[e]) = e
        BY <1>12, <4>2, <4>3
      <4> QED BY <2>1, <4>1, <4>2, <4>4
    <3> QED BY <3>1, <3>2
  <2>3. ASSUME NEW h \in owned'
        PROVE  registry'[Full(h)] = h \/ request'.stale = h
    <3>1. CASE h = g
      BY <1>11, <1>12, <3>1
    <3>2. CASE h # g
      <4>1. h \in owned /\ h \in DOMAIN gens
        BY <1>4, <2>1, <3>2
      <4>2. Full(h) = Servers!FullName(h) /\ Servers!FullName(h) \in Servers!FullNames
        BY <1>12, <4>1, ToolsAreNamed DEF ServersInv
      <4>3. registry[Servers!FullName(h)] = h
        BY <1>2, <1>8, <4>1 DEF ServersInv, Linked
      <4> QED BY <1>10, <1>11, <4>2, <4>3
    <3> QED BY <3>1, <3>2
  <2>4. request'.stale # 0 =>
           /\ request'.stale \in owned'
           /\ registry'[Full(request'.stale)] # request'.stale
    <3> SUFFICES ASSUME registry[f] # 0
                 PROVE  registry[f] \in owned' /\ registry'[Full(registry[f])] # registry[f]
      BY <1>10
    <3>1. registry[f] \in DOMAIN gens
      BY <1>4, <1>9
    <3>2. Full(registry[f]) = f
      BY <1>9, <1>12, <3>1
    <3> QED BY <1>7, <1>9, <1>11, <2>1, <3>1, <3>2
  <2>5. \A e \in Servers!FullNames : registry'[e] # 0 =>
           registry'[e] \in owned' /\ Full(registry'[e]) = e
    BY <2>2
  <2>6. \A h \in owned' : registry'[Full(h)] = h \/ request'.stale = h
    BY <2>3
  <2> QED BY <2>4, <2>5, <2>6 DEF Linked, Servers!FullName, Full
<1>16. Rooted'
  <2> SUFFICES ASSUME NEW e \in Servers!FullNames, registry'[e] # 0
               PROVE  gens'[registry'[e]].server \in NamesIn(conns)
    BY <1>2 DEF Rooted
  <2>1. CASE e = f
    BY <1>3, <1>7, <1>11, <2>1 DEF tool
  <2>2. CASE e # f
    <3>1. registry'[e] = registry[e]
      BY <1>11, <2>2
    <3>2. registry[e] \in DOMAIN gens
      BY <1>4, <3>1 DEF ServersInv, Linked
    <3>3. gens[registry[e]].server \in NamesIn(conns)
      BY <1>2, <3>1 DEF ServersInv, Rooted
    <3> QED BY <1>7, <3>1, <3>2, <3>3
  <2> QED BY <2>1, <2>2
<1>17. Remembered'
  BY <1>2, <1>10 DEF ServersInv, Remembered, Unsettled
<1> QED BY <1>13, <1>14, <1>15, <1>16, <1>17 DEF ServersInv

LEMMA ServerIsDone == ServersInv /\ Servers!Registered => ServersInv'
<1> SUFFICES ASSUME ServersInv, Servers!Registered PROVE ServersInv'
  OBVIOUS
<1>1. /\ request.at = "register" /\ request.stale = 0
      /\ request' = [request EXCEPT !.at = "discover", !.todo = Tail(@)]
      /\ UNCHANGED <<conns, registry, gens, owned, freed, mcpFile, wanted, deletedServers>>
  BY DEF Servers!Registered, Servers!table, Servers!history
<1>2. /\ request \in Request /\ request.todo \in Seq(Names) /\ request.todo # <<>>
      /\ request.op \in {"add", "sync", "start"}
      /\ \A k \in DOMAIN request.todo : request.todo[k] \in NamesIn(conns)
  BY <1>1 DEF ServersInv, ServerTypes, RequestFits, Request
<1>3. /\ Tail(request.todo) \in Seq(Names)
      /\ \A k \in DOMAIN Tail(request.todo) : Tail(request.todo)[k] \in NamesIn(conns)
  BY <1>2, RestOfNames
<1>4. /\ request' \in Request /\ request'.op = request.op /\ request'.at = "discover"
      /\ request'.stale = 0 /\ request'.todo = Tail(request.todo)
  BY <1>1, <1>2, <1>3 DEF Request, Points
<1>5. ServerTypes'
  BY <1>1, <1>4 DEF ServersInv, ServerTypes
<1>6. RequestFits'
  BY <1>1, <1>2, <1>3, <1>4 DEF RequestFits
<1>7. Linked'
  BY <1>1, <1>4, TableStays
<1>8. Rooted'
  BY <1>1 DEF ServersInv, Rooted
<1>9. Remembered'
  BY <1>1, <1>4 DEF ServersInv, Remembered, Unsettled
<1> QED BY <1>5, <1>6, <1>7, <1>8, <1>9 DEF ServersInv

LEMMA SyncEnds == ServersInv /\ Servers!EndSync => ServersInv'
<1> SUFFICES ASSUME ServersInv, Servers!EndSync PROVE ServersInv'
  OBVIOUS
<1>1. /\ request.at = "discover"
      /\ request' = IF request.op = "add" THEN [request EXCEPT !.at = "save"]
                    ELSE Servers!NoRequest
      /\ UNCHANGED <<conns, registry, gens, owned, freed, mcpFile, wanted, deletedServers>>
  BY DEF Servers!EndSync, Servers!table, Servers!history
<1>2. /\ request \in Request /\ request.op \in {"add", "sync", "start"} /\ request.stale = 0
  <2>1. request \in Request
    BY DEF ServersInv, ServerTypes
  <2>2. request.stale \in Nat
    BY <2>1 DEF Request
  <2> QED BY <1>1, <2>1, <2>2 DEF ServersInv, RequestFits
<1>3. CASE request.op = "add"
  <2>1. /\ request' \in Request /\ request'.op = "add" /\ request'.at = "save"
        /\ request'.stale = 0
    BY <1>1, <1>2, <1>3 DEF Request, Points
  <2>2. ServerTypes'
    BY <1>1, <2>1 DEF ServersInv, ServerTypes
  <2>3. RequestFits'
    BY <2>1 DEF RequestFits
  <2>4. Linked'
    BY <1>1, <1>2, <2>1, TableStays
  <2>5. Rooted'
    BY <1>1 DEF ServersInv, Rooted
  <2>6. Remembered'
    BY <1>1, <2>1 DEF ServersInv, Remembered, Unsettled
  <2> QED BY <2>2, <2>3, <2>4, <2>5, <2>6 DEF ServersInv
<1>4. CASE request.op # "add"
  <2>1. request' \in Request /\ RequestFits' /\ Linked' /\ Rooted' /\ ~Unsettled'
    BY <1>1, <1>2, <1>4, RequestIsOver
  <2>2. ServerTypes'
    BY <1>1, <2>1 DEF ServersInv, ServerTypes
  <2>3. Remembered'
    BY <1>1, <1>2, <1>4 DEF ServersInv, Remembered, Unsettled
  <2> QED BY <2>1, <2>2, <2>3 DEF ServersInv
<1> QED BY <1>3, <1>4

\* mcp_manager_persist
LEMMA ListIsSaved == ServersInv /\ Servers!Persist => ServersInv'
<1> SUFFICES ASSUME ServersInv, Servers!Persist PROVE ServersInv'
  OBVIOUS
<1>1. /\ request.at = "save" /\ request' = Servers!NoRequest
      /\ UNCHANGED <<conns, registry, gens, owned, freed>>
  BY DEF Servers!Persist, Servers!table
<1>2. \/ /\ mcpFile' = Servers!Saved(conns) /\ wanted' = Servers!Kept(conns)
         /\ deletedServers' = Names \ (NamesIn(conns) \cup Local)
      \/ /\ mcpFile' = mcpFile /\ wanted' = wanted \cap Servers!Kept(conns)
         /\ deletedServers' = deletedServers \ NamesIn(conns)
      \/ /\ mcpFile' = Servers!TornFile /\ wanted' = {}
         /\ deletedServers' = Names \ (NamesIn(conns) \cup Local)
  BY DEF Servers!Persist, Servers!Known, NamesIn
<1>3. request.stale = 0
  <2>1. request.stale \in Nat
    BY DEF ServersInv, ServerTypes, Request
  <2> QED BY <1>1, <2>1 DEF ServersInv, RequestFits
<1>4. request' \in Request /\ RequestFits' /\ Linked' /\ Rooted' /\ ~Unsettled'
  BY <1>1, <1>3, RequestIsOver
<1>5. conns \in Seq(Connection) /\ Distinct(conns)
  BY DEF ServersInv, ServerTypes
<1> DEFINE new == Servers!Saved(conns).list
<1>6. /\ DOMAIN Servers!Saved(conns) = {"torn", "list"} /\ new \in Seq(Entry)
      /\ Distinct(new) /\ NamesIn(new) = NamesIn(conns)
      /\ Servers!Kept(new) = Servers!Kept(conns)
  <2>1. new = [k \in DOMAIN conns |-> [name |-> conns[k].name, config |-> conns[k].config]]
    BY DEF Servers!Saved
  <2>2. \A k \in 1 .. Len(conns) : conns[k] \in Connection
    BY <1>5
  <2>3. new \in [1 .. Len(conns) -> Entry]
    BY <1>5, <2>1, <2>2 DEF Connection, Entry
  <2>4. new \in Seq(Entry)
    <3> HIDE DEF new
    <3> QED BY <1>5, <2>3
  <2>5. /\ DOMAIN new = DOMAIN conns
        /\ \A k \in DOMAIN new : new[k].name = conns[k].name /\ new[k].config = conns[k].config
    BY <2>1
  <2>6. /\ Servers!Kept(new) = Servers!Kept(conns) /\ NamesIn(new) = NamesIn(conns)
        /\ Distinct(new) <=> Distinct(conns)
    <3> HIDE DEF new
    <3> QED BY <2>5, SameServers, Zenon
  <2>7. DOMAIN Servers!Saved(conns) = {"torn", "list"}
    BY DEF Servers!Saved
  <2> QED BY <1>5, <2>4, <2>6, <2>7
<1> HIDE DEF new
<1>7. ServerTypes' /\ Remembered'
  <2>1. CASE /\ mcpFile' = Servers!Saved(conns) /\ wanted' = Servers!Kept(conns)
             /\ deletedServers' = Names \ (NamesIn(conns) \cup Local)
    <3>1. mcpFile'.list = new
      BY <2>1 DEF new
    <3>2. ServerTypes'
      BY <1>1, <1>4, <1>6, <2>1, <3>1 DEF ServersInv, ServerTypes
    <3>3. Remembered'
      BY <1>1, <1>6, <2>1, <3>1 DEF Remembered
    <3> QED BY <3>2, <3>3
  <2>2. CASE /\ mcpFile' = mcpFile /\ wanted' = wanted \cap Servers!Kept(conns)
             /\ deletedServers' = deletedServers \ NamesIn(conns)
    <3>1. ServerTypes'
      BY <1>1, <1>4, <2>2 DEF ServersInv, ServerTypes
    <3>2. Remembered'
      BY <1>1, <2>2 DEF ServersInv, Remembered
    <3> QED BY <3>1, <3>2
  <2>3. CASE /\ mcpFile' = Servers!TornFile /\ wanted' = {}
             /\ deletedServers' = Names \ (NamesIn(conns) \cup Local)
    <3>1. /\ DOMAIN mcpFile' = {"torn", "list"} /\ mcpFile'.list = <<>>
          /\ NamesIn(mcpFile'.list) = {}
      BY <2>3 DEF Servers!TornFile, NamesIn
    <3>2. ServerTypes'
      BY <1>1, <1>4, <3>1 DEF ServersInv, ServerTypes, Distinct
    <3>3. Remembered'
      BY <1>1, <2>3, <3>1 DEF Remembered
    <3> QED BY <3>2, <3>3
  <2> QED BY <1>2, <2>1, <2>2, <2>3
<1> QED BY <1>4, <1>7 DEF ServersInv

-----------------------------------------------------------------------------
(* Tasks, and restarts *)

\* A step of a task changes at most what is known of the tools of a server.
LEMMA TaskGoes ==
    ASSUME ServersInv, UNCHANGED <<registry, gens, owned, freed, mcpFile, request, wanted,
                                   deletedServers>>,
           \/ UNCHANGED conns
           \/ \E i \in DOMAIN conns : conns' = [conns EXCEPT ![i].listed = {}]
    PROVE  ServersInv'
<1>1. conns \in Seq(Connection) /\ Distinct(conns)
  BY DEF ServersInv, ServerTypes
<1>2. /\ conns' \in Seq(Connection) /\ Distinct(conns') /\ NamesIn(conns') = NamesIn(conns)
      /\ Servers!Kept(conns') = Servers!Kept(conns)
  <2>1. CASE UNCHANGED conns
    BY <1>1, <2>1
  <2>2. CASE \E i \in DOMAIN conns : conns' = [conns EXCEPT ![i].listed = {}]
    <3>1. PICK i \in DOMAIN conns : conns' = [conns EXCEPT ![i].listed = {}]
      BY <2>2
    <3>2. {} \in SUBSET Offers
      OBVIOUS
    <3> QED BY <1>1, <3>1, <3>2, ListedChanges
  <2> QED BY <2>1, <2>2
<1>3. ServerTypes'
  BY <1>2 DEF ServersInv, ServerTypes
<1>4. RequestFits'
  BY <1>2 DEF ServersInv, RequestFits
<1>5. Linked'
  BY TableStays
<1>6. Rooted'
  BY <1>2 DEF ServersInv, Rooted
<1>7. Remembered'
  BY <1>2 DEF ServersInv, Remembered, Unsettled
<1> QED BY <1>3, <1>4, <1>5, <1>6, <1>7 DEF ServersInv

LEMMA TaskStep ==
    ASSUME ServersInv, NEW k \in Tasks,
           \/ \E f \in Servers!FullNames : Servers!Find(k, f)
           \/ \E n \in Names : Servers!ByName(k, n)
           \/ Servers!CopyBinding(k) \/ Servers!Call(k) \/ Servers!EndCall(k)
           \/ Servers!Forget(k)
    PROVE  ServersInv'
<1>1. CASE \E f \in Servers!FullNames : Servers!Find(k, f)
  BY <1>1, TaskGoes DEF Servers!Find, Servers!table, Servers!history
<1>2. CASE \E n \in Names : Servers!ByName(k, n)
  BY <1>2, TaskGoes DEF Servers!ByName, Servers!table, Servers!history
<1>3. CASE Servers!CopyBinding(k)
  BY <1>3, TaskGoes DEF Servers!CopyBinding, Servers!table, Servers!history
<1>4. CASE Servers!Call(k)
  BY <1>4, TaskGoes DEF Servers!Call, Servers!table, Servers!history
<1>5. CASE Servers!EndCall(k)
  BY <1>5, TaskGoes DEF Servers!EndCall, Servers!table, Servers!history
<1>6. CASE Servers!Forget(k)
  BY <1>6, TaskGoes DEF Servers!Forget, Servers!table, Servers!history
<1> QED BY <1>1, <1>2, <1>3, <1>4, <1>5, <1>6

\* mcp_manager_load, mcp_manager_load_local
LEMMA ServersReturn == ServersInv /\ Servers!Restart => ServersInv'
<1> SUFFICES ASSUME ServersInv, Servers!Restart PROVE ServersInv'
  OBVIOUS
<1> DEFINE list == mcpFile'.list
           base == [i \in DOMAIN list |-> Servers!Conn(list[i].name, list[i].config)]
<1>1. /\ conns' \in Servers!WithLocal(base)
      /\ registry' = [f \in Servers!FullNames |-> 0] /\ gens' = <<>>
      /\ owned' = {} /\ freed' = {}
      /\ request' = [Servers!NoRequest EXCEPT !.op = "start", !.at = "sync",
                        !.todo = Servers!NamesOf(conns')]
  BY DEF Servers!Restart
<1>2. \/ UNCHANGED <<mcpFile, wanted, deletedServers>>
      \/ mcpFile' = [torn |-> TRUE, list |-> <<>>] /\ wanted' = {} /\ deletedServers' = {}
  BY DEF Servers!Restart, Servers!TornFile, Servers!history
<1>3. /\ DOMAIN mcpFile' = {"torn", "list"} /\ list \in Seq(Entry) /\ Distinct(list)
      /\ wanted' \subseteq Servers!Kept(list) /\ deletedServers' \cap NamesIn(list) = {}
      /\ deletedServers' \cap Local = {}
  <2>1. CASE UNCHANGED <<mcpFile, wanted, deletedServers>>
    BY <2>1 DEF ServersInv, ServerTypes, Remembered
  <2>2. CASE mcpFile' = [torn |-> TRUE, list |-> <<>>] /\ wanted' = {} /\ deletedServers' = {}
    <3>1. <<>> \in Seq(Entry)
      OBVIOUS
    <3> QED BY <2>2, <3>1 DEF Distinct
  <2> QED BY <1>2, <2>1, <2>2
<1> HIDE DEF list
<1>4. /\ base \in Seq(Connection) /\ Distinct(base) /\ NamesIn(base) = NamesIn(list)
      /\ Servers!Kept(base) = Servers!Kept(list)
  <2>1. \A i \in 1 .. Len(list) : list[i] \in Entry
    BY <1>3
  <2>2. base \in [1 .. Len(list) -> Connection]
    BY <1>3, <2>1 DEF Entry, Connection, Servers!Conn
  <2>3. base \in Seq(Connection)
    <3> HIDE DEF base
    <3> QED BY <1>3, <2>2
  <2>4. /\ DOMAIN base = DOMAIN list
        /\ \A i \in DOMAIN base : base[i].name = list[i].name /\ base[i].config = list[i].config
    BY DEF Servers!Conn
  <2>5. /\ Servers!Kept(base) = Servers!Kept(list) /\ NamesIn(base) = NamesIn(list)
        /\ Distinct(base) <=> Distinct(list)
    <3> HIDE DEF base
    <3> QED BY <2>4, SameServers, Zenon
  <2> QED BY <1>3, <2>3, <2>5
<1> HIDE DEF base
<1>5. /\ conns' \in Seq(Connection) /\ Distinct(conns')
      /\ NamesIn(conns') = NamesIn(base) \cup Local
      /\ Servers!Kept(base) \subseteq Servers!Kept(conns')
  BY <1>1, <1>4, LocalsAreAdded, Zenon
<1>6. /\ Servers!NamesOf(conns') \in Seq(Names)
      /\ \A i \in DOMAIN Servers!NamesOf(conns') :
            Servers!NamesOf(conns')[i] \in NamesIn(conns')
  BY <1>5, NamesAreListed
<1>7. request' = [op |-> "start", name |-> Original, config |-> Default, at |-> "sync",
                  todo |-> Servers!NamesOf(conns'), left |-> {}, stale |-> 0]
  BY <1>1 DEF Servers!NoRequest
<1>8. request' \in Request
  BY <1>6, <1>7, ServersAssumption DEF Request, Ops, Points
<1>9. ServerTypes'
  <2>1. gens' \in Seq(Tool)
    BY <1>1
  <2> QED BY <1>1, <1>3, <1>5, <1>8, <2>1 DEF ServerTypes, list
<1>10. RequestFits'
  BY <1>6, <1>7 DEF RequestFits
<1>11. Linked'
  <2>1. \A f \in Servers!FullNames : registry'[f] = 0
    BY <1>1, Zenon
  <2>2. request'.stale = 0
    BY <1>7
  <2> QED BY <1>1, <2>1, <2>2 DEF Linked
<1>12. Rooted'
  BY <1>1 DEF Rooted
<1>13. Remembered'
  BY <1>3, <1>4, <1>5 DEF Remembered, list
<1> QED BY <1>9, <1>10, <1>11, <1>12, <1>13 DEF ServersInv

LEMMA ServersStep == ServersInv /\ [Servers!Next]_(Servers!serverVars) => ServersInv'
<1> SUFFICES ASSUME ServersInv, [Servers!Next]_(Servers!serverVars) PROVE ServersInv'
  OBVIOUS
<1>1. ASSUME NEW n \in Names, NEW c \in Configs, Servers!Add(n, c) PROVE ServersInv'
  BY <1>1, RequestBegins DEF Servers!Add
<1>2. ASSUME NEW n \in Names, Servers!Delete(n) PROVE ServersInv'
  BY <1>2, RequestBegins, ServersAssumption DEF Servers!Delete
<1>3. CASE Servers!Sync
  BY <1>3, RequestBegins, ServersAssumption DEF Servers!Sync
<1>4. CASE \/ Servers!AddConn \/ Servers!LoadLocal \/ Servers!RemoveConn
           \/ Servers!Unregister \/ Servers!Free \/ Servers!Removed
  BY <1>4, ConnIsAdded, LocalIsLoaded, ConnIsRemoved, ToolIsTakenOut, ToolIsFreed, RemovalEnds
<1>5. CASE \/ Servers!BeginSync \/ Servers!Discover \/ Servers!Register
           \/ Servers!Registered \/ Servers!EndSync \/ Servers!Persist
  BY <1>5, SyncBegins, ServerIsAsked, ToolIsRegistered, ServerIsDone, SyncEnds, ListIsSaved
<1>6. CASE \E k \in Tasks :
              \/ \E f \in Servers!FullNames : Servers!Find(k, f)
              \/ \E n \in Names : Servers!ByName(k, n)
              \/ Servers!CopyBinding(k) \/ Servers!Call(k) \/ Servers!EndCall(k)
              \/ Servers!Forget(k)
  BY <1>6, TaskStep
<1>7. CASE Servers!Restart
  BY <1>7, ServersReturn
<1>8. CASE UNCHANGED Servers!serverVars
  BY <1>8, TaskGoes DEF Servers!serverVars
<1> QED BY <1>1, <1>2, <1>3, <1>4, <1>5, <1>6, <1>7, <1>8 DEF Servers!Next

-----------------------------------------------------------------------------
(* Calls and servers together *)

LEMMA OthersLeaveServers ==
    [Next]_vars => [Mcp!Next]_(Mcp!mcpVars) /\ [Servers!Next]_(Servers!serverVars)
<1>1. [Next]_vars => [Mcp!Next]_(Mcp!mcpVars)
  BY DEF Next, vars, mcpVars, Mcp!mcpVars, Mcp!server, Mcp!session, Mcp!testing, Mcp!numbers
<1>2. [Next]_vars => [Servers!Next]_(Servers!serverVars)
  BY DEF Next, vars, serverVars, Servers!serverVars
<1> QED BY <1>1, <1>2

\* A call returns the answer to its own request, from the process it was written
\* to, and a session is kept for the process that runs (mcp.c); the registry
\* leads to no tool that was freed or whose server is gone, and servers that were
\* saved stay, or stay away, through restarts, unless a later save or a crash in
\* one leaves the file cut off (mcp_conn.c).
THEOREM ServersAnswer == Spec => []McpSafe
<1>1. Init => McpInv /\ ServersInv
  BY McpStarts, ServersStart DEF Init
<1>2. McpInv /\ ServersInv /\ [Next]_vars => McpInv' /\ ServersInv'
  BY OthersLeaveServers, McpStep, ServersStep
<1>3. McpInv /\ ServersInv => McpSafe
  BY McpInvIsEnough, ServersInvIsEnough DEF McpSafe
<1> QED BY <1>1, <1>2, <1>3, PTL DEF Spec
=============================================================================
