--------------------------- MODULE ServingProofs ---------------------------
(***************************************************************************)
(* The connections, the runtime as a whole, the uploaded files and the     *)
(* journal of MCServices keep their promises, for any values of the        *)
(* constants.                                                              *)
(***************************************************************************)
EXTENDS MCServices, Sequences, FiniteSetTheorems, SequenceTheorems, WellFoundedInduction, TLAPS

LEMMA LeastExists ==
    ASSUME NEW S \in SUBSET Nat, S # {} PROVE \E m \in S : \A k \in S : m <= k
<1>1. PICK m \in S : \A k \in S : <<k, m>> \notin OpToRel(<, Nat)
  BY WFMin, NatLessThanWellFounded, Zenon
<1>2. \A k \in S : ~(k < m)
  BY <1>1, Zenon DEF OpToRel
<1> QED BY <1>2

LEMMA LargestExists ==
    ASSUME NEW n \in Nat, NEW S, S # {}, \A k \in S : k \in 0..n
    PROVE  \E m \in S : \A k \in S : k <= m
<1> DEFINE T == {n - k : k \in S}
<1>1. T \in SUBSET Nat /\ T # {}
  <2>1. \A k \in S : n - k \in Nat
    OBVIOUS
  <2> QED BY <2>1
<1> HIDE DEF T
<1>2. PICK d \in T : \A e \in T : d <= e
  BY <1>1, LeastExists
<1>3. PICK m \in S : d = n - m
  BY DEF T
<1>4. \A k \in S : n - m <= n - k
  BY <1>2, <1>3 DEF T
<1> QED BY <1>4

-----------------------------------------------------------------------------
(* Connections *)

ThreadStages == {"none", "reading", "turn", "upgrading", "handling", "answering", "closing",
                 "handed", "over"}
ReaderStages == {"none", "looping", "removing", "freed"}
\* Where the thread of a connection has it in the list.
Listed == {"reading", "turn", "upgrading", "handling", "answering", "closing"}

HttpTypes ==
    /\ stopFlag \in BOOLEAN /\ server \in {"up", "draining", "hub", "freed"} /\ active \in Nat
    /\ connections \in [Http!Places -> Conns \cup {Http!None}]
    /\ place \in [Conns -> Http!Places \cup {0}] /\ thread \in [Conns -> ThreadStages]
    /\ dispatch \in Conns \cup {Http!None}
    /\ reader \in [Conns -> ReaderStages] /\ clients \in SUBSET Conns
    /\ closes \in [Conns -> Nat]

\* The thread knows its place, and the place its thread.
PlacesFit ==
    /\ \A c \in Conns : thread[c] \in Listed =>
          place[c] \in Http!Places /\ connections[place[c]] = c
    /\ \A i \in Http!Places : connections[i] # Http!None =>
          thread[connections[i]] \in Listed /\ place[connections[i]] = i
    /\ \A c \in Conns : thread[c] = "handed" => place[c] \in Http!Places

TurnIsTaken == \A c \in Conns : thread[c] \in {"handling", "answering"} <=> dispatch = c

\* Who may close a socket is its thread, the hub, or nobody any more.
SocketIsOwn ==
    /\ \A c \in Conns : thread[c] \in Listed \cup {"none"} =>
          closes[c] = 0 /\ reader[c] = "none"
    /\ \A c \in clients : reader[c] \in {"looping", "removing"}
    /\ server \in {"up", "draining"} => \A c \in Conns :
          closes[c] <= (IF reader[c] = "looping" THEN 0 ELSE 1)

ThreadsAreCounted ==
    /\ active = Cardinality(Http!Threads) /\ active <= MaxConn
    /\ server \in {"hub", "freed"} => Http!Threads = {}

HttpInv == HttpTypes /\ PlacesFit /\ TurnIsTaken /\ SocketIsOwn /\ ThreadsAreCounted

LEMMA HttpCounts == ASSUME NEW S PROVE Http!Cardinality(S) = Cardinality(S)
BY DEF Http!Cardinality, Cardinality

LEMMA ThreadsAreFinite == IsFiniteSet(Http!Threads) /\ Cardinality(Http!Threads) \in Nat
<1>1. Http!Threads \subseteq Conns
  BY DEF Http!Threads
<1> QED BY <1>1, HttpAssumption, FS_Subset, FS_CardinalityType

LEMMA HttpInvIsEnough ==
    HttpInv => Http!StopListFits /\ Http!HandlersTakeTurns /\ Http!FreedWhenQuiet
<1> SUFFICES ASSUME HttpInv
             PROVE  Http!StopListFits /\ Http!HandlersTakeTurns /\ Http!FreedWhenQuiet
  OBVIOUS
<1>1. Http!StopListFits
  <2>1. ASSUME NEW c \in Conns, c \in Http!Threads, thread[c] # "handed" PROVE Http!InList(c)
    <3>1. thread[c] \in Listed
      BY <2>1 DEF HttpInv, HttpTypes, Http!Threads, ThreadStages, Listed
    <3> QED BY <3>1 DEF HttpInv, PlacesFit, Http!InList
  <2>2. ASSUME NEW c \in Conns, Http!InList(c) PROVE closes[c] = 0 /\ c \notin clients
    <3>1. thread[c] \in Listed
      BY <2>2, HttpAssumption DEF Http!InList, HttpInv, PlacesFit
    <3> QED BY <3>1 DEF HttpInv, SocketIsOwn
  <2> QED BY <2>1, <2>2 DEF Http!StopListFits
<1>2. Http!HandlersTakeTurns
  <2> DEFINE H == {c \in Conns : thread[c] = "handling"}
  <2>1. H \subseteq {dispatch}
    BY DEF HttpInv, TurnIsTaken
  <2>2. Cardinality(H) <= 1
    <3>1. IsFiniteSet({dispatch}) /\ Cardinality({dispatch}) = 1
      BY FS_Singleton
    <3> HIDE DEF H
    <3> QED BY <2>1, <3>1, FS_Subset
  <2> QED BY <2>2, HttpCounts DEF HttpInv, ThreadsAreCounted, Http!HandlersTakeTurns
<1>3. Http!FreedWhenQuiet
  <2>1. ASSUME NEW c \in Conns, server \in {"up", "draining"} PROVE closes[c] <= 1
    BY <2>1 DEF HttpInv, HttpTypes, SocketIsOwn
  <2> QED BY <2>1 DEF HttpInv, ThreadsAreCounted, Http!FreedWhenQuiet
<1> QED BY <1>1, <1>2, <1>3

LEMMA HttpStarts == Http!Init => HttpInv
<1> SUFFICES ASSUME Http!Init PROVE HttpInv
  OBVIOUS
<1>1. HttpTypes
  BY DEF Http!Init, HttpTypes, ThreadStages, ReaderStages
<1>2. PlacesFit
  BY DEF Http!Init, PlacesFit, Listed
<1>3. TurnIsTaken
  BY HttpAssumption DEF Http!Init, TurnIsTaken
<1>4. SocketIsOwn
  BY DEF Http!Init, SocketIsOwn
<1>5. ThreadsAreCounted
  <2>1. Http!Threads = {}
    BY DEF Http!Init, Http!Threads
  <2> QED BY <2>1, FS_EmptySet, HttpAssumption DEF Http!Init, ThreadsAreCounted
<1> QED BY <1>1, <1>2, <1>3, <1>4, <1>5 DEF HttpInv

\* A thread that neither begins nor ends leaves the count alone.
LEMMA ThreadGoes ==
    ASSUME HttpInv, NEW c \in Conns, NEW to, thread' = [thread EXCEPT ![c] = to],
           thread[c] \in {"none", "over"} <=> to \in {"none", "over"},
           UNCHANGED <<server, active>>
    PROVE  ThreadsAreCounted'
<1>1. Http!Threads' = Http!Threads
  BY DEF HttpInv, HttpTypes, Http!Threads
<1> QED BY <1>1 DEF HttpInv, ThreadsAreCounted

\* A thread goes on, with its connection in the list.
LEMMA ListedStep ==
    ASSUME HttpInv, NEW c \in Conns, NEW to \in Listed, thread[c] \in Listed,
           thread' = [thread EXCEPT ![c] = to],
           dispatch' \in Conns \cup {Http!None}, TurnIsTaken',
           UNCHANGED <<stopFlag, server, active, connections, place, reader, clients, closes>>
    PROVE  HttpInv'
<1>1. /\ thread \in [Conns -> ThreadStages] /\ Listed \subseteq ThreadStages
      /\ thread' \in [Conns -> ThreadStages]
      /\ \A d \in Conns : thread'[d] = IF d = c THEN to ELSE thread[d]
  BY DEF HttpInv, HttpTypes, ThreadStages, Listed
<1>2. HttpTypes'
  BY <1>1 DEF HttpInv, HttpTypes
<1>3. PlacesFit'
  BY <1>1 DEF HttpInv, PlacesFit, HttpTypes, Listed
<1>4. SocketIsOwn'
  BY <1>1 DEF HttpInv, SocketIsOwn
<1>5. ThreadsAreCounted'
  BY ThreadGoes DEF Listed
<1> QED BY <1>2, <1>3, <1>4, <1>5 DEF HttpInv

LEMMA RequestGoes ==
    ASSUME HttpInv, NEW c \in Conns,
           \/ Http!Read(c) \/ Http!Turn(c) \/ Http!Handled(c) \/ Http!Answer(c)
           \/ Http!Concurrent(c) \/ (Http!Upgrade(c) /\ stopFlag)
    PROVE  HttpInv'
<1>1. /\ thread \in [Conns -> ThreadStages] /\ dispatch \in Conns \cup {Http!None}
      /\ \A d \in Conns : thread[d] \in {"handling", "answering"} <=> dispatch = d
  BY DEF HttpInv, HttpTypes, TurnIsTaken
<1>2. CASE Http!Read(c)
  <2>1. PICK to \in {"turn", "upgrading", "closing"} : thread' = [thread EXCEPT ![c] = to]
    BY <1>2 DEF Http!Read, Http!Go
  <2>2. /\ thread[c] = "reading"
        /\ UNCHANGED <<stopFlag, server, active, connections, place, dispatch, reader, clients, closes>>
    BY <1>2 DEF Http!Read, Http!hub
  <2>3. TurnIsTaken'
    BY <1>1, <2>1, <2>2 DEF TurnIsTaken
  <2> QED BY <1>1, <2>1, <2>2, <2>3, ListedStep DEF Listed
<1>3. CASE Http!Turn(c)
  <2>1. PICK to \in {"answering", "handling"} : thread' = [thread EXCEPT ![c] = to]
    BY <1>3 DEF Http!Turn, Http!Go
  <2>2. /\ thread[c] = "turn" /\ dispatch = Http!None /\ dispatch' = c
        /\ UNCHANGED <<stopFlag, server, active, connections, place, reader, clients, closes>>
    BY <1>3 DEF Http!Turn, Http!hub
  <2>3. TurnIsTaken'
    BY <1>1, <2>1, <2>2, HttpAssumption DEF TurnIsTaken
  <2> QED BY <1>1, <2>1, <2>2, <2>3, ListedStep DEF Listed
<1>4. CASE Http!Handled(c)
  <2>1. /\ thread[c] = "handling" /\ thread' = [thread EXCEPT ![c] = "answering"]
        /\ UNCHANGED <<stopFlag, server, active, connections, place, dispatch, reader, clients, closes>>
    BY <1>4 DEF Http!Handled, Http!Go, Http!hub
  <2>2. TurnIsTaken'
    BY <1>1, <2>1 DEF TurnIsTaken
  <2> QED BY <1>1, <2>1, <2>2, ListedStep DEF Listed
<1>5. CASE Http!Answer(c)
  <2>1. /\ thread[c] = "answering" /\ thread' = [thread EXCEPT ![c] = "closing"]
        /\ dispatch' = Http!None
        /\ UNCHANGED <<stopFlag, server, active, connections, place, reader, clients, closes>>
    BY <1>5 DEF Http!Answer, Http!Go, Http!hub
  <2>2. TurnIsTaken'
    BY <1>1, <2>1, HttpAssumption DEF TurnIsTaken
  <2> QED BY <1>1, <2>1, <2>2, ListedStep DEF Listed
<1>6. CASE Http!Concurrent(c) \/ (Http!Upgrade(c) /\ stopFlag)
  <2>1. /\ thread[c] \in {"turn", "upgrading"} /\ thread' = [thread EXCEPT ![c] = "closing"]
        /\ UNCHANGED <<stopFlag, server, active, connections, place, dispatch, reader, clients, closes>>
    BY <1>6 DEF Http!Concurrent, Http!Upgrade, Http!Go, Http!hub
  <2>2. TurnIsTaken'
    BY <1>1, <2>1 DEF TurnIsTaken
  <2> QED BY <1>1, <2>1, <2>2, ListedStep DEF Listed
<1> QED BY <1>2, <1>3, <1>4, <1>5, <1>6

\* http_server_serve
LEMMA ConnectionBegins ==
    ASSUME HttpInv, NEW c \in Conns, Http!Accept(c) PROVE HttpInv'
<1> DEFINE i == CHOOSE p \in Http!OpenPlaces : \A j \in Http!OpenPlaces : p <= j
<1>1. /\ server = "up" /\ thread[c] = "none" /\ Http!OpenPlaces # {} /\ active < MaxConn
      /\ connections' = [connections EXCEPT ![i] = c] /\ place' = [place EXCEPT ![c] = i]
      /\ active' = active + 1 /\ thread' = [thread EXCEPT ![c] = "reading"]
      /\ UNCHANGED <<stopFlag, server, dispatch, reader, clients, closes>>
  BY DEF Http!Accept, Http!Go, Http!hub
<1>2. i \in Http!OpenPlaces
  <2>1. Http!OpenPlaces \in SUBSET Nat
    BY HttpAssumption DEF Http!OpenPlaces, Http!Places
  <2>2. \E p \in Http!OpenPlaces : \A j \in Http!OpenPlaces : p <= j
    BY <1>1, <2>1, LeastExists
  <2> QED BY <2>2
<1> HIDE DEF i
<1>3. i \in Http!Places /\ connections[i] = Http!None
  BY <1>2 DEF Http!OpenPlaces
<1>4. HttpTypes'
  BY <1>1, <1>3 DEF HttpInv, HttpTypes, ThreadStages
<1>5. /\ \A d \in Conns : /\ thread'[d] = IF d = c THEN "reading" ELSE thread[d]
                          /\ place'[d] = IF d = c THEN i ELSE place[d]
      /\ \A p \in Http!Places : connections'[p] = IF p = i THEN c ELSE connections[p]
  BY <1>1, <1>3 DEF HttpInv, HttpTypes
<1>6. PlacesFit'
  <2>1. ASSUME NEW d \in Conns, thread'[d] \in Listed
        PROVE  place'[d] \in Http!Places /\ connections'[place'[d]] = d
    <3>1. CASE d = c
      BY <1>3, <1>5, <3>1
    <3>2. CASE d # c
      <4>1. place[d] \in Http!Places /\ connections[place[d]] = d
        BY <1>5, <2>1, <3>2 DEF HttpInv, PlacesFit
      <4>2. place[d] # i
        BY <1>3, <4>1, HttpAssumption
      <4> QED BY <1>5, <3>2, <4>1, <4>2
    <3> QED BY <3>1, <3>2
  <2>2. ASSUME NEW p \in Http!Places, connections'[p] # Http!None
        PROVE  thread'[connections'[p]] \in Listed /\ place'[connections'[p]] = p
    <3>1. CASE p = i
      BY <1>5, <3>1 DEF Listed
    <3>2. CASE p # i
      <4>1. connections'[p] = connections[p] /\ connections[p] \in Conns
        BY <1>5, <2>2, <3>2 DEF HttpInv, HttpTypes
      <4>2. thread[connections[p]] \in Listed /\ place[connections[p]] = p
        BY <2>2, <4>1 DEF HttpInv, PlacesFit
      <4>3. connections[p] # c
        BY <1>1, <4>2 DEF Listed
      <4> QED BY <1>5, <4>1, <4>2, <4>3
    <3> QED BY <3>1, <3>2
  <2>3. \A d \in Conns : thread'[d] = "handed" => place'[d] \in Http!Places
    BY <1>3, <1>5 DEF HttpInv, PlacesFit
  <2> QED BY <2>1, <2>2, <2>3 DEF PlacesFit
<1>7. TurnIsTaken'
  BY <1>1, <1>5 DEF HttpInv, TurnIsTaken
<1>8. SocketIsOwn'
  BY <1>1, <1>5 DEF HttpInv, SocketIsOwn
<1>9. ThreadsAreCounted'
  <2>1. Http!Threads' = Http!Threads \cup {c} /\ c \notin Http!Threads
    BY <1>1, <1>5 DEF Http!Threads
  <2>2. Cardinality(Http!Threads') = Cardinality(Http!Threads) + 1
    BY <2>1, ThreadsAreFinite, FS_AddElement
  <2> QED BY <1>1, <2>2, HttpAssumption DEF HttpInv, HttpTypes, ThreadsAreCounted
<1> QED BY <1>4, <1>6, <1>7, <1>8, <1>9 DEF HttpInv

LEMMA ConnectionIsRefused ==
    ASSUME HttpInv, NEW c \in Conns, Http!TurnAway(c) PROVE HttpInv'
<1>1. /\ server = "up" /\ thread[c] = "none" /\ thread' = [thread EXCEPT ![c] = "over"]
      /\ closes' = [closes EXCEPT ![c] = @ + 1]
      /\ UNCHANGED <<stopFlag, server, active, connections, place, dispatch, reader, clients>>
  BY DEF Http!TurnAway, Http!Go, Http!Close, Http!hub
<1>2. HttpTypes'
  BY <1>1 DEF HttpInv, HttpTypes, ThreadStages
<1>3. \A d \in Conns : /\ thread'[d] = IF d = c THEN "over" ELSE thread[d]
                       /\ closes'[d] = IF d = c THEN closes[d] + 1 ELSE closes[d]
  BY <1>1 DEF HttpInv, HttpTypes
<1>4. PlacesFit'
  BY <1>1, <1>3 DEF HttpInv, HttpTypes, PlacesFit, Listed
<1>5. TurnIsTaken'
  BY <1>1, <1>3 DEF HttpInv, TurnIsTaken
<1>6. SocketIsOwn'
  BY <1>1, <1>3 DEF HttpInv, SocketIsOwn, Listed
<1>7. ThreadsAreCounted'
  BY <1>1, ThreadGoes
<1> QED BY <1>2, <1>4, <1>5, <1>6, <1>7 DEF HttpInv

\* ws_server_accept
LEMMA ConnectionIsHanded ==
    ASSUME HttpInv, NEW c \in Conns, Http!Upgrade(c), ~stopFlag PROVE HttpInv'
<1>1. /\ thread[c] = "upgrading" /\ thread' = [thread EXCEPT ![c] = "handed"]
      /\ connections' = [i \in Http!Places |-> IF connections[i] = c THEN Http!None
                                               ELSE connections[i]]
      /\ \/ /\ clients' = clients \cup {c} /\ reader' = [reader EXCEPT ![c] = "looping"]
            /\ UNCHANGED closes
         \/ /\ closes' = [closes EXCEPT ![c] = @ + 1] /\ UNCHANGED <<reader, clients>>
      /\ UNCHANGED <<stopFlag, server, active, place, dispatch>>
  BY DEF Http!Upgrade, Http!Go, Http!Close, Http!Forget, Http!hub
<1>2. closes[c] = 0 /\ reader[c] = "none" /\ place[c] \in Http!Places
  BY <1>1 DEF HttpInv, SocketIsOwn, PlacesFit, Listed
<1>3. HttpTypes'
  BY <1>1 DEF HttpInv, HttpTypes, ThreadStages, ReaderStages
<1>4. \A d \in Conns : thread'[d] = IF d = c THEN "handed" ELSE thread[d]
  BY <1>1 DEF HttpInv, HttpTypes
<1>5. PlacesFit'
  BY <1>1, <1>2, <1>4 DEF HttpInv, HttpTypes, PlacesFit, Listed
<1>6. TurnIsTaken'
  BY <1>1, <1>4 DEF HttpInv, TurnIsTaken
<1>7. SocketIsOwn'
  <2>1. CASE /\ clients' = clients \cup {c} /\ reader' = [reader EXCEPT ![c] = "looping"]
             /\ UNCHANGED closes
    <3>1. \A d \in Conns : reader'[d] = IF d = c THEN "looping" ELSE reader[d]
      BY <2>1 DEF HttpInv, HttpTypes
    <3> QED BY <1>1, <1>2, <1>4, <2>1, <3>1 DEF HttpInv, HttpTypes, SocketIsOwn, Listed
  <2>2. CASE closes' = [closes EXCEPT ![c] = @ + 1] /\ UNCHANGED <<reader, clients>>
    <3>1. \A d \in Conns : closes'[d] = IF d = c THEN closes[d] + 1 ELSE closes[d]
      BY <2>2 DEF HttpInv, HttpTypes
    <3> QED BY <1>1, <1>2, <1>4, <2>2, <3>1 DEF HttpInv, HttpTypes, SocketIsOwn, Listed
  <2> QED BY <1>1, <2>1, <2>2
<1>8. ThreadsAreCounted'
  BY <1>1, ThreadGoes
<1> QED BY <1>3, <1>5, <1>6, <1>7, <1>8 DEF HttpInv

\* The end of connection_main: a place that was given on is left to its thread.
LEMMA ConnectionEnds ==
    ASSUME HttpInv, NEW c \in Conns, Http!End(c) PROVE HttpInv'
<1>1. /\ thread[c] \in {"closing", "handed"} /\ connections' = Http!Leave(c)
      /\ active' = active - 1 /\ thread' = [thread EXCEPT ![c] = "over"]
      /\ closes' = IF thread[c] = "closing" THEN [closes EXCEPT ![c] = @ + 1] ELSE closes
      /\ UNCHANGED <<stopFlag, server, place, dispatch, reader, clients>>
  BY DEF Http!End, Http!Go, Http!Close, Http!hub
<1>2. place[c] \in Http!Places /\ (thread[c] = "closing" => connections[place[c]] = c)
  BY <1>1 DEF HttpInv, PlacesFit, Listed
<1>3. connections' \in [Http!Places -> Conns \cup {Http!None}]
  BY <1>1, <1>2 DEF HttpInv, HttpTypes, Http!Leave
<1>4. \A i \in Http!Places : connections'[i] = IF connections[i] = c THEN Http!None
                                               ELSE connections[i]
  <2>1. \A i \in Http!Places : connections[i] = c => thread[c] \in Listed /\ place[c] = i
    BY HttpAssumption DEF HttpInv, PlacesFit
  <2> QED BY <1>1, <1>2, <2>1 DEF HttpInv, HttpTypes, Http!Leave
<1>5. /\ \A d \in Conns : thread'[d] = IF d = c THEN "over" ELSE thread[d]
      /\ closes' \in [Conns -> Nat]
      /\ \A d \in Conns : d # c => closes'[d] = closes[d]
      /\ closes'[c] = IF thread[c] = "closing" THEN closes[c] + 1 ELSE closes[c]
  BY <1>1 DEF HttpInv, HttpTypes
<1>6. c \in Http!Threads
  BY <1>1 DEF Http!Threads
<1>7. /\ Http!Threads' = Http!Threads \ {c}
      /\ Cardinality(Http!Threads') = Cardinality(Http!Threads) - 1
  <2>1. Http!Threads' = Http!Threads \ {c}
    BY <1>5 DEF Http!Threads
  <2> QED BY <1>6, <2>1, ThreadsAreFinite, FS_RemoveElement
<1>8. active \in Nat /\ active >= 1
  <2>1. Cardinality(Http!Threads) # 0
    BY <1>6, ThreadsAreFinite, FS_EmptySet
  <2> QED BY <2>1 DEF HttpInv, HttpTypes, ThreadsAreCounted
<1>9. HttpTypes'
  BY <1>1, <1>3, <1>5, <1>8 DEF HttpInv, HttpTypes, ThreadStages
<1>10. PlacesFit'
  BY <1>1, <1>4, <1>5 DEF HttpInv, HttpTypes, PlacesFit, Listed
<1>11. TurnIsTaken'
  BY <1>1, <1>5 DEF HttpInv, TurnIsTaken
<1>12. SocketIsOwn'
  <2>1. thread[c] = "closing" => closes[c] = 0 /\ reader[c] = "none"
    BY DEF HttpInv, SocketIsOwn, Listed
  <2>2. \A d \in Conns : thread'[d] \in Listed \cup {"none"} =>
           d # c /\ thread[d] \in Listed \cup {"none"}
    BY <1>5 DEF Listed
  <2>3. \A d \in Conns : thread'[d] \in Listed \cup {"none"} => closes'[d] = 0 /\ reader'[d] = "none"
    BY <1>1, <1>5, <2>2 DEF HttpInv, SocketIsOwn
  <2>4. ASSUME server' \in {"up", "draining"}, NEW d \in Conns
        PROVE  closes'[d] <= (IF reader'[d] = "looping" THEN 0 ELSE 1)
    <3>1. closes[d] <= (IF reader[d] = "looping" THEN 0 ELSE 1)
      BY <1>1, <2>4 DEF HttpInv, SocketIsOwn
    <3> QED BY <1>1, <1>5, <2>1, <3>1
  <2> QED BY <1>1, <2>3, <2>4 DEF HttpInv, SocketIsOwn
<1>13. ThreadsAreCounted'
  BY <1>1, <1>7, <1>8, HttpAssumption DEF HttpInv, ThreadsAreCounted
<1> QED BY <1>9, <1>10, <1>11, <1>12, <1>13 DEF HttpInv

LEMMA ReaderGoes ==
    ASSUME HttpInv, NEW c \in Conns, Http!ReaderLeaves(c) \/ Http!ReaderRemoves(c)
    PROVE  HttpInv'
<1>1. UNCHANGED <<stopFlag, server, active, connections, place, thread, dispatch>>
  BY DEF Http!ReaderLeaves, Http!ReaderRemoves
<1>2. PlacesFit' /\ TurnIsTaken'
  BY <1>1 DEF HttpInv, PlacesFit, TurnIsTaken
<1>3. ThreadsAreCounted'
  <2>1. Http!Threads' = Http!Threads
    BY <1>1 DEF Http!Threads
  <2> QED BY <1>1, <2>1 DEF HttpInv, ThreadsAreCounted
<1>4. CASE Http!ReaderLeaves(c)
  <2>1. /\ reader[c] = "looping" /\ reader' = [reader EXCEPT ![c] = "removing"]
        /\ closes' = [closes EXCEPT ![c] = @ + 1] /\ UNCHANGED clients
    BY <1>4 DEF Http!ReaderLeaves, Http!Close
  <2>2. HttpTypes'
    BY <1>1, <2>1 DEF HttpInv, HttpTypes, ReaderStages
  <2>3. \A d \in Conns : /\ reader'[d] = IF d = c THEN "removing" ELSE reader[d]
                         /\ closes'[d] = IF d = c THEN closes[d] + 1 ELSE closes[d]
    BY <2>1 DEF HttpInv, HttpTypes
  <2>4. SocketIsOwn'
    BY <1>1, <2>1, <2>3 DEF HttpInv, HttpTypes, SocketIsOwn
  <2> QED BY <1>2, <1>3, <2>2, <2>4 DEF HttpInv
<1>5. CASE Http!ReaderRemoves(c)
  <2>1. /\ reader[c] = "removing" /\ reader' = [reader EXCEPT ![c] = "freed"]
        /\ clients' = clients \ {c} /\ UNCHANGED closes
    BY <1>5 DEF Http!ReaderRemoves
  <2>2. HttpTypes'
    BY <1>1, <2>1 DEF HttpInv, HttpTypes, ReaderStages
  <2>3. \A d \in Conns : reader'[d] = IF d = c THEN "freed" ELSE reader[d]
    BY <2>1 DEF HttpInv, HttpTypes
  <2>4. SocketIsOwn'
    BY <1>1, <2>1, <2>3 DEF HttpInv, HttpTypes, SocketIsOwn
  <2> QED BY <1>2, <1>3, <2>2, <2>4 DEF HttpInv
<1> QED BY <1>4, <1>5

\* http_server_stop, http_server_free
LEMMA ServerStops ==
    ASSUME HttpInv, Http!StopServer \/ Http!FreeBegins \/ Http!FreeHub \/ Http!FreeEnds
    PROVE  HttpInv'
<1>1. UNCHANGED <<active, connections, place, thread, dispatch, reader, clients>>
  BY DEF Http!StopServer, Http!FreeBegins, Http!FreeHub, Http!FreeEnds, Http!hub
<1>2. PlacesFit' /\ TurnIsTaken'
  BY <1>1 DEF HttpInv, PlacesFit, TurnIsTaken
<1>3. Http!Threads' = Http!Threads
  BY <1>1 DEF Http!Threads
<1>4. CASE Http!FreeHub
  <2>1. /\ active = 0 /\ server' = "hub" /\ UNCHANGED stopFlag
        /\ closes' = [c \in Conns |-> IF c \in clients THEN closes[c] + 1 ELSE closes[c]]
    BY <1>4 DEF Http!FreeHub, Http!Drained
  <2>2. HttpTypes'
    BY <1>1, <2>1 DEF HttpInv, HttpTypes
  <2>3. Http!Threads = {}
    BY <2>1, ThreadsAreFinite, FS_EmptySet DEF HttpInv, ThreadsAreCounted
  <2>4. ThreadsAreCounted'
    BY <1>1, <1>3, <2>3 DEF HttpInv, ThreadsAreCounted
  <2>5. SocketIsOwn'
    BY <1>1, <2>1 DEF HttpInv, SocketIsOwn
  <2> QED BY <1>2, <2>2, <2>4, <2>5 DEF HttpInv
<1>5. CASE Http!StopServer \/ Http!FreeBegins \/ Http!FreeEnds
  <2>1. /\ stopFlag' \in BOOLEAN /\ UNCHANGED closes
        /\ \/ server' = server
           \/ server = "up" /\ server' = "draining"
           \/ server = "hub" /\ server' = "freed"
    BY <1>5 DEF Http!StopServer, Http!FreeBegins, Http!FreeEnds, HttpInv, HttpTypes
  <2>2. HttpTypes'
    BY <1>1, <2>1 DEF HttpInv, HttpTypes
  <2>3. ThreadsAreCounted'
    BY <1>1, <1>3, <2>1 DEF HttpInv, ThreadsAreCounted
  <2>4. SocketIsOwn'
    BY <1>1, <2>1 DEF HttpInv, SocketIsOwn
  <2> QED BY <1>2, <2>2, <2>3, <2>4 DEF HttpInv
<1> QED BY <1>4, <1>5

LEMMA HttpStep == HttpInv /\ [Http!Next]_(Http!httpVars) => HttpInv'
<1> SUFFICES ASSUME HttpInv, [Http!Next]_(Http!httpVars) PROVE HttpInv'
  OBVIOUS
<1>1. CASE Http!StopServer \/ Http!FreeBegins \/ Http!FreeHub \/ Http!FreeEnds
  BY <1>1, ServerStops
<1>2. ASSUME NEW c \in Conns,
             \/ Http!Accept(c) \/ Http!TurnAway(c) \/ Http!Read(c) \/ Http!Turn(c)
             \/ Http!Handled(c) \/ Http!Answer(c) \/ Http!Concurrent(c) \/ Http!Upgrade(c)
             \/ Http!End(c) \/ Http!ReaderLeaves(c) \/ Http!ReaderRemoves(c)
      PROVE  HttpInv'
  <2>1. CASE Http!Accept(c) \/ Http!TurnAway(c)
    BY <2>1, ConnectionBegins, ConnectionIsRefused
  <2>2. CASE \/ Http!Read(c) \/ Http!Turn(c) \/ Http!Handled(c) \/ Http!Answer(c)
             \/ Http!Concurrent(c)
    BY <2>2, RequestGoes
  <2>3. CASE Http!Upgrade(c)
    <3>1. CASE stopFlag
      BY <2>3, <3>1, RequestGoes
    <3>2. CASE ~stopFlag
      BY <2>3, <3>2, ConnectionIsHanded
    <3> QED BY <3>1, <3>2
  <2>4. CASE Http!End(c) \/ Http!ReaderLeaves(c) \/ Http!ReaderRemoves(c)
    BY <2>4, ConnectionEnds, ReaderGoes
  <2> QED BY <1>2, <2>1, <2>2, <2>3, <2>4
<1>3. CASE UNCHANGED Http!httpVars
  <2>1. Http!Threads' = Http!Threads
    BY <1>3 DEF Http!httpVars, Http!Threads
  <2> QED BY <1>3, <2>1 DEF Http!httpVars, HttpInv, HttpTypes, PlacesFit, TurnIsTaken,
       SocketIsOwn, ThreadsAreCounted
<1> QED BY <1>1, <1>2, <1>3 DEF Http!Next

-----------------------------------------------------------------------------
(* The runtime as a whole *)

BootParts == {Whole!Boot[k] : k \in 1 .. 8}
Run == [id : Nat, by : {"channel", "cron", "api"}, at : {"queued", "running", "over"},
        lane : Lanes \cup {0}, model : Nat]

WholeTypes ==
    /\ main \in {"booting", "serving", "stopping", "over", "abandoned"} /\ step \in 0 .. 9
    /\ up \subseteq BootParts /\ accepting \in BOOLEAN /\ nextTask \in Nat /\ task \in Seq(Run)
    /\ cron \in {"idle", "submitting"} /\ api \in {"idle", "handling", "switching"}
    /\ model \in Nat /\ destroyed \in SUBSET Nat
    /\ laneModel \in [Lanes -> Nat] /\ laneHolder \in [Lanes -> Nat]
    /\ fresh.model \in Nat /\ fresh.lanes \in SUBSET Lanes /\ DOMAIN fresh = {"model", "lanes"}

\* Parts are started after what they need, and stopped before it.
InOrder ==
    /\ main = "booting" => step < 8 /\ up = {Whole!Boot[k] : k \in 1 .. step}
    /\ main = "serving" => up = BootParts
    /\ main = "stopping" => step < 9 /\ \A k \in 1 .. step : Whole!Shutdown[k] \notin up
    /\ main = "over" => up = {}
    /\ "cron" \in up \/ "http" \in up => "journal" \in up
    /\ "journal" \in up => "scheduler" \in up
    /\ "scheduler" \in up => "lanes" \in up
    /\ "lanes" \in up => {"llm", "im"} \subseteq up

\* Whoever submits or runs keeps its part from being stopped.
InUse ==
    /\ accepting => "scheduler" \in up /\ (main = "stopping" => step <= 1)
    /\ (\E i \in DOMAIN task : ~Whole!Over(task[i])) =>
          "scheduler" \in up /\ (main = "stopping" => step <= 1)
    /\ cron # "idle" => "cron" \in up
    /\ api # "idle" => "http" \in up /\ main \in {"serving", "stopping", "abandoned"}

IdsFollow ==
    /\ "journal" \in up => nextTask >= Recovered
    /\ Whole!IdsAreDurable

\* The lanes have the model there is or, while a handler changes it, the next.
ModelsFit ==
    /\ "llm" \in up => \A d \in destroyed : d < model
    /\ main = "booting" => destroyed = {}
    /\ api = "switching" => fresh.model = model + 1
    /\ "lanes" \in up => \A l \in Lanes :
          laneModel[l] = IF api = "switching" /\ l \notin fresh.lanes THEN model + 1 ELSE model
    /\ \A i \in DOMAIN task : task[i].at = "running" /\ task[i].lane # 0 =>
          /\ task[i].lane \in Lanes /\ laneHolder[task[i].lane] = i
          /\ laneModel[task[i].lane] = task[i].model
    /\ \A i \in DOMAIN task : task[i].at = "queued" => task[i].lane = 0

WholeInv == WholeTypes /\ InOrder /\ InUse /\ IdsFollow /\ ModelsFit

\* What exists after n steps of init.
LEMMA PartsBooted ==
    ASSUME NEW n \in 0 .. 8
    PROVE  LET S == {Whole!Boot[k] : k \in 1 .. n}
           IN  /\ "llm" \in S <=> n >= 1
               /\ "im" \in S <=> n >= 2
               /\ "lanes" \in S <=> n >= 4
               /\ "scheduler" \in S <=> n >= 5
               /\ "journal" \in S <=> n >= 6
               /\ "cron" \in S <=> n >= 7
               /\ "http" \in S <=> n >= 8
BY DEF Whole!Boot

LEMMA StepsAreMany == Len(Whole!Boot) = 8 /\ Len(Whole!Shutdown) = 9
BY DEF Whole!Boot, Whole!Shutdown

\* What runtime_shutdown has stopped before it stops a part.
LEMMA StoppedBefore ==
    ASSUME NEW s \in 0 .. 8
    PROVE  LET part_ == Whole!Shutdown[s + 1]
               S == {Whole!Shutdown[k] : k \in 1 .. s}
           IN  /\ part_ = "cron" <=> s = 0
               /\ part_ = "drain" <=> s = 1
               /\ part_ = "http" <=> s = 2
               /\ part_ = "journal" => {"cron", "http"} \subseteq S
               /\ part_ = "scheduler" => "journal" \in S /\ s > 1
               /\ part_ = "lanes" => "scheduler" \in S
               /\ part_ \in {"llm", "im"} => "lanes" \in S
               /\ s >= 3 => "http" \in S
BY DEF Whole!Shutdown

LEMMA AllAreStopped == \A p \in BootParts : \E k \in 1 .. 9 : p = Whole!Shutdown[k]
BY DEF BootParts, Whole!Boot, Whole!Shutdown

LEMMA WholeInvIsEnough ==
    WholeInv => Whole!UsedIsThere /\ Whole!IdsAreDurable /\ Whole!LaneKeepsItsModel
<1> SUFFICES ASSUME WholeInv
             PROVE  Whole!UsedIsThere /\ Whole!IdsAreDurable /\ Whole!LaneKeepsItsModel
  OBVIOUS
<1>1. Whole!UsedIsThere
  BY DEF WholeInv, InOrder, InUse, Whole!UsedIsThere
<1>2. Whole!IdsAreDurable
  BY DEF WholeInv, IdsFollow
<1>3. Whole!LaneKeepsItsModel
  <2> SUFFICES ASSUME NEW i \in DOMAIN task, task[i].at = "running", task[i].lane # 0
               PROVE  /\ laneHolder[task[i].lane] = i /\ laneModel[task[i].lane] = task[i].model
                      /\ task[i].model \notin destroyed
    BY DEF Whole!LaneKeepsItsModel, Whole!Nobody
  <2>1. /\ task[i].lane \in Lanes /\ laneHolder[task[i].lane] = i
        /\ laneModel[task[i].lane] = task[i].model
    BY DEF WholeInv, ModelsFit
  <2>2. "lanes" \in up /\ "llm" \in up
    BY DEF WholeInv, InOrder, InUse, Whole!Over
  <2>3. model \in Nat /\ destroyed \subseteq Nat /\ \A d \in destroyed : d < model
    BY <2>2 DEF WholeInv, WholeTypes, ModelsFit
  <2>4. task[i].model \in {model, model + 1}
    BY <2>1, <2>2 DEF WholeInv, ModelsFit
  <2> QED BY <2>1, <2>3, <2>4
<1> QED BY <1>1, <1>2, <1>3

LEMMA WholeStarts == Whole!Init => WholeInv
<1> SUFFICES ASSUME Whole!Init PROVE WholeInv
  OBVIOUS
<1>1. <<>> \in Seq(Run)
  OBVIOUS
<1>2. WholeTypes
  <2>1. accepting \in BOOLEAN
    BY DEF Whole!Init
  <2> QED BY <1>1, <2>1 DEF Whole!Init, WholeTypes, Whole!Nil, Whole!Nobody
<1>3. InOrder
  <2>1. {Whole!Boot[k] : k \in 1 .. 0} = {}
    OBVIOUS
  <2> QED BY <2>1 DEF Whole!Init, InOrder
<1>4. InUse /\ IdsFollow
  BY DEF Whole!Init, InUse, IdsFollow, Whole!IdsAreDurable
<1>5. ModelsFit
  BY DEF Whole!Init, ModelsFit
<1> QED BY <1>2, <1>3, <1>4, <1>5 DEF WholeInv

\* init starts a part.
LEMMA PartStarts ==
    ASSUME WholeInv, NEW k \in DOMAIN Whole!Boot, Whole!Start(Whole!Boot[k]) PROVE WholeInv'
<1> DEFINE p == Whole!Boot[k]
<1>1. /\ main = "booting" /\ step < 8 /\ p = Whole!Boot[step + 1]
      /\ step' = step + 1 /\ up' = up \cup {p}
      /\ main' = IF step' = 8 THEN "serving" ELSE main
      /\ model' = IF p = "llm" THEN 1 ELSE model
      /\ laneModel' = IF p = "lanes" THEN [l \in Lanes |-> model] ELSE laneModel
      /\ accepting' = (accepting \/ p = "scheduler")
      /\ nextTask' = IF p = "journal" /\ nextTask < Recovered THEN Recovered ELSE nextTask
      /\ UNCHANGED <<task, poller, cron, api, destroyed, laneHolder, fresh>>
  BY StepsAreMany DEF Whole!Start, Whole!threads
<1>2. /\ step \in 0 .. 7 /\ up = {Whole!Boot[j] : j \in 1 .. step} /\ step \in Nat
      /\ api = "idle" /\ destroyed = {}
  <2>1. main = "booting" /\ step < 8
    BY <1>1
  <2>2. step \in 0 .. 9
    BY DEF WholeInv, WholeTypes
  <2>3. up = {Whole!Boot[j] : j \in 1 .. step}
    BY <2>1 DEF WholeInv, InOrder
  <2>4. api = "idle"
    BY <2>1 DEF WholeInv, InUse
  <2>5. destroyed = {}
    BY <2>1 DEF WholeInv, ModelsFit
  <2> QED BY <2>1, <2>2, <2>3, <2>4, <2>5
<1>3. up' = {Whole!Boot[j] : j \in 1 .. step'} /\ step' \in 1 .. 8
  <2>1. up' = up \cup {Whole!Boot[step + 1]}
    BY <1>1
  <2>2. 1 .. step + 1 = (1 .. step) \cup {step + 1}
    BY <1>2
  <2> QED BY <1>1, <1>2, <2>1, <2>2
<1>4. /\ p = "llm" => step = 0
      /\ p = "lanes" => step = 3
      /\ p = "scheduler" => step = 4
      /\ p = "journal" => step = 5
  BY <1>1, <1>2 DEF Whole!Boot
<1>5. /\ "llm" \in up' <=> step' >= 1
      /\ "im" \in up' <=> step' >= 2
      /\ "lanes" \in up' <=> step' >= 4
      /\ "scheduler" \in up' <=> step' >= 5
      /\ "journal" \in up' <=> step' >= 6
      /\ "cron" \in up' <=> step' >= 7
      /\ "http" \in up' <=> step' >= 8
  BY <1>3, PartsBooted
<1>6. /\ "lanes" \in up <=> step >= 4
      /\ "scheduler" \in up <=> step >= 5
      /\ "journal" \in up <=> step >= 6
  <2>1. step \in 0 .. 8
    BY <1>2
  <2> QED BY <1>2, <2>1, PartsBooted
<1>7. up' \subseteq BootParts
  <2>1. p \in BootParts
    BY <1>1, <1>2 DEF BootParts
  <2> QED BY <1>1, <2>1 DEF WholeInv, WholeTypes
<1> HIDE DEF p
<1>8. WholeTypes'
  <2>1. accepting' \in BOOLEAN
    BY <1>1 DEF WholeInv, WholeTypes
  <2>2. laneModel' \in [Lanes -> Nat] /\ model' \in Nat /\ nextTask' \in Nat
    BY <1>1, WholeAssumption DEF WholeInv, WholeTypes
  <2>3. main' \in {"booting", "serving"} /\ step' \in 0 .. 9
    BY <1>1, <1>3
  <2> QED BY <1>1, <1>7, <2>1, <2>2, <2>3 DEF WholeInv, WholeTypes
<1>9. InOrder'
  <2>1. main' = "booting" => step' < 8
    BY <1>1, <1>3
  <2>2. main' = "serving" => up' = BootParts
    BY <1>1, <1>3 DEF BootParts
  <2>3. main' \in {"booting", "serving"}
    BY <1>1
  <2>4. /\ "cron" \in up' \/ "http" \in up' => "journal" \in up'
        /\ "journal" \in up' => "scheduler" \in up'
        /\ "scheduler" \in up' => "lanes" \in up'
        /\ "lanes" \in up' => {"llm", "im"} \subseteq up'
    BY <1>3, <1>5
  <2> QED BY <1>3, <2>1, <2>2, <2>3, <2>4 DEF InOrder
<1>10. InUse'
  <2>1. accepting' => "scheduler" \in up'
    BY <1>1 DEF WholeInv, InUse
  <2> QED BY <1>1, <2>1 DEF WholeInv, InUse, Whole!Over
<1>11. IdsFollow'
  <2>1. "journal" \in up' => nextTask' >= Recovered
    <3>1. nextTask \in Nat
      BY DEF WholeInv, WholeTypes
    <3>2. CASE p = "journal"
      BY <1>1, <3>1, <3>2, WholeAssumption
    <3>3. CASE p # "journal"
      BY <1>1, <3>3 DEF WholeInv, IdsFollow
    <3> QED BY <3>2, <3>3
  <2> QED BY <1>1, <2>1 DEF WholeInv, IdsFollow, Whole!IdsAreDurable
<1>12. ModelsFit'
  <2>1. "lanes" \in up' => \A l \in Lanes : laneModel'[l] = model'
    <3>1. CASE p = "lanes"
      BY <1>1, <3>1
    <3>2. CASE p # "lanes"
      BY <1>1, <1>2, <1>4, <1>5, <1>6, <3>2 DEF WholeInv, ModelsFit
    <3> QED BY <3>1, <3>2
  <2>2. \A i \in DOMAIN task : task[i].at = "running" /\ task[i].lane # 0 =>
           /\ task[i].lane \in Lanes /\ laneHolder[task[i].lane] = i
           /\ laneModel'[task[i].lane] = task[i].model
    <3> SUFFICES ASSUME NEW i \in DOMAIN task, task[i].at = "running", task[i].lane # 0
                 PROVE  /\ task[i].lane \in Lanes /\ laneHolder[task[i].lane] = i
                        /\ laneModel'[task[i].lane] = task[i].model
      OBVIOUS
    <3>1. "scheduler" \in up
      BY DEF WholeInv, InUse, Whole!Over
    <3>2. p # "lanes"
      BY <1>2, <1>4, <1>6, <3>1
    <3> QED BY <1>1, <3>2 DEF WholeInv, ModelsFit
  <2>3. api' = "idle" /\ destroyed' = {}
    BY <1>1, <1>2
  <2> QED BY <1>1, <2>1, <2>2, <2>3 DEF WholeInv, ModelsFit
<1> QED BY <1>8, <1>9, <1>10, <1>11, <1>12 DEF WholeInv

\* runtime_shutdown stops a part that is quiet.
LEMMA PartStops ==
    ASSUME WholeInv, NEW k \in DOMAIN Whole!Shutdown, Whole!Stop(Whole!Shutdown[k])
    PROVE  WholeInv'
<1> DEFINE p == Whole!Shutdown[k]
<1>1. /\ main = "stopping" /\ step < 9 /\ p = Whole!Shutdown[step + 1] /\ Whole!Quiet(p)
      /\ p = "drain" => ~accepting
      /\ step' = step + 1 /\ up' = up \ {p}
      /\ main' = IF step' = 9 THEN "over" ELSE main
      /\ destroyed' \in {destroyed, destroyed \cup {model}}
      /\ p # "llm" => UNCHANGED destroyed
      /\ UNCHANGED <<accepting, nextTask, task, poller, cron, api, model, laneModel,
                     laneHolder, fresh>>
  BY StepsAreMany DEF Whole!Stop, Whole!threads
<1>2. step \in 0 .. 8 /\ step \in Nat /\ \A j \in 1 .. step : Whole!Shutdown[j] \notin up
  BY <1>1 DEF WholeInv, WholeTypes, InOrder
<1>3. /\ p = "cron" <=> step = 0
      /\ p = "drain" <=> step = 1
      /\ p = "http" <=> step = 2
      /\ p = "journal" => {"cron", "http"} \cap up = {}
      /\ p = "scheduler" => "journal" \notin up /\ step > 1
      /\ p = "lanes" => "scheduler" \notin up
      /\ p \in {"llm", "im"} => "lanes" \notin up
      /\ step >= 3 => "http" \notin up
  <2> DEFINE S == {Whole!Shutdown[j] : j \in 1 .. step}
  <2>1. S \cap up = {}
    BY <1>2
  <2> HIDE DEF S
  <2>2. /\ p = "cron" <=> step = 0
        /\ p = "drain" <=> step = 1
        /\ p = "http" <=> step = 2
        /\ p = "journal" => {"cron", "http"} \subseteq S
        /\ p = "scheduler" => "journal" \in S /\ step > 1
        /\ p = "lanes" => "scheduler" \in S
        /\ p \in {"llm", "im"} => "lanes" \in S
        /\ step >= 3 => "http" \in S
    BY <1>1, <1>2, StoppedBefore DEF S
  <2> QED BY <2>1, <2>2
<1>4. /\ p = "cron" => cron = "idle"
      /\ p = "drain" => Whole!AllOver
      /\ p = "http" => api = "idle"
  BY <1>1 DEF Whole!Quiet
<1> HIDE DEF p
<1>5. WholeTypes'
  BY <1>1, <1>2 DEF WholeInv, WholeTypes
<1>6. InOrder'
  <2>1. \A j \in 1 .. step' : Whole!Shutdown[j] \notin up'
    <3>1. \A j \in 1 .. step + 1 : j \in 1 .. step \/ j = step + 1
      BY <1>2
    <3> QED BY <1>1, <1>2, <3>1
  <2>2. main' = "over" => up' = {}
    <3> SUFFICES ASSUME step' = 9 PROVE up' = {}
      BY <1>1
    <3>1. \A j \in 1 .. 9 : Whole!Shutdown[j] \notin up'
      BY <2>1
    <3>2. up' \subseteq BootParts
      BY <1>1 DEF WholeInv, WholeTypes
    <3> QED BY <3>1, <3>2, AllAreStopped
  <2>3. main' \in {"stopping", "over"} /\ (main' = "stopping" => step' < 9)
    BY <1>1, <1>2
  <2>4. /\ "cron" \in up' \/ "http" \in up' => "journal" \in up'
        /\ "journal" \in up' => "scheduler" \in up'
        /\ "scheduler" \in up' => "lanes" \in up'
        /\ "lanes" \in up' => {"llm", "im"} \subseteq up'
    BY <1>1, <1>3 DEF WholeInv, InOrder
  <2> QED BY <2>1, <2>2, <2>3, <2>4 DEF InOrder
<1>7. InUse'
  <2>1. ASSUME accepting PROVE "scheduler" \in up' /\ step' <= 1
    <3>1. "scheduler" \in up /\ step <= 1
      BY <1>1, <2>1 DEF WholeInv, InUse
    <3>2. step = 0
      BY <1>1, <1>2, <1>3, <2>1, <3>1
    <3> QED BY <1>1, <1>3, <3>1, <3>2
  <2>2. ASSUME NEW i \in DOMAIN task, ~Whole!Over(task[i]) PROVE "scheduler" \in up' /\ step' <= 1
    <3>1. "scheduler" \in up /\ step <= 1
      BY <1>1, <2>2 DEF WholeInv, InUse
    <3>2. step = 0
      BY <1>2, <1>3, <1>4, <2>2, <3>1 DEF Whole!AllOver
    <3> QED BY <1>1, <1>3, <3>1, <3>2
  <2>3. cron # "idle" => "cron" \in up'
    BY <1>1, <1>4 DEF WholeInv, InUse
  <2>4. ASSUME api # "idle" PROVE "http" \in up' /\ main' = "stopping"
    <3>1. "http" \in up
      BY <2>4 DEF WholeInv, InUse
    <3>2. ~(step >= 3)
      BY <1>3, <3>1
    <3> QED BY <1>1, <1>2, <1>4, <2>4, <3>1, <3>2
  <2>5. /\ \A i : Whole!Over(task'[i]) <=> Whole!Over(task[i])
        /\ DOMAIN task' = DOMAIN task
    BY <1>1
  <2> QED BY <1>1, <2>1, <2>2, <2>3, <2>4, <2>5 DEF InUse
<1>8. IdsFollow'
  BY <1>1 DEF WholeInv, IdsFollow, Whole!IdsAreDurable
<1>9. ModelsFit'
  <2>1. "llm" \in up' => \A d \in destroyed' : d < model
    BY <1>1 DEF WholeInv, ModelsFit
  <2>2. main' # "booting"
    BY <1>1
  <2> QED BY <1>1, <2>1, <2>2 DEF WholeInv, ModelsFit
<1> QED BY <1>5, <1>6, <1>7, <1>8, <1>9 DEF WholeInv

LEMMA WholeStops ==
    ASSUME WholeInv, Whole!StopIt \/ Whole!Refuse \/ Whole!Abandon PROVE WholeInv'
<1>1. /\ UNCHANGED <<up, nextTask, task, cron, api, model, destroyed, laneModel, laneHolder,
                     fresh>>
      /\ accepting' \in {accepting, FALSE}
      /\ \/ main' = "stopping" /\ step' = 0
         \/ main' \in {main, "abandoned"} /\ step' = step /\ main = "stopping"
      /\ main \in {"booting", "serving", "stopping"}
  BY DEF Whole!StopIt, Whole!Refuse, Whole!Abandon, Whole!threads, Whole!models
<1>2. WholeTypes'
  <2>1. accepting' \in BOOLEAN
    BY <1>1 DEF WholeInv, WholeTypes
  <2> QED BY <1>1, <2>1 DEF WholeInv, WholeTypes
<1>3. InOrder'
  BY <1>1 DEF WholeInv, InOrder
<1>4. InUse'
  <2>1. accepting' => accepting
    BY <1>1, Zenon
  <2>2. \A i : Whole!Over(task'[i]) <=> Whole!Over(task[i])
    BY <1>1, Zenon
  <2>3. /\ main' = "stopping" => step' = 0 \/ (main = "stopping" /\ step' = step)
        /\ main' \in {main, "stopping", "abandoned"}
    BY <1>1
  <2> QED BY <1>1, <2>1, <2>2, <2>3 DEF WholeInv, InUse
<1>5. IdsFollow'
  BY <1>1 DEF WholeInv, IdsFollow, Whole!IdsAreDurable
<1>6. ModelsFit'
  BY <1>1 DEF WholeInv, ModelsFit
<1> QED BY <1>2, <1>3, <1>4, <1>5, <1>6 DEF WholeInv

\* A thread begins to submit, or has submitted, a task.

\* A thread begins to submit a task, or has submitted it.
LEMMA ThreadSubmits ==
    ASSUME WholeInv, NEW by \in {"channel", "cron", "api"},
           by # "channel" => "journal" \in up,
           Whole!Submit(by) \/ UNCHANGED <<nextTask, task>>,
           cron' \in {"idle", "submitting"}, api' \in {"idle", "handling", "switching"},
           api' = "switching" <=> api = "switching",
           cron' # "idle" => "cron" \in up,
           api' # "idle" => "http" \in up /\ main \in {"serving", "stopping", "abandoned"},
           UNCHANGED <<main, step, up, accepting, model, destroyed, laneModel, laneHolder, fresh>>
    PROVE  WholeInv'
<1>1. task \in Seq(Run) /\ nextTask \in Nat /\ accepting \in BOOLEAN
  BY DEF WholeInv, WholeTypes
<1> DEFINE new == [id |-> nextTask, by |-> by, at |-> "queued", lane |-> 0, model |-> 0]
<1>2. \/ UNCHANGED <<nextTask, task>>
      \/ accepting /\ nextTask' = nextTask + 1 /\ task' = Append(task, new)
  BY DEF Whole!Submit, Whole!Nobody, Whole!Nil
<1>3. CASE accepting /\ nextTask' = nextTask + 1 /\ task' = Append(task, new)
  <2>1. new \in Run
    BY <1>1 DEF Run
  <2>2. new.id = nextTask /\ new.by = by /\ new.at = "queued" /\ new.lane = 0
    OBVIOUS
  <2> HIDE DEF new
  <2>3. /\ task' \in Seq(Run) /\ DOMAIN task \subseteq DOMAIN task'
        /\ \A i \in DOMAIN task' : \/ i \in DOMAIN task /\ task'[i] = task[i]
                                  \/ task'[i] = new
    BY <1>1, <1>3, <2>1
  <2>4. WholeTypes'
    BY <1>1, <1>3, <2>3 DEF WholeInv, WholeTypes
  <2>5. InOrder'
    BY DEF WholeInv, InOrder
  <2>6. InUse'
    BY <1>3 DEF WholeInv, InUse
  <2>7. IdsFollow'
    <3>1. "journal" \in up => nextTask >= Recovered
      BY DEF WholeInv, IdsFollow
    <3>2. \A i \in DOMAIN task' : task'[i].by \in {"cron", "api"} => task'[i].id >= Recovered
      BY <2>2, <2>3, <3>1 DEF WholeInv, IdsFollow, Whole!IdsAreDurable
    <3>3. "journal" \in up' => nextTask' >= Recovered
      BY <1>1, <1>3, <3>1, WholeAssumption
    <3> QED BY <3>2, <3>3 DEF IdsFollow, Whole!IdsAreDurable
  <2>8. ModelsFit'
    BY <2>2, <2>3 DEF WholeInv, ModelsFit
  <2> QED BY <2>4, <2>5, <2>6, <2>7, <2>8 DEF WholeInv
<1>4. CASE UNCHANGED <<nextTask, task>>
  <2>1. WholeTypes'
    BY <1>1, <1>4 DEF WholeInv, WholeTypes
  <2>2. InOrder'
    BY DEF WholeInv, InOrder
  <2>3. InUse'
    BY <1>4 DEF WholeInv, InUse, Whole!Over
  <2>4. IdsFollow'
    BY <1>4 DEF WholeInv, IdsFollow, Whole!IdsAreDurable
  <2>5. ModelsFit'
    BY <1>4 DEF WholeInv, ModelsFit
  <2> QED BY <2>1, <2>2, <2>3, <2>4, <2>5 DEF WholeInv
<1> QED BY <1>2, <1>3, <1>4

LEMMA SubmittersStep ==
    ASSUME WholeInv,
           \/ Whole!Ingest \/ Whole!IngestDispatch \/ Whole!PollerSubmits \/ Whole!Tick
           \/ Whole!CronSubmits \/ Whole!Request \/ Whole!ApiSubmits
    PROVE  WholeInv'
<1>1. /\ cron \in {"idle", "submitting"} /\ api \in {"idle", "handling", "switching"}
      /\ cron # "idle" => "cron" \in up
      /\ api # "idle" => "http" \in up /\ main \in {"serving", "stopping", "abandoned"}
      /\ "cron" \in up \/ "http" \in up => "journal" \in up
      /\ main = "serving" => up = BootParts
  BY DEF WholeInv, WholeTypes, InOrder, InUse
<1>2. UNCHANGED <<main, step, up, accepting, model, destroyed, laneModel, laneHolder, fresh>>
  BY DEF Whole!Ingest, Whole!IngestDispatch, Whole!PollerSubmits, Whole!Tick,
     Whole!CronSubmits, Whole!Request, Whole!ApiSubmits, Whole!models
<1>3. CASE Whole!Ingest \/ Whole!IngestDispatch \/ Whole!PollerSubmits
  <2>1. UNCHANGED <<cron, api>> /\ (Whole!Submit("channel") \/ UNCHANGED <<nextTask, task>>)
    BY <1>3 DEF Whole!Ingest, Whole!IngestDispatch, Whole!PollerSubmits
  <2> QED BY <1>1, <1>2, <2>1, ThreadSubmits
<1>4. CASE Whole!Tick
  <2>1. cron' = "submitting" /\ "cron" \in up /\ UNCHANGED <<api, nextTask, task>>
    BY <1>4 DEF Whole!Tick
  <2> QED BY <1>1, <1>2, <2>1, ThreadSubmits
<1>5. CASE Whole!CronSubmits
  <2>1. cron = "submitting" /\ cron' = "idle" /\ UNCHANGED api /\ Whole!Submit("cron")
    BY <1>5 DEF Whole!CronSubmits
  <2> QED BY <1>1, <1>2, <2>1, ThreadSubmits
<1>6. CASE Whole!Request
  <2>1. api = "idle" /\ main = "serving" /\ api' = "handling" /\ UNCHANGED <<cron, nextTask, task>>
    BY <1>6 DEF Whole!Request
  <2>2. "http" \in BootParts
    BY DEF BootParts, Whole!Boot
  <2> QED BY <1>1, <1>2, <2>1, <2>2, ThreadSubmits
<1>7. CASE Whole!ApiSubmits
  <2>1. api = "handling" /\ api' = "idle" /\ UNCHANGED cron /\ Whole!Submit("api")
    BY <1>7 DEF Whole!ApiSubmits
  <2> QED BY <1>1, <1>2, <2>1, ThreadSubmits
<1> QED BY <1>3, <1>4, <1>5, <1>6, <1>7

\* set_llm
LEMMA ModelChanges ==
    ASSUME WholeInv,
           Whole!SwitchBegins \/ Whole!SwitchEnds \/ (\E l \in Lanes : Whole!SwitchLane(l))
    PROVE  WholeInv'
<1>1. /\ api \in {"handling", "switching"}
      /\ UNCHANGED <<main, step, up, accepting, nextTask, task, cron, laneHolder>>
  BY DEF Whole!SwitchBegins, Whole!SwitchEnds, Whole!SwitchLane, Whole!threads
<1>2. InOrder' /\ IdsFollow'
  BY <1>1 DEF WholeInv, InOrder, IdsFollow, Whole!IdsAreDurable
<1>3. /\ "http" \in up /\ "lanes" \in up /\ "llm" \in up
      /\ main \in {"serving", "stopping", "abandoned"}
  BY <1>1 DEF WholeInv, InOrder, InUse
<1>4. /\ model \in Nat /\ destroyed \subseteq Nat /\ laneModel \in [Lanes -> Nat]
      /\ fresh.lanes \subseteq Lanes /\ \A d \in destroyed : d < model
      /\ DOMAIN fresh = {"model", "lanes"} /\ task \in Seq(Run) /\ fresh.model \in Nat
  BY <1>3 DEF WholeInv, WholeTypes, ModelsFit
<1>5. ASSUME api' \in {"idle", "switching"} PROVE InUse'
  BY <1>1, <1>3, <1>5 DEF WholeInv, InUse, Whole!Over
<1>6. CASE Whole!SwitchBegins
  <2>1. /\ api = "handling" /\ api' = "switching"
        /\ fresh' = [model |-> model + 1, lanes |-> Lanes]
        /\ UNCHANGED <<model, destroyed, laneModel>>
    BY <1>6 DEF Whole!SwitchBegins
  <2>2. WholeTypes'
    BY <1>1, <1>4, <2>1 DEF WholeInv, WholeTypes
  <2>3. ModelsFit'
    BY <1>1, <1>3, <2>1 DEF WholeInv, ModelsFit
  <2> QED BY <1>2, <1>5, <2>1, <2>2, <2>3 DEF WholeInv
<1>7. CASE Whole!SwitchEnds
  <2>1. /\ api = "switching" /\ fresh.lanes = {} /\ api' = "idle"
        /\ model' = fresh.model /\ destroyed' = destroyed \cup {model}
        /\ fresh' = [fresh EXCEPT !.model = 0] /\ UNCHANGED laneModel
    BY <1>7 DEF Whole!SwitchEnds, Whole!Nil
  <2>2. fresh.model = model + 1
    BY <2>1 DEF WholeInv, ModelsFit
  <2>3. WholeTypes'
    BY <1>1, <1>4, <2>1, <2>2 DEF WholeInv, WholeTypes
  <2>4. ModelsFit'
    <3>1. \A d \in destroyed' : d < model'
      BY <1>4, <2>1, <2>2
    <3>2. \A l \in Lanes : laneModel'[l] = model'
      BY <1>3, <2>1, <2>2 DEF WholeInv, ModelsFit
    <3> QED BY <1>1, <1>3, <2>1, <3>1, <3>2 DEF WholeInv, ModelsFit
  <2> QED BY <1>2, <1>5, <2>1, <2>3, <2>4 DEF WholeInv
<1>8. CASE \E l \in Lanes : Whole!SwitchLane(l)
  <2>1. PICK l \in Lanes :
           /\ api = "switching" /\ l \in fresh.lanes /\ laneHolder[l] = 0
           /\ laneModel' = [laneModel EXCEPT ![l] = fresh.model]
           /\ fresh' = [fresh EXCEPT !.lanes = @ \ {l}]
           /\ UNCHANGED <<api, model, destroyed>>
    BY <1>8 DEF Whole!SwitchLane, Whole!Nobody, Whole!threads
  <2>2. fresh.model = model + 1
    BY <2>1 DEF WholeInv, ModelsFit
  <2>3. WholeTypes'
    BY <1>1, <1>4, <2>1 DEF WholeInv, WholeTypes
  <2>4. /\ \A m \in Lanes : laneModel'[m] = IF m = l THEN model + 1 ELSE laneModel[m]
        /\ fresh'.model = fresh.model /\ fresh'.lanes = fresh.lanes \ {l}
    BY <1>4, <2>1, <2>2
  <2>5. ModelsFit'
    <3>1. \A m \in Lanes : laneModel'[m] = IF m \notin fresh'.lanes THEN model + 1 ELSE model
      BY <1>3, <2>1, <2>4 DEF WholeInv, ModelsFit
    <3>2. \A i \in DOMAIN task : task[i].at = "running" /\ task[i].lane # 0 =>
             /\ task[i].lane \in Lanes /\ laneHolder[task[i].lane] = i
             /\ laneModel'[task[i].lane] = task[i].model
      <4> SUFFICES ASSUME NEW i \in DOMAIN task, task[i].at = "running", task[i].lane # 0
                   PROVE  /\ task[i].lane \in Lanes /\ laneHolder[task[i].lane] = i
                          /\ laneModel'[task[i].lane] = task[i].model
        OBVIOUS
      <4>1. /\ task[i].lane \in Lanes /\ laneHolder[task[i].lane] = i
            /\ laneModel[task[i].lane] = task[i].model
        BY DEF WholeInv, ModelsFit
      <4>2. i # 0
        BY <1>4
      <4> QED BY <2>1, <2>4, <4>1, <4>2
    <3> QED BY <1>1, <1>3, <2>1, <2>2, <2>4, <3>1, <3>2 DEF WholeInv, ModelsFit
  <2> QED BY <1>2, <1>5, <2>1, <2>3, <2>5 DEF WholeInv
<1> QED BY <1>6, <1>7, <1>8

\* What is left of WholeInv when a task runs, or is over.
LEMMA TaskRuns ==
    ASSUME WholeInv, NEW i \in DOMAIN task, task[i].at # "over",
           NEW t \in Run, t.at # "queued", t.id = task[i].id, t.by = task[i].by, task' = [task EXCEPT ![i] = t],
           laneHolder' \in [Lanes -> Nat],
           t.at = "running" /\ t.lane # 0 =>
              laneHolder'[t.lane] = i /\ laneModel[t.lane] = t.model /\ t.lane \in Lanes,
           \A j \in DOMAIN task \ {i} : task[j].at = "running" /\ task[j].lane # 0 =>
              laneHolder'[task[j].lane] = j,
           UNCHANGED <<main, step, up, accepting, nextTask, cron, api, model, destroyed,
                       laneModel, fresh>>
    PROVE  WholeInv'
<1>1. task \in Seq(Run) /\ accepting \in BOOLEAN
  BY DEF WholeInv, WholeTypes
<1>2. /\ task' \in Seq(Run) /\ DOMAIN task' = DOMAIN task
      /\ \A j \in DOMAIN task : task'[j] = IF j = i THEN t ELSE task[j]
  BY <1>1
<1>3. WholeTypes'
  BY <1>1, <1>2 DEF WholeInv, WholeTypes
<1>4. InOrder'
  BY DEF WholeInv, InOrder
<1>5. InUse'
  <2>1. ~Whole!Over(task[i])
    BY DEF Whole!Over
  <2>2. "scheduler" \in up /\ (main = "stopping" => step <= 1)
    BY <2>1 DEF WholeInv, InUse
  <2> QED BY <2>2 DEF WholeInv, InUse
<1>6. IdsFollow'
  BY <1>2 DEF WholeInv, IdsFollow, Whole!IdsAreDurable
<1>7. ModelsFit'
  BY <1>2 DEF WholeInv, ModelsFit
<1> QED BY <1>3, <1>4, <1>5, <1>6, <1>7 DEF WholeInv

LEMMA TasksStep ==
    ASSUME WholeInv, NEW i \in DOMAIN task,
           \/ Whole!RunBeside(i) \/ Whole!Finish(i) \/ (\E l \in Lanes : Whole!RunOnLane(i, l))
    PROVE  WholeInv'
<1>1. /\ task \in Seq(Run) /\ task[i] \in Run /\ model \in Nat /\ laneModel \in [Lanes -> Nat]
      /\ laneHolder \in [Lanes -> Nat] /\ i \in Nat /\ i # 0
  BY DEF WholeInv, WholeTypes
<1>2. \A j \in DOMAIN task : task[j].at = "running" /\ task[j].lane # 0 =>
         /\ task[j].lane \in Lanes /\ laneHolder[task[j].lane] = j
         /\ laneModel[task[j].lane] = task[j].model
  BY DEF WholeInv, ModelsFit
<1>3. CASE Whole!RunBeside(i)
  <2> DEFINE t == [task[i] EXCEPT !.at = "running", !.model = model]
  <2>1. /\ task[i].at = "queued" /\ task' = [task EXCEPT ![i] = t]
        /\ UNCHANGED <<main, step, up, accepting, nextTask, cron, api, model, destroyed,
                       laneModel, laneHolder, fresh>>
    BY <1>3 DEF Whole!RunBeside, Whole!Set, Whole!threads, Whole!models
  <2>2. task[i].lane = 0
    BY <2>1 DEF WholeInv, ModelsFit
  <2>3. /\ t \in Run /\ t.at = "running" /\ t.lane = 0 /\ t.id = task[i].id
        /\ t.by = task[i].by
    BY <1>1, <2>2 DEF Run
  <2> HIDE DEF t
  <2> QED BY <1>1, <1>2, <2>1, <2>3, TaskRuns
<1>4. CASE Whole!Finish(i)
  <2> DEFINE t == [task[i] EXCEPT !.at = "over", !.lane = 0]
  <2>1. /\ task[i].at = "running" /\ task' = [task EXCEPT ![i] = t]
        /\ laneHolder' = [l \in Lanes |-> IF laneHolder[l] = i THEN 0 ELSE laneHolder[l]]
        /\ UNCHANGED <<main, step, up, accepting, nextTask, cron, api, model, destroyed,
                       laneModel, fresh>>
    BY <1>4 DEF Whole!Finish, Whole!Set, Whole!threads, Whole!Nobody
  <2>2. /\ t \in Run /\ t.at = "over" /\ t.id = task[i].id /\ t.by = task[i].by
    BY <1>1 DEF Run
  <2> HIDE DEF t
  <2>3. laneHolder' \in [Lanes -> Nat]
    BY <1>1, <2>1
  <2>4. \A j \in DOMAIN task \ {i} : task[j].at = "running" /\ task[j].lane # 0 =>
           laneHolder'[task[j].lane] = j
    BY <1>2, <2>1
  <2> QED BY <2>1, <2>2, <2>3, <2>4, TaskRuns
<1>5. CASE \E l \in Lanes : Whole!RunOnLane(i, l)
  <2>1. PICK l \in Lanes : Whole!RunOnLane(i, l)
    BY <1>5
  <2> DEFINE t == [task[i] EXCEPT !.at = "running", !.lane = l, !.model = laneModel[l]]
  <2>2. /\ task[i].at = "queued" /\ laneHolder[l] = 0 /\ task' = [task EXCEPT ![i] = t]
        /\ laneHolder' = [laneHolder EXCEPT ![l] = i]
        /\ UNCHANGED <<main, step, up, accepting, nextTask, cron, api, model, destroyed,
                       laneModel, fresh>>
    BY <2>1 DEF Whole!RunOnLane, Whole!Set, Whole!threads, Whole!Nobody
  <2>3. /\ t \in Run /\ t.at = "running" /\ t.lane = l /\ t.model = laneModel[l]
        /\ t.id = task[i].id /\ t.by = task[i].by
    BY <1>1 DEF Run
  <2> HIDE DEF t
  <2>4. laneHolder' \in [Lanes -> Nat] /\ laneHolder'[l] = i
        /\ \A m \in Lanes \ {l} : laneHolder'[m] = laneHolder[m]
    BY <1>1, <2>2
  <2>5. \A j \in DOMAIN task \ {i} : task[j].at = "running" /\ task[j].lane # 0 =>
           laneHolder'[task[j].lane] = j
    <3> SUFFICES ASSUME NEW j \in DOMAIN task \ {i}, task[j].at = "running", task[j].lane # 0
                 PROVE  laneHolder'[task[j].lane] = j
      OBVIOUS
    <3>1. task[j].lane \in Lanes /\ laneHolder[task[j].lane] = j /\ j # 0
      BY <1>1, <1>2
    <3>2. task[j].lane # l
      BY <2>2, <3>1
    <3> QED BY <2>4, <3>1, <3>2
  <2> QED BY <2>2, <2>3, <2>4, <2>5, TaskRuns
<1> QED BY <1>3, <1>4, <1>5

LEMMA WholeStep == WholeInv /\ [Whole!Next]_(Whole!runtimeVars) => WholeInv'
<1> SUFFICES ASSUME WholeInv, [Whole!Next]_(Whole!runtimeVars) PROVE WholeInv'
  OBVIOUS
<1>1. CASE \E k \in DOMAIN Whole!Boot : Whole!Start(Whole!Boot[k])
  BY <1>1, PartStarts
<1>2. CASE \E k \in DOMAIN Whole!Shutdown : Whole!Stop(Whole!Shutdown[k])
  BY <1>2, PartStops
<1>3. CASE Whole!StopIt \/ Whole!Refuse \/ Whole!Abandon
  BY <1>3, WholeStops
<1>4. CASE \/ Whole!Ingest \/ Whole!IngestDispatch \/ Whole!PollerSubmits \/ Whole!Tick
           \/ Whole!CronSubmits \/ Whole!Request \/ Whole!ApiSubmits
  BY <1>4, SubmittersStep
<1>5. CASE Whole!SwitchBegins \/ Whole!SwitchEnds \/ (\E l \in Lanes : Whole!SwitchLane(l))
  BY <1>5, ModelChanges
<1>6. CASE \E i \in DOMAIN task : \/ Whole!RunBeside(i) \/ Whole!Finish(i)
                               \/ \E l \in Lanes : Whole!RunOnLane(i, l)
  BY <1>6, TasksStep
<1>7. CASE UNCHANGED Whole!runtimeVars
  <2>1. UNCHANGED <<main, step, up, accepting, nextTask, task, cron, api, model, destroyed,
                    laneModel, laneHolder, fresh>>
    BY <1>7 DEF Whole!runtimeVars
  <2>2. "channel" \in {"channel", "cron", "api"}
    OBVIOUS
  <2>3. /\ cron \in {"idle", "submitting"} /\ api \in {"idle", "handling", "switching"}
        /\ cron # "idle" => "cron" \in up
        /\ api # "idle" => "http" \in up /\ main \in {"serving", "stopping", "abandoned"}
    BY DEF WholeInv, WholeTypes, InUse
  <2> QED BY <2>1, <2>2, <2>3, ThreadSubmits
<1> QED BY <1>1, <1>2, <1>3, <1>4, <1>5, <1>6, <1>7 DEF Whole!Next

-----------------------------------------------------------------------------
(* Uploads *)

Exts == {"raw", "txt", "frames"}
Statuses == {"ready", "unsupported", "failed"}
Manifest == [kind : Upload!Kinds, status : Statuses]
StoreStages == {"bytes", "extract", "text", "manifest"}
DeleteStages == {"remove raw", "remove txt", "remove frames", "unindex"}
ReadStages == {"read", "read frames"}
Resting == {"idle", "scan", "import", "reindex"}
Work == [at : StoreStages \cup DeleteStages \cup ReadStages \cup Resting \cup {"forget", "replace"},
         id : Upload!Ids \cup {0}, kind : Upload!Kinds \cup {Missing},
         status : Statuses \cup {Missing}, name : OldNames \cup {Missing}, got : SUBSET Exts]

UploadTypes ==
    /\ files \in SUBSET (Upload!Ids \X Exts)
    /\ manifest \in [Upload!Ids -> Manifest \cup {Missing}]
    /\ old \in SUBSET OldNames /\ todo \in SUBSET OldNames /\ index \subseteq Upload!Ids \cup old
    /\ nextFile \in Nat /\ work \in [Upload!Workers -> Work]
    /\ stored \in SUBSET Upload!Ids /\ unwanted \in SUBSET Upload!Ids
    /\ deleted \in SUBSET Upload!Ids
    /\ imported \in [Upload!Ids -> OldNames \cup {Missing}] /\ torn = FALSE

\* Clients work while the API is served, the starter before; one deletion or
\* message at a time.
TurnsFit ==
    /\ ~served => \A w \in Handlers : work[w].at = "idle"
    /\ served => work[Starter].at = "idle"
    /\ work[Starter].at \in StoreStages \cup Resting \cup {"replace"}
    /\ \A w \in Handlers : work[w].at \notin {"scan", "import", "reindex", "replace"}
    /\ \A v, w \in {u \in Handlers : work[u].at \notin StoreStages \cup {"idle"}} : v = w

Busy(w) == work[w].at \notin Resting

\* Every file is one worker's.
IdsDiffer ==
    \A v, w \in Upload!Workers : Busy(v) /\ Busy(w) /\ work[v].id = work[w].id => v = w

\* What there is of a file that is being stored,
StoreFits(w) ==
    LET i == work[w].id  kind == work[w].kind
        Has(ext) == <<i, ext>> \in files
        Text == "txt" \in Upload!Parts(kind)
    IN  /\ work[w].at \in StoreStages =>
              i \notin stored /\ kind \in Upload!Kinds /\ imported[i] = work[w].name
        /\ work[w].at = "bytes" => \A ext \in Exts : ~Has(ext)
        /\ work[w].at \in {"extract", "text", "manifest"} => Has("raw")
        /\ work[w].at \in {"bytes", "extract", "text"} => i \notin index
        /\ work[w].at = "extract" => ~Has("txt")
        /\ work[w].at = "text" =>
              Text /\ work[w].status = "ready" /\ (kind = "pages" => Has("frames"))
        /\ work[w].at = "manifest" =>
              /\ work[w].status \in Statuses
              /\ work[w].status = "ready" => \A ext \in Upload!Parts(kind) : Has(ext)
              /\ Has("txt") => Text
              /\ i \in index <=> work[w].status = "ready" /\ Text

\* and what a worker knows of one that was stored.
KnownFits(w) ==
    LET i == work[w].id
    IN  /\ work[w].at \in DeleteStages => i \in unwanted /\ manifest[i] = Missing
        /\ work[w].at = "forget" => i \in unwanted /\ i \notin deleted
        /\ work[w].at \in ReadStages =>
              /\ manifest[i] # Missing /\ manifest[i].status = "ready"
              /\ work[w].kind = manifest[i].kind
        /\ work[w].at = "read frames" =>
              Upload!Parts(work[w].kind) \subseteq work[w].got \cup {"frames"}
        /\ work[w].at = "replace" => i \in stored /\ imported[i] = work[w].name

WorkFits(w) ==
    /\ Busy(w) => work[w].id \in Upload!Ids /\ work[w].id < nextFile
    /\ StoreFits(w) /\ KnownFits(w)

Texts == {i \in Upload!Ids : /\ manifest[i] # Missing /\ manifest[i].status = "ready"
                             /\ "txt" \in Upload!Parts(manifest[i].kind)}
Indexing(i) == \E w \in Upload!Workers : work[w].at \in DeleteStages \cup {"manifest"} /\ work[w].id = i

\* An id is new or has been given; only one that was stored has a manifest, which
\* tells what there is, or is deleted.
IdFits(i) ==
    /\ i >= nextFile => /\ i \notin index /\ imported[i] = Missing
                        /\ \A ext \in Exts : <<i, ext>> \notin files
    /\ i \in stored => i < nextFile
    /\ i \in unwanted => i \in stored
    /\ i \in deleted => i \in unwanted /\ manifest[i] = Missing /\ i \notin index
    /\ manifest[i] # Missing => i \in stored
    /\ manifest[i] # Missing /\ manifest[i].status = "ready" =>
          \A ext \in {"raw"} \cup Upload!Parts(manifest[i].kind) : <<i, ext>> \in files
    /\ manifest[i] # Missing /\ <<i, "txt">> \in files => "txt" \in Upload!Parts(manifest[i].kind)
    /\ i \in stored \ unwanted => manifest[i] # Missing /\ <<i, "raw">> \in files
    /\ i \in index => i \in Texts \/ Indexing(i)
    /\ served /\ i \in Texts => i \in index

\* An old file is there until another has its bytes.
OldAreKept ==
    /\ work[Starter].at # "scan" => todo \subseteq old
    /\ work[Starter].at \in StoreStages \cup {"replace"} =>
          work[Starter].name \in old \ todo
    /\ \A n \in OldNames \ old : (\E i \in Upload!Ids : imported[i] = n) =>
          \E i \in stored : imported[i] = n

UploadInv ==
    /\ UploadTypes /\ TurnsFit /\ IdsDiffer /\ (\A w \in Upload!Workers : WorkFits(w))
    /\ (\A i \in Upload!Ids : IdFits(i)) /\ OldAreKept

LEMMA PartsOfKinds ==
    /\ \A kind : Upload!Parts(kind) \subseteq {"txt", "frames"}
    /\ \A kind : "frames" \in Upload!Parts(kind) <=> kind = "pages"
    /\ \A kind : "txt" \in Upload!Parts(kind) <=> kind \in {"text", "pages"}
BY DEF Upload!Parts

LEMMA UploadInvIsEnough == UploadInv => Upload!AttachmentsSafe
<1> SUFFICES ASSUME UploadInv PROVE Upload!AttachmentsSafe
  OBVIOUS
<1>1. Upload!ReadyIsWhole
  BY DEF UploadInv, IdFits, Upload!ReadyIsWhole
<1>2. Upload!AnswersStay
  BY DEF UploadInv, UploadTypes, IdFits, Upload!AnswersStay
<1>3. Upload!RecallFollows
  <2> SUFFICES ASSUME served
               PROVE  /\ Texts \subseteq index
                      /\ index \subseteq Texts \cup old \cup {work[w].id : w \in Upload!Workers}
    BY Zenon DEF Upload!RecallFollows, Texts
  <2>1. Texts \subseteq index
    BY DEF UploadInv, IdFits, Texts
  <2>2. ASSUME NEW i \in index, i \notin old, i \notin Texts
        PROVE  \E w \in Upload!Workers : work[w].id = i
    BY <2>2 DEF UploadInv, UploadTypes, IdFits, Indexing
  <2> QED BY <2>1, <2>2
<1>4. Upload!NoBytesAreLost
  <2> SUFFICES ASSUME NEW n \in OldNames \ old, NEW i \in Upload!Ids, imported[i] = n
               PROVE  \E j \in Upload!Ids : /\ imported[j] = n
                             /\ \/ j \in unwanted
                                \/ manifest[j] # Missing /\ <<j, "raw">> \in files
    BY Zenon DEF Upload!NoBytesAreLost
  <2>1. PICK j \in stored : imported[j] = n
    BY DEF UploadInv, OldAreKept
  <2>2. j \in Upload!Ids /\ IdFits(j)
    BY <2>1 DEF UploadInv, UploadTypes
  <2> QED BY <2>1, <2>2 DEF IdFits
<1>5. Upload!MessagesAreWhole
  BY DEF UploadInv, UploadTypes, Upload!MessagesAreWhole
<1> QED BY <1>1, <1>2, <1>3, <1>4, <1>5 DEF Upload!AttachmentsSafe

LEMMA UploadStarts == Upload!Init => UploadInv
<1> SUFFICES ASSUME Upload!Init PROVE UploadInv
  OBVIOUS
<1>1. /\ Upload!Idle \in Work /\ Upload!Idle.at = "idle"
      /\ [Upload!Idle EXCEPT !.at = "scan"] \in Work
  BY DEF Upload!Idle, Work, Resting, Exts
<1>2. /\ work \in [Upload!Workers -> Work]
      /\ \A w \in Upload!Workers : work[w].at = (IF w = Starter THEN "scan" ELSE "idle")
  BY <1>1 DEF Upload!Init, Upload!Idle
<1>3. Starter \in Upload!Workers /\ Handlers \subseteq Upload!Workers
  BY DEF Upload!Workers
<1>4. UploadTypes
  BY <1>2 DEF Upload!Init, UploadTypes, Exts
<1>5. TurnsFit
  BY <1>2, <1>3, UploadAssumption DEF Upload!Init, TurnsFit, Resting, StoreStages
<1>6. \A w \in Upload!Workers : ~Busy(w) /\ WorkFits(w)
  BY <1>2 DEF Busy, WorkFits, StoreFits, KnownFits, Resting, StoreStages, DeleteStages, ReadStages
<1>7. \A i \in Upload!Ids : IdFits(i)
  BY DEF Upload!Init, IdFits, Texts
<1>8. OldAreKept
  <2>1. work[Starter].at = "scan"
    BY <1>2, <1>3
  <2>2. \A i \in Upload!Ids : imported[i] \notin OldNames
    BY UploadAssumption DEF Upload!Init
  <2> QED BY <2>1, <2>2 DEF OldAreKept, StoreStages
<1> QED BY <1>4, <1>5, <1>6, <1>7, <1>8 DEF UploadInv, IdsDiffer

\* A step leaves a file alone.
Apart(j) ==
    /\ \A ext \in Exts : <<j, ext>> \in files' <=> <<j, ext>> \in files
    /\ manifest'[j] = manifest[j] /\ imported'[j] = imported[j]
    /\ j \in index' <=> j \in index
    /\ j \in stored' <=> j \in stored
    /\ j \in unwanted' <=> j \in unwanted
    /\ j \in deleted' <=> j \in deleted

\* One worker goes on, and only its file is another: what has to be shown is what
\* is kept of that file and that worker.
LEMMA OneFile ==
    ASSUME UploadInv, NEW w \in Upload!Workers, NEW i \in Upload!Ids, NEW job \in Work,
           work' = [work EXCEPT ![w] = job],
           Busy(w) => work[w].id = i,
           \A v \in Upload!Workers : v # w /\ Busy(v) => work[v].id # i,
           job.at \notin Resting => job.id = i,
           work[w].at # "idle" \/ (w \in Handlers /\ served),
           w = Starter => job.at \in {"bytes", "extract", "text", "manifest", "import", "replace"},
           w \in Handlers => job.at \notin {"scan", "import", "reindex", "replace"},
           w \in Handlers /\ job.at \notin StoreStages \cup {"idle"} =>
              \/ work[w].at \notin StoreStages \cup {"idle"}
              \/ \A v \in Handlers : work[v].at \in StoreStages \cup {"idle"},
           \A j \in Upload!Ids : j # i => Apart(j),
           nextFile' \in {nextFile, nextFile + 1}, served' = served,
           UploadTypes', WorkFits(w)', IdFits(i)', OldAreKept'
    PROVE  UploadInv'
<1>1. /\ Starter \in Upload!Workers /\ Handlers \subseteq Upload!Workers /\ Starter \notin Handlers
      /\ Upload!Workers = Handlers \cup {Starter}
  BY UploadAssumption DEF Upload!Workers
<1>2. /\ work \in [Upload!Workers -> Work] /\ work'[w] = job
      /\ \A v \in Upload!Workers : v # w => work'[v] = work[v]
      /\ nextFile \in Nat /\ Upload!Ids \subseteq Nat
  BY DEF UploadInv, UploadTypes, Upload!Ids
<1>3. TurnsFit'
  <2>1. served <=> w \in Handlers
    BY <1>1 DEF UploadInv, TurnsFit
  <2>2. (~served => \A v \in Handlers : work[v].at = "idle")'
    BY <2>1, <1>1, <1>2 DEF UploadInv, TurnsFit
  <2>3. (served => work[Starter].at = "idle")'
    BY <2>1, <1>1, <1>2 DEF UploadInv, TurnsFit
  <2>4. (work[Starter].at \in StoreStages \cup Resting \cup {"replace"})'
    BY <1>1, <1>2 DEF UploadInv, TurnsFit, StoreStages, Resting
  <2>5. (\A v \in Handlers : work[v].at \notin {"scan", "import", "reindex", "replace"})'
    BY <1>1, <1>2 DEF UploadInv, TurnsFit
  <2>6. ASSUME NEW u \in Handlers, NEW v \in Handlers,
               work'[u].at \notin StoreStages \cup {"idle"}, work'[v].at \notin StoreStages \cup {"idle"}
        PROVE  u = v
    <3> DEFINE R == StoreStages \cup {"idle"}
               B == {a \in Handlers : work[a].at \notin R}
    <3>1. \A a, b \in B : a = b
      BY Zenon DEF UploadInv, TurnsFit
    <3>2. \A a, b \in Handlers : work[a].at \notin R /\ work[b].at \notin R => a = b
      BY <3>1
    <3> HIDE DEF R, B
    <3>3. /\ work'[u].at \notin R /\ work'[v].at \notin R
          /\ w \in Handlers /\ job.at \notin R =>
                work[w].at \notin R \/ \A a \in Handlers : work[a].at \in R
      BY <2>6 DEF R
    <3> QED BY <3>2, <3>3, <1>1, <1>2
  <2> QED BY <2>2, <2>3, <2>4, <2>5, <2>6 DEF TurnsFit
<1>4. \A v \in Upload!Workers : v # w => (Busy(v)' <=> Busy(v))
  BY <1>2 DEF Busy
<1>5. IdsDiffer'
  <2>1. Busy(w)' => work'[w].id = i
    BY <1>2 DEF Busy
  <2>2. \A v \in Upload!Workers : v # w /\ Busy(v)' => work'[v].id # i
    BY <1>2, <1>4
  <2>3. ASSUME NEW u \in Upload!Workers, NEW v \in Upload!Workers, u # w, v # w,
               Busy(u)', Busy(v)', work'[u].id = work'[v].id
        PROVE  u = v
    BY <2>3, <1>2, <1>4 DEF UploadInv, IdsDiffer
  <2> QED BY <2>1, <2>2, <2>3 DEF IdsDiffer
<1>6. ASSUME NEW v \in Upload!Workers, v # w PROVE WorkFits(v)'
  <2>1. CASE ~Busy(v)
    <3>1. ~Busy(v)'
      BY <2>1, <1>4, <1>6
    <3> QED BY <3>1 DEF Busy, WorkFits, StoreFits, KnownFits, Resting, StoreStages, DeleteStages, ReadStages
  <2>2. CASE Busy(v)
    <3> DEFINE j == work[v].id
    <3>0. WorkFits(v)
      BY DEF UploadInv
    <3>1. j # i /\ work'[v] = work[v] /\ j \in Upload!Ids /\ j < nextFile
      BY <2>2, <1>2, <1>6, <3>0 DEF WorkFits
    <3>2. Apart(j)
      BY <3>1
    <3>4. j < nextFile'
      <4>1. j \in Nat /\ nextFile \in Nat /\ j < nextFile
        BY <3>1, <1>2
      <4> HIDE DEF j
      <4> QED BY <4>1
    <3>5. \A kind : Upload!Parts(kind) \subseteq Exts
      BY PartsOfKinds DEF Exts
    <3>6. {"raw", "txt", "frames"} \subseteq Exts
      BY DEF Exts
    <3> HIDE DEF j
    <3>7. j = work[v].id
      BY DEF j
    <3>8. \A ext \in Exts : <<j, ext>> \in files' <=> <<j, ext>> \in files
      BY <3>2 DEF Apart
    <3>9. /\ \A ext \in {"raw", "txt", "frames"} : <<j, ext>> \in files' <=> <<j, ext>> \in files
          /\ \A kind : \A ext \in Upload!Parts(kind) : <<j, ext>> \in files' <=> <<j, ext>> \in files
      BY <3>5, <3>6, <3>8
    <3>10. /\ work'[v].id = j /\ work[v].id = j /\ work'[v] = work[v]
      BY <3>1, <3>7
    <3>11. KnownFits(v)'
      <4>1. /\ j \in unwanted' <=> j \in unwanted
            /\ j \in deleted' <=> j \in deleted
            /\ j \in stored' <=> j \in stored
            /\ manifest'[j] = manifest[j] /\ imported'[j] = imported[j]
        BY <3>2 DEF Apart
      <4>2. KnownFits(v)
        BY <3>0 DEF WorkFits
      <4> QED BY <4>1, <4>2, <3>10, Zenon DEF KnownFits
    <3>12. StoreFits(v)'
      BY <3>0, <3>1, <3>2, <3>9, <3>10, <3>6 DEF WorkFits, StoreFits, Apart, Exts
    <3> QED BY <3>1, <3>4, <3>10, <3>11, <3>12 DEF WorkFits
  <2> QED BY <2>1, <2>2
<1>7. ASSUME NEW j \in Upload!Ids, j # i PROVE IdFits(j)'
  <2>1. Apart(j) /\ IdFits(j)
    BY <1>7 DEF UploadInv
  <2>2. (j \in Texts)' <=> j \in Texts
    BY <2>1, <1>7 DEF Apart, Texts
  <2>3. Indexing(j) => Indexing(j)'
    <3> SUFFICES ASSUME NEW v \in Upload!Workers, work[v].id = j,
                        work[v].at \in DeleteStages \cup {"manifest"}
                 PROVE  Indexing(j)'
      BY DEF Indexing
    <3>1. v # w
      BY <1>7 DEF Busy, DeleteStages, Resting
    <3> QED BY <3>1, <1>2 DEF Indexing
  <2>4. \A kind : Upload!Parts(kind) \subseteq Exts
    BY PartsOfKinds DEF Exts
  <2>5. {"raw", "txt", "frames"} \subseteq Exts
    BY DEF Exts
  <2>6. j >= nextFile' => j >= nextFile
    BY <1>2
  <2>7. j < nextFile => j < nextFile'
    BY <1>2
  <2> QED BY <2>1, <2>2, <2>3, <2>4, <2>5, <2>6, <2>7, <1>7 DEF Apart, IdFits
<1> QED BY <1>3, <1>5, <1>6, <1>7 DEF UploadInv

\* A worker goes on with its file.
LEMMA BusyGoes ==
    ASSUME UploadInv, NEW w \in Upload!Workers, NEW i \in Upload!Ids, Busy(w), i = work[w].id,
           NEW job \in Work,
           work' = [work EXCEPT ![w] = job],
           job.at \notin Resting => job.id = i,
           w = Starter => job.at \in {"bytes", "extract", "text", "manifest", "import", "replace"},
           w = Starter /\ job.at # "import" => job.name = work[w].name,
           w \in Handlers => job.at \notin {"scan", "import", "reindex", "replace"},
           w \in Handlers /\ job.at \notin StoreStages \cup {"idle"} =>
               work[w].at \notin StoreStages \cup {"idle"},
           \A j \in Upload!Ids : j # i => Apart(j),
           UNCHANGED <<nextFile, served, old, todo, imported>>, torn' = FALSE,
           stored \subseteq stored', stored' \subseteq Upload!Ids,
           files' \in SUBSET (Upload!Ids \X Exts),
           manifest' \in [Upload!Ids -> Manifest \cup {Missing}],
           index' \subseteq Upload!Ids \cup old, unwanted' \subseteq Upload!Ids,
           deleted' \subseteq Upload!Ids,
           WorkFits(w)', IdFits(i)'
    PROVE  UploadInv'
<1>1. work \in [Upload!Workers -> Work]
  BY DEF UploadInv, UploadTypes, WorkFits
<1>2. \A v \in Upload!Workers : v # w /\ Busy(v) => work[v].id # i
  BY DEF UploadInv, IdsDiffer
<1>3. UploadTypes'
  BY <1>1 DEF UploadInv, UploadTypes
<1>4. work[w].at # "idle"
  BY DEF Busy, Resting
<1>5. OldAreKept'
  <2>1. work'[Starter] = IF w = Starter THEN job ELSE work[Starter]
    BY <1>1 DEF Upload!Workers
  <2>2. w = Starter => work[w].at \in StoreStages \cup {"replace"}
    BY DEF Busy, UploadInv, TurnsFit
  <2>3. /\ work'[Starter].at # "scan" => work[Starter].at # "scan"
        /\ work'[Starter].at \in StoreStages \cup {"replace"} =>
              /\ work[Starter].at \in StoreStages \cup {"replace"}
              /\ work'[Starter].name = work[Starter].name
    BY <2>1, <2>2 DEF StoreStages
  <2>4. OldAreKept
    BY DEF UploadInv
  <2>5. \A n \in OldNames \ old' : (\E j \in Upload!Ids : imported'[j] = n) =>
            \E j \in stored' : imported'[j] = n
    BY <2>4, Zenon DEF OldAreKept
  <2> QED BY <2>3, <2>4, <2>5 DEF OldAreKept
<1>7. (Busy(w) => work[w].id = i) /\ (job.at \notin Resting => job.id = i)
  OBVIOUS
<1>9. nextFile' \in {nextFile, nextFile + 1} /\ served' = served
  OBVIOUS
<1>10. w \in Handlers /\ job.at \notin StoreStages \cup {"idle"} =>
          \/ work[w].at \notin StoreStages \cup {"idle"}
          \/ \A v \in Handlers : work[v].at \in StoreStages \cup {"idle"}
  OBVIOUS
<1>11. work[w].at # "idle" \/ (w \in Handlers /\ served)
  BY <1>4
<1> QED BY <1>1, <1>2, <1>3, <1>5, <1>7, <1>9, <1>10, <1>11, OneFile, Zenon

LEMMA WorkOfOne ==
    ASSUME UploadInv, NEW w \in Upload!Workers
    PROVE  /\ work \in [Upload!Workers -> Work] /\ work[w] \in Work /\ WorkFits(w)
           /\ Busy(w) => IdFits(work[w].id) /\ work[w].id \in Upload!Ids /\ work[w].id < nextFile
           /\ w = Starter => w \notin Handlers
           /\ w # Starter => w \in Handlers
           /\ \A j \in Upload!Ids : j \in Nat
           /\ nextFile \in Nat
<1>1. work \in [Upload!Workers -> Work] /\ WorkFits(w) /\ nextFile \in Nat
  BY DEF UploadInv, UploadTypes
<1>2. Busy(w) => IdFits(work[w].id) /\ work[w].id \in Upload!Ids /\ work[w].id < nextFile
  BY <1>1 DEF UploadInv, WorkFits
<1> QED BY <1>1, <1>2, UploadAssumption DEF Upload!Workers, Upload!Ids

\* What is being stored is not known yet.
LEMMA NotYetKnown ==
    ASSUME UploadInv, NEW w \in Upload!Workers, work[w].at \in StoreStages
    PROVE  /\ Busy(w) /\ work[w].kind \in Upload!Kinds /\ imported[work[w].id] = work[w].name
           /\ work[w].id \notin stored \cup unwanted \cup deleted
           /\ manifest[work[w].id] = Missing
<1>1. Busy(w)
  BY DEF Busy, StoreStages, Resting
<1>2. WorkFits(w) /\ IdFits(work[w].id)
  BY <1>1, WorkOfOne
<1>3. StoreFits(w)
  BY <1>2 DEF WorkFits
<1> QED BY <1>1, <1>2, <1>3 DEF StoreFits, IdFits

\* Before the manifest is written.
LEMMA UnknownFits ==
    ASSUME NEW w \in Upload!Workers, NEW i \in Upload!Ids, i < nextFile, i \in Nat, nextFile \in Nat,
           i \notin stored \cup unwanted \cup deleted, manifest[i] = Missing,
           i \notin index \/ (work[w].at = "manifest" /\ work[w].id = i)
    PROVE  IdFits(i)
<1>1. i \notin Texts
  BY DEF Texts
<1>2. i \in index => Indexing(i)
  BY DEF Indexing
<1>3. ~(i >= nextFile)
  OBVIOUS
<1> QED BY <1>1, <1>2, <1>3 DEF IdFits

\* What a worker is that has given up.
GivenUp(w) == IF w = Starter THEN [Upload!Idle EXCEPT !.at = "import"] ELSE Upload!Idle

LEMMA Idles ==
    ASSUME NEW w
    PROVE  /\ Upload!Idle \in Work /\ Upload!Idle.at = "idle"
           /\ GivenUp(w) \in Work
           /\ w = Starter => GivenUp(w).at = "import"
           /\ w # Starter => GivenUp(w).at = "idle"
           /\ Upload!GivesUp(w) => work' = [work EXCEPT ![w] = GivenUp(w)]
           /\ Upload!Rests(w) <=> work' = [work EXCEPT ![w] = Upload!Idle]
BY DEF GivenUp, Upload!Idle, Work, Resting, Exts, Upload!GivesUp, Upload!Rests

LEMMA RestFits ==
    ASSUME NEW w, work[w].at \in Resting PROVE WorkFits(w)
BY DEF WorkFits, StoreFits, KnownFits, Busy, Resting, StoreStages, DeleteStages, ReadStages

\* Storing a file cannot go on.
LEMMA GivesUpStoring ==
    ASSUME UploadInv, NEW w \in Upload!Workers, work[w].at \in StoreStages,
           NEW i, i = work[w].id, Upload!GivesUp(w), i \notin index', index' \subseteq index,
           files' \subseteq files,
           \A f \in files : f[1] # i => f \in files',
           \A j \in index : j # i => j \in index',
           UNCHANGED <<manifest, old, todo, nextFile, served, stored, unwanted, deleted,
                       imported, torn>>
    PROVE  UploadInv'
<1> DEFINE job == GivenUp(w)
<1>1. /\ work \in [Upload!Workers -> Work] /\ i \in Upload!Ids /\ i < nextFile /\ Busy(w)
      /\ i \in Nat /\ nextFile \in Nat
      /\ (w = Starter => w \notin Handlers) /\ (w # Starter => w \in Handlers)
  BY WorkOfOne, NotYetKnown
<1>2. /\ job \in Work /\ work' = [work EXCEPT ![w] = job] /\ job.at \in Resting
      /\ (w = Starter => job.at = "import") /\ (w # Starter => job.at = "idle")
  BY Idles, Zenon DEF Resting
<1> HIDE DEF job
<1>3. \A j \in Upload!Ids : j # i => Apart(j)
  BY DEF Apart
<1>4. work'[w] = job
  BY <1>1, <1>2
<1>5. WorkFits(w)'
  <2>1. work'[w].at \in Resting
    BY <1>2, <1>4
  <2> QED BY <2>1 DEF WorkFits, StoreFits, KnownFits, Busy, Resting, StoreStages, DeleteStages,
                       ReadStages
<1>6. IdFits(i)'
  <2>1. /\ i \notin stored \cup unwanted \cup deleted /\ manifest[i] = Missing
    BY NotYetKnown
  <2>2. i \notin Texts'
    BY <2>1 DEF Texts
  <2>3. ~(i >= nextFile)
    BY <1>1
  <2>5. /\ i \notin stored' /\ i \notin unwanted' /\ i \notin deleted' /\ manifest'[i] = Missing
        /\ ~(i >= nextFile')
    BY <2>1, <2>3
  <2> QED BY <2>2, <2>5 DEF IdFits
<1>7. /\ torn' = FALSE /\ stored' \subseteq Upload!Ids
      /\ files' \in SUBSET (Upload!Ids \X Exts)
      /\ manifest' \in [Upload!Ids -> Manifest \cup {Missing}]
      /\ index' \subseteq Upload!Ids \cup old /\ unwanted' \subseteq Upload!Ids
      /\ deleted' \subseteq Upload!Ids
  BY DEF UploadInv, UploadTypes
<1> QED BY <1>1, <1>2, <1>3, <1>5, <1>6, <1>7, BusyGoes DEF StoreStages

\* Storing a file goes on, before its manifest is written.
LEMMA StoringGoes ==
    ASSUME UploadInv, NEW w \in Upload!Workers, work[w].at \in StoreStages,
           NEW i, i = work[w].id, NEW to \in {"extract", "text", "manifest"},
           NEW status \in Statuses \cup {Missing},
           work' = [work EXCEPT ![w].at = to, ![w].status = status],
           UNCHANGED <<manifest, old, todo, nextFile, served, stored, unwanted, deleted,
                       imported, torn>>,
           files' \in SUBSET (Upload!Ids \X Exts), index' \subseteq Upload!Ids \cup old,
           \A j \in Upload!Ids : j # i => Apart(j),
           i \in index' => to = "manifest",
           StoreFits(w)'
    PROVE  UploadInv'
<1> DEFINE job == [work[w] EXCEPT !.at = to, !.status = status]
<1>1. /\ work \in [Upload!Workers -> Work] /\ i \in Upload!Ids /\ i < nextFile /\ Busy(w)
      /\ i \in Nat /\ nextFile \in Nat /\ work[w] \in Work
      /\ (w = Starter => w \notin Handlers) /\ (w # Starter => w \in Handlers)
  BY WorkOfOne, NotYetKnown
<1>2. to \in StoreStages
  BY DEF StoreStages
<1>3. /\ job \in Work /\ job.at = to /\ job.id = i /\ job.name = work[w].name
      /\ work' = [work EXCEPT ![w] = job]
  BY <1>1, <1>2 DEF Work
<1> HIDE DEF job
<1>4. work'[w] = job
  BY <1>1, <1>3
<1>5. WorkFits(w)'
  BY <1>1, <1>2, <1>3, <1>4 DEF WorkFits, KnownFits, StoreStages, DeleteStages, ReadStages
<1>6. IdFits(i)'
  <2>1. i \notin stored \cup unwanted \cup deleted /\ manifest[i] = Missing
    BY NotYetKnown
  <2>2. i \notin Texts'
    BY <2>1 DEF Texts
  <2>3. i \in index' => Indexing(i)'
    BY <1>3, <1>4 DEF Indexing
  <2>4. ~(i >= nextFile')
    BY <1>1
  <2>5. i \notin stored' /\ i \notin unwanted' /\ i \notin deleted' /\ manifest'[i] = Missing
    BY <2>1
  <2> QED BY <2>2, <2>3, <2>4, <2>5 DEF IdFits
<1>7. /\ torn' = FALSE /\ stored' \subseteq Upload!Ids /\ stored \subseteq stored'
      /\ manifest' \in [Upload!Ids -> Manifest \cup {Missing}]
      /\ unwanted' \subseteq Upload!Ids /\ deleted' \subseteq Upload!Ids
  BY DEF UploadInv, UploadTypes
<1>8. /\ job.at \notin Resting => job.id = i
      /\ (w = Starter => job.at \in {"bytes", "extract", "text", "manifest", "import", "replace"})
      /\ (w = Starter /\ job.at # "import" => job.name = work[w].name)
      /\ (w \in Handlers => job.at \notin {"scan", "import", "reindex", "replace"})
      /\ (w \in Handlers /\ job.at \notin StoreStages \cup {"idle"} =>
               work[w].at \notin StoreStages \cup {"idle"})
  BY <1>2, <1>3
<1> QED BY <1>1, <1>3, <1>5, <1>6, <1>7, <1>8, BusyGoes, Zenon

\* The pairs of another file.
LEMMA OthersFiles ==
    ASSUME NEW F, NEW i, NEW ext, NEW X
    PROVE  /\ \A j, e : j # i => (<<j, e>> \in F \cup {<<i, ext>>} <=> <<j, e>> \in F)
           /\ \A j, e : j # i => (<<j, e>> \in F \ {<<i, ext>>} <=> <<j, e>> \in F)
           /\ \A e : e # ext => (<<i, e>> \in F \ {<<i, ext>>} <=> <<i, e>> \in F)
           /\ \A e : e # ext => (<<i, e>> \in F \cup {<<i, ext>>} <=> <<i, e>> \in F)
OBVIOUS

LEMMA BytesWritten ==
    ASSUME UploadInv, NEW w \in Upload!Workers, Upload!WriteBytes(w) PROVE UploadInv'
<1> DEFINE i == work[w].id
<1>1. work[w].at = "bytes" /\ work[w].at \in StoreStages
  BY DEF Upload!WriteBytes, StoreStages
<1>2. StoreFits(w) /\ i \in Upload!Ids /\ work \in [Upload!Workers -> Work] /\ work[w] \in Work
  BY <1>1, NotYetKnown, WorkOfOne DEF WorkFits
<1>3. i \notin index /\ (\A ext \in Exts : <<i, ext>> \notin files)
  BY <1>1, <1>2 DEF StoreFits
<1>4. /\ UNCHANGED <<manifest, old, todo, nextFile, served, stored, unwanted, deleted,
                     imported, torn, index>>
      /\ \/ files' = files \cup {<<i, "raw">>} /\ Upload!Goes(w, "extract")
         \/ Upload!GivesUp(w) /\ files' = files
  BY DEF Upload!WriteBytes
<1>5. files \in SUBSET (Upload!Ids \X Exts) /\ index \subseteq Upload!Ids \cup old
  BY DEF UploadInv, UploadTypes
<1>6. CASE Upload!GivesUp(w) /\ files' = files
  BY <1>1, <1>3, <1>4, <1>6, GivesUpStoring
<1>7. CASE files' = files \cup {<<i, "raw">>} /\ Upload!Goes(w, "extract")
  <2> DEFINE status == work[w].status
  <2>1. /\ work' = [work EXCEPT ![w].at = "extract", ![w].status = status]
        /\ status \in Statuses \cup {Missing}
    BY <1>2, <1>7 DEF Upload!Goes, Work
  <2>2. files' \in SUBSET (Upload!Ids \X Exts)
    BY <1>2, <1>5, <1>7 DEF Exts
  <2>3. \A j \in Upload!Ids : j # i => Apart(j)
    BY <1>4, <1>7, OthersFiles DEF Apart
  <2>4. /\ work'[w].at = "extract" /\ work'[w].id = i /\ work'[w].kind = work[w].kind
        /\ work'[w].name = work[w].name
    BY <2>1, <1>2 DEF Work
  <2>5. StoreFits(w)'
    <3>1. <<i, "raw">> \in files' /\ <<i, "txt">> \notin files'
      BY <1>3, <1>7, OthersFiles DEF Exts
    <3>2. i \notin stored' /\ work[w].kind \in Upload!Kinds /\ imported'[i] = work[w].name
          /\ i \notin index'
      BY <1>1, <1>3, <1>4, NotYetKnown
    <3> HIDE DEF i
    <3> QED BY <2>4, <3>1, <3>2 DEF StoreFits
  <2> HIDE DEF status
  <2> QED BY <1>1, <1>3, <1>4, <1>5, <2>1, <2>2, <2>3, <2>5, StoringGoes
<1> QED BY <1>4, <1>6, <1>7

LEMMA TextExtracted ==
    ASSUME UploadInv, NEW w \in Upload!Workers, Upload!Extract(w) PROVE UploadInv'
<1> DEFINE i == work[w].id
           kind == work[w].kind
<1>1. work[w].at = "extract" /\ work[w].at \in StoreStages
  BY DEF Upload!Extract, StoreStages
<1>2. StoreFits(w) /\ i \in Upload!Ids /\ work \in [Upload!Workers -> Work] /\ work[w] \in Work
  BY <1>1, NotYetKnown, WorkOfOne DEF WorkFits
<1>3. /\ i \notin index /\ <<i, "raw">> \in files /\ <<i, "txt">> \notin files
      /\ i \notin stored /\ kind \in Upload!Kinds /\ imported[i] = work[w].name
  BY <1>1, <1>2, NotYetKnown DEF StoreFits
<1>4. UNCHANGED <<manifest, old, todo, index, nextFile, served, stored, unwanted, deleted,
                  imported, torn>>
  BY DEF Upload!Extract
<1>5. files \in SUBSET (Upload!Ids \X Exts) /\ index \subseteq Upload!Ids \cup old
  BY DEF UploadInv, UploadTypes
<1>6. \E to \in {"text", "manifest"}, status \in Statuses :
          /\ work' = [work EXCEPT ![w].at = to, ![w].status = status]
          /\ files' \in {files, files \cup {<<i, "frames">>}}
          /\ to = "text" => /\ kind \in {"text", "pages"} /\ status = "ready"
                            /\ kind = "pages" => files' = files \cup {<<i, "frames">>}
          /\ to = "manifest" /\ status = "ready" => kind = "image"
          /\ to = "manifest" /\ kind \in {"text", "pages"} => status # "ready"
  <2>1. CASE kind = "image"
    <3>1. work' = [work EXCEPT ![w].at = "manifest", ![w].status = "ready"] /\ files' = files
      BY <2>1 DEF Upload!Extract
    <3> QED BY <2>1, <3>1 DEF Statuses
  <2>2. CASE kind = "other"
    <3>1. /\ work' = [work EXCEPT ![w].at = "manifest", ![w].status = "unsupported"]
          /\ files' = files
      BY <2>2 DEF Upload!Extract
    <3> QED BY <2>2, <3>1 DEF Statuses
  <2>3. CASE kind = "text"
    <3>1. work' = [work EXCEPT ![w].at = "text", ![w].status = "ready"] /\ files' = files
      BY <2>3 DEF Upload!Extract
    <3> QED BY <2>3, <3>1 DEF Statuses
  <2>4. CASE kind = "pages"
    <3>1. \/ /\ work' = [work EXCEPT ![w].at = "text", ![w].status = "ready"]
             /\ files' = files \cup {<<i, "frames">>}
          \/ /\ work' = [work EXCEPT ![w].at = "manifest", ![w].status = "failed"]
             /\ files' = files
      BY <2>4 DEF Upload!Extract
    <3> QED BY <2>4, <3>1 DEF Statuses
  <2> QED BY <1>3, <2>1, <2>2, <2>3, <2>4 DEF Upload!Kinds
<1>7. PICK to \in {"text", "manifest"}, status \in Statuses :
          /\ work' = [work EXCEPT ![w].at = to, ![w].status = status]
          /\ files' \in {files, files \cup {<<i, "frames">>}}
          /\ to = "text" => /\ kind \in {"text", "pages"} /\ status = "ready"
                            /\ kind = "pages" => files' = files \cup {<<i, "frames">>}
          /\ to = "manifest" /\ status = "ready" => kind = "image"
          /\ to = "manifest" /\ kind \in {"text", "pages"} => status # "ready"
  BY <1>6, Zenon
<1>8. files' \in SUBSET (Upload!Ids \X Exts)
  BY <1>2, <1>5, <1>7 DEF Exts
<1>9. \A j \in Upload!Ids : j # i => Apart(j)
  BY <1>4, <1>7, OthersFiles DEF Apart
<1>10. /\ work'[w].at = to /\ work'[w].id = i /\ work'[w].kind = kind
       /\ work'[w].name = work[w].name /\ work'[w].status = status
  BY <1>2, <1>7 DEF Work
<1>11. StoreFits(w)'
  <2>1. /\ <<i, "raw">> \in files' /\ <<i, "txt">> \notin files'
        /\ to = "text" /\ kind = "pages" => <<i, "frames">> \in files'
    BY <1>3, <1>7, OthersFiles
  <2>2. /\ "txt" \in Upload!Parts(kind) <=> kind \in {"text", "pages"}
        /\ kind = "image" => Upload!Parts(kind) = {}
    BY PartsOfKinds DEF Upload!Parts
  <2> HIDE DEF i, kind
  <2> QED BY <1>3, <1>4, <1>7, <1>10, <2>1, <2>2 DEF StoreFits
<1>12. to \in {"extract", "text", "manifest"} /\ status \in Statuses \cup {Missing}
  BY <1>7
<1>13. i \notin index'
  BY <1>3, <1>4
<1> HIDE DEF i
<1>14. i = work[w].id
  BY DEF i
<1> QED BY <1>1, <1>4, <1>5, <1>7, <1>8, <1>9, <1>11, <1>12, <1>13, <1>14, StoringGoes

LEMMA TextWritten ==
    ASSUME UploadInv, NEW w \in Upload!Workers, Upload!WriteText(w) PROVE UploadInv'
<1> DEFINE i == work[w].id
           kind == work[w].kind
<1>1. work[w].at = "text" /\ work[w].at \in StoreStages
  BY DEF Upload!WriteText, StoreStages
<1>2. StoreFits(w) /\ i \in Upload!Ids /\ work \in [Upload!Workers -> Work] /\ work[w] \in Work
  BY <1>1, NotYetKnown, WorkOfOne DEF WorkFits
<1>3. /\ i \notin index /\ <<i, "raw">> \in files /\ work[w].status = "ready"
      /\ "txt" \in Upload!Parts(kind) /\ (kind = "pages" => <<i, "frames">> \in files)
      /\ i \notin stored /\ kind \in Upload!Kinds /\ imported[i] = work[w].name
  BY <1>1, <1>2, NotYetKnown DEF StoreFits
<1>4. UNCHANGED <<manifest, old, todo, nextFile, served, stored, unwanted, deleted,
                  imported, torn>>
  BY DEF Upload!WriteText
<1>5. files \in SUBSET (Upload!Ids \X Exts) /\ index \subseteq Upload!Ids \cup old
  BY DEF UploadInv, UploadTypes
<1>6. \E status \in {"ready", "failed"} :
          /\ work' = [work EXCEPT ![w].at = "manifest", ![w].status = status]
          /\ index' = IF status = "ready" THEN index \cup {i} ELSE index
          /\ status = "ready" => files' = files \cup {<<i, "txt">>}
          /\ status = "failed" => files' \in {files \ {<<i, "frames">>},
                                             (files \cup {<<i, "txt">>}) \ {<<i, "frames">>}}
  <2>1. CASE /\ files' = files \cup {<<i, "txt">>} /\ index' = index \cup {i}
             /\ Upload!Goes(w, "manifest")
    <3>1. work' = [work EXCEPT ![w].at = "manifest", ![w].status = "ready"]
      BY <1>2, <1>3, <2>1 DEF Upload!Goes, Work
    <3> QED BY <2>1, <3>1
  <2>2. CASE /\ files' \in {files \ {<<i, "frames">>},
                            (files \cup {<<i, "txt">>}) \ {<<i, "frames">>}}
             /\ work' = [work EXCEPT ![w].at = "manifest", ![w].status = "failed"]
             /\ index' = index
    BY <2>2
  <2> QED BY <2>1, <2>2 DEF Upload!WriteText
<1>7. PICK status \in {"ready", "failed"} :
          /\ work' = [work EXCEPT ![w].at = "manifest", ![w].status = status]
          /\ index' = IF status = "ready" THEN index \cup {i} ELSE index
          /\ status = "ready" => files' = files \cup {<<i, "txt">>}
          /\ status = "failed" => files' \in {files \ {<<i, "frames">>},
                                             (files \cup {<<i, "txt">>}) \ {<<i, "frames">>}}
  BY <1>6, Zenon
<1>8. files' \in SUBSET (Upload!Ids \X Exts) /\ index' \subseteq Upload!Ids \cup old
  BY <1>2, <1>5, <1>7 DEF Exts
<1>9. \A j \in Upload!Ids : j # i => Apart(j)
  BY <1>4, <1>7, OthersFiles DEF Apart
<1>10. /\ work'[w].at = "manifest" /\ work'[w].id = i /\ work'[w].kind = kind
       /\ work'[w].name = work[w].name /\ work'[w].status = status
  BY <1>2, <1>7 DEF Work
<1>11. StoreFits(w)'
  <2>1. /\ <<i, "raw">> \in files'
        /\ status = "ready" => /\ <<i, "txt">> \in files'
                               /\ kind = "pages" => <<i, "frames">> \in files'
    BY <1>3, <1>7, OthersFiles
  <2>2. \A ext \in Upload!Parts(kind) : ext = "txt" \/ (ext = "frames" /\ kind = "pages")
    BY PartsOfKinds
  <2>3. i \in index' <=> status = "ready"
    BY <1>3, <1>7
  <2> HIDE DEF i, kind
  <2> QED BY <1>3, <1>4, <1>7, <1>10, <2>1, <2>2, <2>3 DEF StoreFits, Statuses
<1>12. status \in Statuses \cup {Missing} /\ "manifest" \in {"extract", "text", "manifest"}
  BY <1>7 DEF Statuses
<1> HIDE DEF i
<1>14. i = work[w].id
  BY DEF i
<1> QED BY <1>1, <1>4, <1>5, <1>7, <1>8, <1>9, <1>11, <1>12, <1>14, StoringGoes

LEMMA ManifestWritten ==
    ASSUME UploadInv, NEW w \in Upload!Workers, Upload!WriteManifest(w) PROVE UploadInv'
<1>0. PICK i : i = work[w].id
  OBVIOUS
<1> DEFINE kind == work[w].kind
           says == [kind |-> kind, status |-> work[w].status]
           job == IF w = Starter THEN [work[w] EXCEPT !.at = "replace"] ELSE Upload!Idle
<1>1. work[w].at = "manifest" /\ work[w].at \in StoreStages
  BY DEF Upload!WriteManifest, StoreStages
<1>2. /\ StoreFits(w) /\ i \in Upload!Ids /\ i < nextFile /\ i \in Nat /\ nextFile \in Nat
      /\ work \in [Upload!Workers -> Work] /\ work[w] \in Work /\ Busy(w)
      /\ (w = Starter => w \notin Handlers) /\ (w # Starter => w \in Handlers)
  BY <1>0, <1>1, NotYetKnown, WorkOfOne DEF WorkFits
<1>3. /\ <<i, "raw">> \in files /\ work[w].status \in Statuses
      /\ i \in index <=> work[w].status = "ready" /\ "txt" \in Upload!Parts(kind)
      /\ work[w].status = "ready" => \A ext \in Upload!Parts(kind) : <<i, ext>> \in files
      /\ <<i, "txt">> \in files => "txt" \in Upload!Parts(kind)
      /\ kind \in Upload!Kinds /\ imported[i] = work[w].name
      /\ i \notin stored \cup unwanted \cup deleted
  BY <1>0, <1>1, <1>2, NotYetKnown DEF StoreFits
<1>4. /\ UNCHANGED <<old, todo, nextFile, served, unwanted, deleted, imported, torn>>
      /\ \/ /\ manifest' = [manifest EXCEPT ![i] = says] /\ stored' = stored \cup {i}
            /\ (IF w = Starter THEN Upload!Goes(w, "replace") ELSE Upload!Rests(w))
            /\ UNCHANGED <<files, index>>
         \/ /\ index' = index \ {i} /\ files' = {f \in files : f[1] # i}
            /\ Upload!GivesUp(w) /\ UNCHANGED <<manifest, stored>>
  BY <1>0 DEF Upload!WriteManifest, Upload!Says
<1>5. CASE /\ index' = index \ {i} /\ files' = {f \in files : f[1] # i}
           /\ Upload!GivesUp(w) /\ UNCHANGED <<manifest, stored>>
  <2>1. /\ files' \subseteq files /\ (\A f \in files : f[1] # i => f \in files')
        /\ i \notin index' /\ index' \subseteq index /\ (\A j \in index : j # i => j \in index')
    BY <1>5
  <2> QED BY <1>0, <1>1, <1>4, <1>5, <2>1, GivesUpStoring
<1>6. CASE /\ manifest' = [manifest EXCEPT ![i] = says] /\ stored' = stored \cup {i}
           /\ (IF w = Starter THEN Upload!Goes(w, "replace") ELSE Upload!Rests(w))
           /\ UNCHANGED <<files, index>>
  <2>1. /\ job \in Work /\ work' = [work EXCEPT ![w] = job]
        /\ w = Starter => job.at = "replace" /\ job.id = i /\ job.name = work[w].name
        /\ w # Starter => job.at = "idle"
    BY <1>0, <1>2, <1>6, Idles DEF Work, Upload!Goes
  <2>2. says \in Manifest /\ says # Missing
    BY <1>3, UploadAssumption DEF Manifest, Statuses
  <2>3. manifest \in [Upload!Ids -> Manifest \cup {Missing}]
    BY DEF UploadInv, UploadTypes
  <2> HIDE DEF job
  <2>4. /\ manifest' \in [Upload!Ids -> Manifest \cup {Missing}] /\ manifest'[i] = says
        /\ \A j \in Upload!Ids : j # i => manifest'[j] = manifest[j]
    BY <1>2, <1>6, <2>2, <2>3
  <2>5. \A j \in Upload!Ids : j # i => Apart(j)
    BY <1>4, <1>6, <2>4 DEF Apart
  <2>6. work'[w] = job
    BY <1>2, <2>1
  <2>7. says.kind = kind /\ says.status = work[w].status
    OBVIOUS
  <2> HIDE DEF says, kind
  <2>8. i = work[w].id /\ kind = work[w].kind
    BY <1>0 DEF kind
  <2>9. WorkFits(w)'
    <3>1. CASE w = Starter
      <4>1. i \in stored' /\ imported'[i] = work'[w].name /\ i < nextFile'
        BY <1>2, <1>3, <1>4, <1>6, <2>1, <2>6, <3>1
      <4> QED BY <1>2, <2>1, <2>6, <3>1, <4>1
              DEF WorkFits, KnownFits, StoreFits, StoreStages, DeleteStages, ReadStages
    <3>2. CASE w # Starter
      <4>1. work'[w].at = "idle"
        BY <2>1, <2>6, <3>2
      <4> QED BY <4>1 DEF WorkFits, StoreFits, KnownFits, Busy, Resting, StoreStages,
                          DeleteStages, ReadStages
    <3> QED BY <3>1, <3>2
  <2>10. IdFits(i)'
    <3>1. ~(i >= nextFile') /\ i < nextFile'
      BY <1>2, <1>4
    <3>2. /\ i \in stored' /\ i \notin unwanted' /\ i \notin deleted'
          /\ manifest'[i] # Missing /\ manifest'[i].kind = kind
          /\ manifest'[i].status = work[w].status
      BY <1>3, <1>4, <1>6, <2>2, <2>4, <2>7
    <3>3. (i \in Texts)' <=> work[w].status = "ready" /\ "txt" \in Upload!Parts(kind)
      BY <1>2, <3>2 DEF Texts
    <3>4. /\ <<i, "raw">> \in files' /\ files' = files
          /\ i \in index' <=> work[w].status = "ready" /\ "txt" \in Upload!Parts(kind)
      BY <1>3, <1>6
    <3> QED BY <1>3, <3>1, <3>2, <3>3, <3>4 DEF IdFits
  <2>11. /\ torn' = FALSE /\ stored \subseteq stored' /\ stored' \subseteq Upload!Ids
         /\ files' \in SUBSET (Upload!Ids \X Exts)
         /\ index' \subseteq Upload!Ids \cup old /\ unwanted' \subseteq Upload!Ids
         /\ deleted' \subseteq Upload!Ids
    BY <1>2, <1>4, <1>6 DEF UploadInv, UploadTypes
  <2>12. /\ job.at \notin Resting => job.id = i
         /\ (w = Starter => job.at \in {"bytes", "extract", "text", "manifest", "import", "replace"})
         /\ (w = Starter /\ job.at # "import" => job.name = work[w].name)
         /\ (w \in Handlers => job.at \notin {"scan", "import", "reindex", "replace"})
         /\ (w \in Handlers /\ job.at \notin StoreStages \cup {"idle"} =>
                  work[w].at \notin StoreStages \cup {"idle"})
         /\ UNCHANGED <<nextFile, served, old, todo, imported>>
    BY <1>2, <1>4, <2>1 DEF Resting
  <2> QED BY <1>2, <2>1, <2>4, <2>5, <2>8, <2>9, <2>10, <2>11, <2>12, BusyGoes, Zenon
<1> QED BY <1>4, <1>5, <1>6

\* A request for a file goes on.
LEMMA RequestOnFile ==
    ASSUME UploadInv, NEW w \in Upload!Workers, NEW i, i = work[w].id,
           work[w].at \in DeleteStages \cup ReadStages \cup {"forget"},
           NEW job \in Work, work' = [work EXCEPT ![w] = job],
           job.at \in DeleteStages \cup ReadStages \cup {"idle"}, job.at # "idle" => job.id = i,
           UNCHANGED <<nextFile, served, old, todo, imported, stored, unwanted>>, torn' = FALSE,
           files' \subseteq files, index' \subseteq index, deleted' \subseteq Upload!Ids,
           manifest' \in [Upload!Ids -> Manifest \cup {Missing}],
           \A j \in Upload!Ids : j # i => Apart(j),
           KnownFits(w)', IdFits(i)'
    PROVE  UploadInv'
<1>1. Busy(w) /\ work[w].at \notin StoreStages \cup {"idle"}
  BY DEF Busy, Resting, DeleteStages, ReadStages, StoreStages
<1>2. /\ work \in [Upload!Workers -> Work] /\ i \in Upload!Ids /\ i < nextFile
      /\ i \in Nat /\ nextFile \in Nat /\ (w # Starter => w \in Handlers)
  BY <1>1, WorkOfOne
<1>3. w # Starter
  BY DEF UploadInv, TurnsFit, StoreStages, Resting, DeleteStages, ReadStages
<1>4. work'[w] = job
  BY <1>2
<1>5. WorkFits(w)'
  <2>1. work'[w].at \notin StoreStages
    BY <1>4 DEF DeleteStages, ReadStages, StoreStages
  <2>2. StoreFits(w)'
    BY <2>1 DEF StoreFits, StoreStages
  <2>3. Busy(w)' => work'[w].id = i
    BY <1>4 DEF Busy, Resting
  <2> QED BY <1>2, <2>2, <2>3 DEF WorkFits
<1>6. /\ files' \in SUBSET (Upload!Ids \X Exts) /\ index' \subseteq Upload!Ids \cup old
      /\ unwanted' \subseteq Upload!Ids /\ stored \subseteq stored' /\ stored' \subseteq Upload!Ids
  BY DEF UploadInv, UploadTypes
<1>7. /\ job.at \notin Resting => job.id = i
      /\ (w = Starter => job.at \in {"bytes", "extract", "text", "manifest", "import", "replace"})
      /\ (w = Starter /\ job.at # "import" => job.name = work[w].name)
      /\ (w \in Handlers => job.at \notin {"scan", "import", "reindex", "replace"})
      /\ (w \in Handlers /\ job.at \notin StoreStages \cup {"idle"} =>
               work[w].at \notin StoreStages \cup {"idle"})
      /\ UNCHANGED <<nextFile, served, old, todo, imported>>
  BY <1>1, <1>3 DEF Resting, DeleteStages, ReadStages
<1> QED BY <1>1, <1>2, <1>5, <1>6, <1>7, BusyGoes, Zenon

LEMMA NobodyIndexes ==
    ASSUME UploadInv, NEW w \in Upload!Workers, Busy(w), NEW i, i = work[w].id,
           work[w].at \notin DeleteStages \cup {"manifest"}
    PROVE  ~Indexing(i)
BY DEF UploadInv, IdsDiffer, Busy, Indexing, Resting, DeleteStages

\* A request ends, or only reads: the file is what it was.
LEMMA FileStays ==
    ASSUME UploadInv, NEW i \in Upload!Ids, ~Indexing(i),
           UNCHANGED <<files, manifest, index, nextFile, served, stored, unwanted, deleted, imported>>
    PROVE  IdFits(i)'
<1>1. IdFits(i)
  BY DEF UploadInv
<1>2. (i \in Texts)' <=> i \in Texts
  BY DEF Texts
<1> QED BY <1>1, <1>2 DEF IdFits

LEMMA FileForgotten ==
    ASSUME UploadInv, NEW w \in Upload!Workers, Upload!ForgetManifest(w) PROVE UploadInv'
<1>0. PICK i : i = work[w].id
  OBVIOUS
<1>1. /\ work[w].at = "forget" /\ Busy(w)
      /\ work[w].at \in DeleteStages \cup ReadStages \cup {"forget"}
      /\ work[w].at \notin DeleteStages \cup {"manifest"}
  BY DEF Upload!ForgetManifest, Busy, Resting, DeleteStages
<1>2. /\ work \in [Upload!Workers -> Work] /\ work[w] \in Work /\ i \in Upload!Ids
      /\ i < nextFile /\ i \in Nat /\ nextFile \in Nat /\ KnownFits(w) /\ IdFits(i)
  BY <1>0, <1>1, WorkOfOne DEF WorkFits
<1>3. i \in unwanted /\ i \notin deleted
  BY <1>0, <1>1, <1>2 DEF KnownFits
<1>4. /\ UNCHANGED <<files, old, todo, index, nextFile, served, stored, unwanted, deleted,
                     imported, torn>>
      /\ \/ manifest' = [manifest EXCEPT ![i] = Missing] /\ Upload!Goes(w, "remove raw")
         \/ UNCHANGED manifest /\ Upload!Rests(w)
  BY <1>0 DEF Upload!ForgetManifest
<1>5. /\ torn' = FALSE /\ deleted' \subseteq Upload!Ids
      /\ manifest \in [Upload!Ids -> Manifest \cup {Missing}]
      /\ files' \subseteq files /\ index' \subseteq index
      /\ UNCHANGED <<nextFile, served, old, todo, imported, stored, unwanted>>
  BY <1>4 DEF UploadInv, UploadTypes
<1>6. CASE manifest' = [manifest EXCEPT ![i] = Missing] /\ Upload!Goes(w, "remove raw")
  <2> DEFINE job == [work[w] EXCEPT !.at = "remove raw"]
  <2>1. /\ job \in Work /\ job.at = "remove raw" /\ job.id = i
        /\ work' = [work EXCEPT ![w] = job]
    BY <1>0, <1>2, <1>6 DEF Work, DeleteStages, Upload!Goes
  <2> HIDE DEF job
  <2>2. /\ manifest' \in [Upload!Ids -> Manifest \cup {Missing}] /\ manifest'[i] = Missing
        /\ \A j \in Upload!Ids : j # i => Apart(j)
    BY <1>2, <1>4, <1>5, <1>6 DEF Apart
  <2>3. work'[w] = job
    BY <1>2, <2>1
  <2>4. KnownFits(w)'
    <3>1. work'[w].id = i /\ work'[w].at = "remove raw" /\ i \in unwanted'
      BY <1>3, <1>4, <2>1, <2>3
    <3> QED BY <2>2, <3>1 DEF KnownFits, ReadStages
  <2>5. IdFits(i)'
    <3>1. Indexing(i)' /\ i \notin Texts'
      BY <2>1, <2>2, <2>3 DEF Indexing, DeleteStages, Texts
    <3>2. i \in stored
      BY <1>2, <1>3 DEF IdFits
    <3>3. i \in stored' /\ i \in unwanted' /\ i \notin deleted' /\ ~(i >= nextFile') /\ i < nextFile'
      <4>1. ~(i >= nextFile)
        BY <1>2
      <4> QED BY <1>2, <1>3, <1>4, <3>2, <4>1
    <3> QED BY <2>2, <3>1, <3>3 DEF IdFits
  <2>6. job.at \in DeleteStages \cup ReadStages \cup {"idle"} /\ (job.at # "idle" => job.id = i)
    BY <2>1 DEF DeleteStages
  <2> QED BY <1>0, <1>1, <1>5, <2>1, <2>2, <2>4, <2>5, <2>6, RequestOnFile, Zenon
<1>7. CASE UNCHANGED manifest /\ Upload!Rests(w)
  <2>1. /\ work' = [work EXCEPT ![w] = Upload!Idle] /\ Upload!Idle \in Work
        /\ Upload!Idle.at = "idle"
    BY <1>7, Idles
  <2>2. work'[w].at = "idle"
    BY <1>2, <2>1
  <2>3. KnownFits(w)'
    BY <2>2 DEF KnownFits, DeleteStages, ReadStages
  <2>4. IdFits(i)'
    BY <1>0, <1>1, <1>2, <1>4, <1>7, NobodyIndexes, FileStays
  <2>5. \A j \in Upload!Ids : j # i => Apart(j)
    BY <1>4, <1>7 DEF Apart
  <2>6. /\ Upload!Idle.at \in DeleteStages \cup ReadStages \cup {"idle"}
        /\ (Upload!Idle.at # "idle" => Upload!Idle.id = i)
        /\ manifest' \in [Upload!Ids -> Manifest \cup {Missing}]
    BY <1>5, <1>7, <2>1
  <2> QED BY <1>0, <1>1, <1>5, <2>1, <2>3, <2>4, <2>5, <2>6, RequestOnFile, Zenon
<1> QED BY <1>4, <1>6, <1>7

LEMMA FileRemoved ==
    ASSUME UploadInv, NEW w \in Upload!Workers, NEW ext \in {"raw", "txt", "frames"},
           Upload!RemoveFile(w, ext)
    PROVE  UploadInv'
<1>0. PICK i : i = work[w].id
  OBVIOUS
<1>1. /\ work[w].at \in DeleteStages /\ Busy(w)
      /\ work[w].at \in DeleteStages \cup ReadStages \cup {"forget"}
      /\ Upload!Then[ext] \in DeleteStages
  <2>1. Upload!Removes[ext] \in DeleteStages /\ Upload!Then[ext] \in DeleteStages
    <3>1. CASE ext = "raw"
      BY <3>1 DEF Upload!Removes, Upload!Then, DeleteStages
    <3>2. CASE ext = "txt"
      BY <3>2 DEF Upload!Removes, Upload!Then, DeleteStages
    <3>3. CASE ext = "frames"
      BY <3>3 DEF Upload!Removes, Upload!Then, DeleteStages
    <3> QED BY <3>1, <3>2, <3>3
  <2>2. work[w].at \in DeleteStages
    BY <2>1 DEF Upload!RemoveFile
  <2> QED BY <2>1, <2>2 DEF Busy, Resting, DeleteStages
<1>2. /\ work \in [Upload!Workers -> Work] /\ work[w] \in Work /\ i \in Upload!Ids
      /\ i < nextFile /\ i \in Nat /\ nextFile \in Nat /\ KnownFits(w) /\ IdFits(i)
  BY <1>0, <1>1, WorkOfOne DEF WorkFits
<1>3. i \in unwanted /\ manifest[i] = Missing
  BY <1>0, <1>1, <1>2 DEF KnownFits
<1>4. /\ UNCHANGED <<manifest, old, todo, index, nextFile, served, stored, unwanted, deleted,
                     imported, torn>>
      /\ files' = files \ {<<i, ext>>} /\ Upload!Goes(w, Upload!Then[ext])
  BY <1>0 DEF Upload!RemoveFile
<1>5. /\ torn' = FALSE /\ deleted' \subseteq Upload!Ids
      /\ manifest' \in [Upload!Ids -> Manifest \cup {Missing}]
      /\ files' \subseteq files /\ index' \subseteq index
      /\ UNCHANGED <<nextFile, served, old, todo, imported, stored, unwanted>>
  BY <1>4 DEF UploadInv, UploadTypes
<1> DEFINE to == Upload!Then[ext]
           job == [work[w] EXCEPT !.at = to]
<1>6. /\ job \in Work /\ job.at = to /\ job.id = i /\ work' = [work EXCEPT ![w] = job]
  BY <1>0, <1>1, <1>2, <1>4 DEF Work, Upload!Goes
<1>7. to \in DeleteStages
  BY <1>1
<1> HIDE DEF job, to
<1>8. \A j \in Upload!Ids : j # i => Apart(j)
  BY <1>4, OthersFiles DEF Apart
<1>9. work'[w] = job
  BY <1>2, <1>6
<1>10. KnownFits(w)'
  <2>1. work'[w].id = i /\ work'[w].at \in DeleteStages /\ i \in unwanted' /\ manifest'[i] = Missing
    BY <1>3, <1>4, <1>6, <1>7, <1>9
  <2>2. work'[w].at \notin ReadStages \cup {"forget", "read frames", "replace"}
    BY <2>1 DEF ReadStages, DeleteStages
  <2> QED BY <2>1, <2>2 DEF KnownFits
<1>11. IdFits(i)'
  <2>1. Indexing(i)' /\ i \notin Texts'
    BY <1>3, <1>4, <1>6, <1>7, <1>9 DEF Indexing, Texts
  <2>2. /\ i \in stored' /\ i \in unwanted' /\ ~(i >= nextFile') /\ i < nextFile'
        /\ manifest'[i] = Missing /\ (i \in deleted' => i \notin index')
    BY <1>2, <1>3, <1>4 DEF IdFits
  <2> QED BY <2>1, <2>2 DEF IdFits
<1>12. job.at \in DeleteStages \cup ReadStages \cup {"idle"} /\ (job.at # "idle" => job.id = i)
  BY <1>6, <1>7
<1> QED BY <1>0, <1>1, <1>5, <1>6, <1>8, <1>10, <1>11, <1>12, RequestOnFile, Zenon

LEMMA FileUnindexed ==
    ASSUME UploadInv, NEW w \in Upload!Workers, Upload!Unindex(w) PROVE UploadInv'
<1>0. PICK i : i = work[w].id
  OBVIOUS
<1>1. /\ work[w].at \in DeleteStages /\ Busy(w)
      /\ work[w].at \in DeleteStages \cup ReadStages \cup {"forget"}
  BY DEF Upload!Unindex, Busy, Resting, DeleteStages
<1>2. /\ work \in [Upload!Workers -> Work] /\ i \in Upload!Ids
      /\ i < nextFile /\ i \in Nat /\ nextFile \in Nat /\ KnownFits(w) /\ IdFits(i)
  BY <1>0, <1>1, WorkOfOne DEF WorkFits
<1>3. i \in unwanted /\ manifest[i] = Missing
  BY <1>0, <1>1, <1>2 DEF KnownFits
<1>4. /\ UNCHANGED <<files, manifest, old, todo, nextFile, served, stored, unwanted,
                     imported, torn>>
      /\ index' = index \ {i} /\ deleted' = deleted \cup {i} /\ Upload!Rests(w)
  BY <1>0 DEF Upload!Unindex
<1>5. /\ torn' = FALSE /\ deleted' \subseteq Upload!Ids
      /\ manifest' \in [Upload!Ids -> Manifest \cup {Missing}]
      /\ files' \subseteq files /\ index' \subseteq index
      /\ UNCHANGED <<nextFile, served, old, todo, imported, stored, unwanted>>
  BY <1>2, <1>4 DEF UploadInv, UploadTypes
<1>6. /\ work' = [work EXCEPT ![w] = Upload!Idle] /\ Upload!Idle \in Work
      /\ Upload!Idle.at = "idle"
  BY <1>4, Idles
<1>7. work'[w].at = "idle"
  BY <1>2, <1>6
<1>8. KnownFits(w)'
  BY <1>7 DEF KnownFits, DeleteStages, ReadStages
<1>9. IdFits(i)'
  <2>1. i \notin Texts' /\ i \notin index'
    BY <1>3, <1>4 DEF Texts
  <2>2. /\ i \in stored' /\ i \in unwanted' /\ ~(i >= nextFile') /\ i < nextFile'
        /\ manifest'[i] = Missing
    BY <1>2, <1>3, <1>4 DEF IdFits
  <2> QED BY <2>1, <2>2 DEF IdFits
<1>10. \A j \in Upload!Ids : j # i => Apart(j)
  BY <1>4 DEF Apart
<1>11. /\ Upload!Idle.at \in DeleteStages \cup ReadStages \cup {"idle"}
       /\ (Upload!Idle.at # "idle" => Upload!Idle.id = i)
  BY <1>6
<1> QED BY <1>0, <1>1, <1>5, <1>6, <1>8, <1>9, <1>10, <1>11, RequestOnFile, Zenon

\* A message reads on, or has read.
LEMMA ReadGoes ==
    ASSUME UploadInv, NEW w \in Upload!Workers, work[w].at \in ReadStages,
           NEW job \in Work, work' = [work EXCEPT ![w] = job],
           job.at \in {"read frames", "idle"},
           job.at = "read frames" => /\ job.id = work[w].id /\ job.kind = work[w].kind
                                     /\ Upload!Parts(job.kind) \subseteq job.got \cup {"frames"},
           UNCHANGED <<files, manifest, old, todo, index, nextFile, served, stored, unwanted,
                       deleted, imported>>, torn' = FALSE
    PROVE  UploadInv'
<1>0. PICK i : i = work[w].id
  OBVIOUS
<1>1. /\ Busy(w) /\ work[w].at \in DeleteStages \cup ReadStages \cup {"forget"}
      /\ work[w].at \notin DeleteStages \cup {"manifest"}
  BY DEF Busy, Resting, DeleteStages, ReadStages
<1>2. /\ work \in [Upload!Workers -> Work] /\ i \in Upload!Ids /\ KnownFits(w)
  BY <1>0, <1>1, WorkOfOne DEF WorkFits
<1>3. manifest[i] # Missing /\ manifest[i].status = "ready" /\ work[w].kind = manifest[i].kind
  BY <1>0, <1>2 DEF KnownFits
<1>4. work'[w] = job
  BY <1>2
<1>5. KnownFits(w)'
  BY <1>0, <1>3, <1>4 DEF KnownFits, DeleteStages, ReadStages
<1>6. IdFits(i)'
  BY <1>0, <1>1, <1>2, NobodyIndexes, FileStays
<1>7. \A j \in Upload!Ids : j # i => Apart(j)
  BY DEF Apart
<1>8. /\ files' \subseteq files /\ index' \subseteq index /\ deleted' \subseteq Upload!Ids
      /\ manifest' \in [Upload!Ids -> Manifest \cup {Missing}]
      /\ UNCHANGED <<nextFile, served, old, todo, imported, stored, unwanted>>
  BY DEF UploadInv, UploadTypes
<1>9. job.at \in DeleteStages \cup ReadStages \cup {"idle"} /\ (job.at # "idle" => job.id = i)
  BY <1>0 DEF ReadStages
<1> QED BY <1>0, <1>1, <1>5, <1>6, <1>7, <1>8, <1>9, RequestOnFile, Zenon

LEMMA MessageReads ==
    ASSUME UploadInv, NEW w \in Upload!Workers, Upload!ReadContent(w) \/ Upload!ReadFrames(w)
    PROVE  UploadInv'
<1> DEFINE i == work[w].id
           kind == work[w].kind
<1>1. work[w].at \in ReadStages
  BY DEF Upload!ReadContent, Upload!ReadFrames, ReadStages
<1>2. /\ Busy(w) /\ work \in [Upload!Workers -> Work] /\ work[w] \in Work
      /\ i \in Upload!Ids /\ KnownFits(w) /\ IdFits(i)
  <2>1. Busy(w)
    BY <1>1 DEF Busy, ReadStages, Resting
  <2> QED BY <2>1, WorkOfOne DEF WorkFits
<1>3. manifest[i] # Missing /\ manifest[i].status = "ready" /\ kind = manifest[i].kind
  BY <1>1, <1>2 DEF KnownFits
<1>4. torn = FALSE
  BY DEF UploadInv, UploadTypes
<1>5. Upload!Idle \in Work /\ Upload!Idle.at = "idle"
  BY Idles
<1>6. CASE Upload!ReadContent(w)
  <2> DEFINE content == IF kind = "image" THEN "raw" ELSE "txt"
             job == [work[w] EXCEPT !.at = "read frames", !.got = {content}]
  <2>1. /\ UNCHANGED <<files, manifest, old, todo, index, nextFile, served, stored, unwanted,
                       deleted, imported>>
        /\ torn' = FALSE
    BY <1>4, <1>6 DEF Upload!ReadContent
  <2>2. IF <<i, content>> \in files
        THEN work' = [work EXCEPT ![w].at = "read frames", ![w].got = {content}]
        ELSE IF kind = "pages" THEN Upload!Goes(w, "read frames") ELSE Upload!Rests(w)
    BY <1>6 DEF Upload!ReadContent
  <2>3. kind = "pages" => <<i, content>> \in files
    <3>1. kind = "pages" => "txt" \in Upload!Parts(kind)
      BY PartsOfKinds
    <3> QED BY <1>2, <1>3, <3>1 DEF IdFits
  <2>4. CASE <<i, content>> \in files
    <3>1. /\ job \in Work /\ job.at = "read frames" /\ job.id = work[w].id
          /\ job.kind = work[w].kind /\ job.got = {content} /\ work' = [work EXCEPT ![w] = job]
      BY <1>2, <2>2, <2>4 DEF Work, ReadStages, Exts
    <3>2. Upload!Parts(kind) \subseteq {content} \cup {"frames"}
      BY PartsOfKinds
    <3> HIDE DEF job, content
    <3>3. Upload!Parts(job.kind) \subseteq job.got \cup {"frames"}
      BY <3>1, <3>2
    <3> QED BY <1>1, <2>1, <3>1, <3>3, ReadGoes
  <2>5. CASE <<i, content>> \notin files
    <3>1. work' = [work EXCEPT ![w] = Upload!Idle]
      BY <2>2, <2>3, <2>5, Idles
    <3> QED BY <1>1, <1>5, <2>1, <3>1, ReadGoes
  <2> QED BY <2>4, <2>5
<1>7. CASE Upload!ReadFrames(w)
  <2> DEFINE has == <<i, "frames">> \in files
             got == work[w].got \cup (IF has THEN {"frames"} ELSE {})
  <2>1. /\ UNCHANGED <<files, manifest, old, todo, index, nextFile, served, stored, unwanted,
                       deleted, imported>>
        /\ work' = [work EXCEPT ![w] = Upload!Idle]
        /\ torn' = (torn \/ ((kind = "pages" => has) /\ ~(Upload!Parts(kind) \subseteq got)))
    BY <1>7, Idles DEF Upload!ReadFrames
  <2>2. Upload!Parts(kind) \subseteq work[w].got \cup {"frames"}
    BY <1>2, <1>7 DEF KnownFits, Upload!ReadFrames
  <2>3. (kind = "pages" => has) => Upload!Parts(kind) \subseteq got
    BY <2>2, PartsOfKinds
  <2>4. torn' = FALSE
    BY <1>4, <2>1, <2>3
  <2> QED BY <1>1, <1>5, <2>1, <2>4, ReadGoes
<1> QED BY <1>6, <1>7

\* Nobody has a file at the step's end.
LEMMA AllRest ==
    ASSUME UploadTypes', TurnsFit', \A w \in Upload!Workers : work'[w].at \in Resting,
           \A i \in Upload!Ids : IdFits(i)', OldAreKept'
    PROVE  UploadInv'
<1>1. \A w \in Upload!Workers : ~Busy(w)'
  BY DEF Busy
<1>2. \A w \in Upload!Workers : WorkFits(w)'
  BY <1>1 DEF WorkFits, StoreFits, KnownFits, Busy, Resting, StoreStages, DeleteStages, ReadStages
<1> QED BY <1>1, <1>2 DEF UploadInv, IdsDiffer

\* The process dies: what is kept of a file does not depend on who was at it.
LEMMA ProcessDies ==
    ASSUME UploadInv, Upload!Crash PROVE UploadInv'
<1>1. /\ UNCHANGED <<files, manifest, old, todo, nextFile, stored, unwanted, deleted,
                     imported, torn>>
      /\ served' = FALSE /\ index' = {}
      /\ work' = [w \in Upload!Workers |->
             IF w = Starter THEN [Upload!Idle EXCEPT !.at = "scan"] ELSE Upload!Idle]
  BY DEF Upload!Crash
<1>2. /\ Upload!Idle \in Work /\ Upload!Idle.at = "idle"
      /\ [Upload!Idle EXCEPT !.at = "scan"] \in Work
      /\ [Upload!Idle EXCEPT !.at = "scan"].at = "scan"
  BY DEF Upload!Idle, Work, Resting, Exts
<1>3. /\ work' \in [Upload!Workers -> Work]
      /\ \A w \in Upload!Workers : work'[w].at = (IF w = Starter THEN "scan" ELSE "idle")
  BY <1>1, <1>2
<1>4. Starter \in Upload!Workers /\ Handlers \subseteq Upload!Workers
  BY DEF Upload!Workers
<1>5. UploadTypes'
  BY <1>1, <1>3 DEF UploadInv, UploadTypes
<1>6. TurnsFit'
  BY <1>1, <1>3, <1>4, UploadAssumption DEF TurnsFit, Resting, StoreStages
<1>7. ASSUME NEW i \in Upload!Ids PROVE IdFits(i)'
  <2>1. IdFits(i)
    BY DEF UploadInv
  <2> QED BY <1>1, <2>1 DEF IdFits
<1>8. OldAreKept'
  <2>1. work'[Starter].at = "scan"
    BY <1>3, <1>4
  <2>2. OldAreKept
    BY DEF UploadInv
  <2> QED BY <1>1, <2>1, <2>2 DEF OldAreKept, StoreStages
<1>9. \A w \in Upload!Workers : work'[w].at \in Resting
  BY <1>3 DEF Resting
<1> QED BY <1>5, <1>6, <1>7, <1>8, <1>9, AllRest

\* Before the API is served nobody but the starter does anything.
LEMMA StarterIsAlone ==
    ASSUME UploadInv, work[Starter].at \in {"scan", "import", "replace", "reindex"}
    PROVE  /\ served = FALSE \/ ~served
           /\ \A w \in Handlers : work[w].at = "idle"
           /\ Starter \in Upload!Workers /\ Starter \notin Handlers
           /\ Upload!Workers = Handlers \cup {Starter}
           /\ work \in [Upload!Workers -> Work]
<1>1. ~served
  BY DEF UploadInv, TurnsFit
<1> QED BY <1>1, UploadAssumption DEF UploadInv, TurnsFit, UploadTypes, Upload!Workers

\* The starter goes on and has no file.
LEMMA StarterRests ==
    ASSUME UploadInv, work[Starter].at \in {"scan", "import", "replace", "reindex"},
           NEW job \in Work, work' = [work EXCEPT ![Starter] = job],
           job.at \in {"import", "reindex"} \/ (served' /\ job.at = "idle"),
           served' = served \/ job.at = "idle", UploadTypes',
           \A i \in Upload!Ids : IdFits(i)', OldAreKept'
    PROVE  UploadInv'
<1>1. /\ work'[Starter] = job /\ \A w \in Handlers : work'[w].at = "idle"
  BY StarterIsAlone
<1>2. \A w \in Upload!Workers : work'[w].at \in Resting
  BY <1>1, StarterIsAlone DEF Resting
<1>3. TurnsFit'
  <2>1. ~served
    BY StarterIsAlone
  <2> QED BY <1>1, <2>1 DEF TurnsFit, StoreStages, Resting
<1> QED BY <1>2, <1>3, AllRest

LEMMA NothingIndexed ==
    ASSUME UploadInv, work[Starter].at \in {"scan", "import", "replace", "reindex"}, NEW i \in Upload!Ids
    PROVE  ~Indexing(i) /\ IdFits(i)
<1>1. \A w \in Upload!Workers : work[w].at \notin DeleteStages \cup {"manifest"}
  BY StarterIsAlone DEF DeleteStages
<1> QED BY <1>1 DEF Indexing, UploadInv

LEMMA OldAreScanned ==
    ASSUME UploadInv, Upload!ScanUploads PROVE UploadInv'
<1>1. /\ UNCHANGED <<files, manifest, old, nextFile, served, stored, unwanted, deleted,
                     imported, torn>>
      /\ index' = old /\ todo' = old /\ Upload!Goes(Starter, "import")
      /\ work[Starter].at = "scan"
  BY DEF Upload!ScanUploads
<1> DEFINE job == [work[Starter] EXCEPT !.at = "import"]
<1>2. job \in Work /\ job.at = "import" /\ work' = [work EXCEPT ![Starter] = job]
  <2>1. work \in [Upload!Workers -> Work] /\ work[Starter] \in Work
    BY <1>1, StarterIsAlone
  <2> QED BY <1>1, <2>1 DEF Work, Resting, Upload!Goes
<1> HIDE DEF job
<1>3. work'[Starter] = job /\ work' \in [Upload!Workers -> Work]
  BY <1>1, <1>2, StarterIsAlone
<1>4. UploadTypes'
  BY <1>1, <1>3 DEF UploadInv, UploadTypes
<1>5. ASSUME NEW i \in Upload!Ids PROVE IdFits(i)'
  <2>1. IdFits(i) /\ i \notin index' /\ ~served
    BY <1>1, NothingIndexed, StarterIsAlone, UploadAssumption DEF UploadInv, UploadTypes
  <2> QED BY <1>1, <2>1 DEF IdFits
<1>6. OldAreKept'
  <2>1. OldAreKept
    BY DEF UploadInv
  <2> QED BY <1>1, <1>2, <1>3, <2>1 DEF OldAreKept, StoreStages
<1>7. served' = served
  BY <1>1
<1> QED BY <1>1, <1>2, <1>4, <1>5, <1>6, <1>7, StarterRests

LEMMA OldIsReplaced ==
    ASSUME UploadInv, Upload!Replace PROVE UploadInv'
<1> DEFINE name == work[Starter].name
           job == [Upload!Idle EXCEPT !.at = "import"]
<1>1. /\ UNCHANGED <<files, manifest, todo, nextFile, served, stored, unwanted, deleted,
                     imported, torn>>
      /\ index' = index \ {name} /\ old' = old \ {name}
      /\ work[Starter].at = "replace" /\ work' = [work EXCEPT ![Starter] = job]
  BY DEF Upload!Replace
<1>2. job \in Work /\ job.at = "import"
  BY DEF Upload!Idle, Work, Resting, Exts
<1> HIDE DEF job
<1>3. /\ work'[Starter] = job /\ work' \in [Upload!Workers -> Work] /\ ~served
  BY <1>1, <1>2, StarterIsAlone
<1>4. OldAreKept
  BY DEF UploadInv
<1>5. name \in old \ todo /\ todo \subseteq old
  BY <1>1, <1>4 DEF OldAreKept
<1>6. UploadTypes'
  BY <1>1, <1>3 DEF UploadInv, UploadTypes
<1>7. ASSUME NEW i \in Upload!Ids PROVE IdFits(i)'
  <2>1. IdFits(i) /\ ~Indexing(i) /\ (i \in index' => i \in index)
    BY <1>1, NothingIndexed
  <2>2. (i \in Texts)' <=> i \in Texts
    BY <1>1 DEF Texts
  <2>3. ~served'
    BY <1>1, <1>3
  <2> QED BY <1>1, <2>1, <2>2, <2>3 DEF IdFits
<1>8. OldAreKept'
  <2>1. Starter \in Upload!Workers /\ Busy(Starter) /\ KnownFits(Starter)
    BY <1>1, StarterIsAlone, WorkOfOne DEF Busy, Resting, WorkFits
  <2>2. work[Starter].id \in stored /\ imported[work[Starter].id] = name
    BY <1>1, <2>1 DEF KnownFits
  <2>3. \A n \in OldNames \ old' : (\E i \in Upload!Ids : imported'[i] = n) =>
            \E i \in stored' : imported'[i] = n
    BY <1>1, <1>4, <2>2 DEF OldAreKept
  <2>4. todo' \subseteq old'
    BY <1>1, <1>5
  <2> QED BY <1>2, <1>3, <2>3, <2>4 DEF OldAreKept, StoreStages
<1>9. served' = served
  BY <1>1
<1> QED BY <1>1, <1>2, <1>6, <1>7, <1>8, <1>9, StarterRests

LEMMA TextsAreIndexed ==
    ASSUME UploadInv, Upload!Reindex PROVE UploadInv'
<1>1. /\ UNCHANGED <<files, manifest, old, todo, nextFile, stored, unwanted, deleted,
                     imported, torn>>
      /\ index' = index \cup Upload!Indexable /\ served' = TRUE
      /\ work[Starter].at = "reindex" /\ work' = [work EXCEPT ![Starter] = Upload!Idle]
  BY Idles DEF Upload!Reindex
<1>2. Upload!Idle \in Work /\ Upload!Idle.at = "idle"
  BY Idles
<1>3. work'[Starter] = Upload!Idle /\ work' \in [Upload!Workers -> Work]
  BY <1>1, <1>2, StarterIsAlone
<1>4. \A i \in Upload!Ids : i \in Upload!Indexable <=> i \in Texts
  <2> SUFFICES ASSUME NEW i \in Upload!Ids PROVE i \in Upload!Indexable <=> i \in Texts
    OBVIOUS
  <2>1. IdFits(i)
    BY DEF UploadInv
  <2>2. /\ manifest[i] # Missing /\ manifest[i].status = "ready" =>
              \A ext \in Upload!Parts(manifest[i].kind) : <<i, ext>> \in files
        /\ manifest[i] # Missing /\ <<i, "txt">> \in files => "txt" \in Upload!Parts(manifest[i].kind)
    BY <2>1 DEF IdFits
  <2> QED BY <2>2 DEF Upload!Indexable, Upload!WithText, Texts
<1>5. UploadTypes'
  BY <1>1, <1>3 DEF UploadInv, UploadTypes, Upload!Indexable, Upload!WithText
<1>6. ASSUME NEW i \in Upload!Ids PROVE IdFits(i)'
  <2>1. IdFits(i) /\ ~Indexing(i)
    BY <1>1, NothingIndexed
  <2>2. (i \in Texts)' <=> i \in Texts
    BY <1>1 DEF Texts
  <2>3. i \in index' <=> i \in Texts
    BY <1>1, <1>4, <2>1 DEF IdFits
  <2>4. /\ i \in deleted => i \notin Texts
        /\ i >= nextFile => i \notin Texts
    <3>1. i \in Nat /\ nextFile \in Nat
      BY DEF UploadInv, UploadTypes, Upload!Ids
    <3>2. i \in stored => ~(i >= nextFile)
      BY <2>1, <3>1 DEF IdFits
    <3> QED BY <2>1, <3>2 DEF IdFits, Texts
  <2>5. i \in Upload!Ids /\ (i >= nextFile' => i >= nextFile) /\ (i < nextFile => i < nextFile')
    BY <1>1
  <2> HIDE DEF Texts
  <2> QED BY <1>1, <2>1, <2>2, <2>3, <2>4, <2>5 DEF IdFits
<1>7. OldAreKept'
  <2>1. OldAreKept
    BY DEF UploadInv
  <2> QED BY <1>1, <1>2, <1>3, <2>1 DEF OldAreKept, StoreStages
<1> QED BY <1>1, <1>2, <1>5, <1>6, <1>7, StarterRests

\* A worker takes a new file, or one that is known.
LEMMA FileTaken ==
    ASSUME UploadInv, NEW w \in Upload!Workers, NEW i \in Upload!Ids, NEW job \in Work,
           ~Busy(w), work' = [work EXCEPT ![w] = job], job.at \notin Resting, job.id = i,
           \/ w \in Handlers /\ served /\ job.at \in {"bytes", "forget", "read"}
           \/ w = Starter /\ work[w].at = "import" /\ job.at = "bytes",
           job.at # "bytes" => \A v \in Handlers : work[v].at \in StoreStages \cup {"idle"},
           IF job.at = "bytes" THEN i = nextFile ELSE manifest[i] # Missing,
           \A j \in Upload!Ids : j # i => Apart(j),
           nextFile' \in {nextFile, nextFile + 1}, served' = served,
           UploadTypes', WorkFits(w)', IdFits(i)', OldAreKept'
    PROVE  UploadInv'
<1>1. ASSUME NEW v \in Upload!Workers, v # w, Busy(v) PROVE work[v].id # i
  <2>0. /\ WorkFits(v) /\ work[v] \in Work /\ IdFits(i) /\ i \in Nat /\ nextFile \in Nat
        /\ work[v].id \in Nat /\ work[v].id < nextFile
    BY <1>1, WorkOfOne DEF UploadInv
  <2>1. CASE job.at = "bytes"
    BY <2>0, <2>1
  <2>2. CASE job.at # "bytes"
    <3>1. i \in stored /\ w \in Handlers /\ served
      BY <2>0, <2>2 DEF IdFits
    <3>2. v \in Handlers
      BY <1>1, <3>1, UploadAssumption DEF UploadInv, TurnsFit, Upload!Workers, Busy, Resting
    <3>3. work[v].at \in StoreStages
      BY <1>1, <2>2, <3>2 DEF Busy, Resting
    <3> QED BY <2>0, <3>1, <3>3 DEF WorkFits, StoreFits
  <2> QED BY <2>1, <2>2
<1>2. /\ (Busy(w) => work[w].id = i) /\ (job.at \notin Resting => job.id = i)
      /\ (work[w].at # "idle" \/ (w \in Handlers /\ served))
      /\ (w = Starter => job.at \in {"bytes", "extract", "text", "manifest", "import", "replace"})
      /\ (w \in Handlers => job.at \notin {"scan", "import", "reindex", "replace"})
  BY UploadAssumption
<1>3. w \in Handlers /\ job.at \notin StoreStages \cup {"idle"} =>
         \/ work[w].at \notin StoreStages \cup {"idle"}
         \/ \A v \in Handlers : work[v].at \in StoreStages \cup {"idle"}
  BY DEF StoreStages
<1>4. \A v \in Upload!Workers : v # w /\ Busy(v) => work[v].id # i
  BY <1>1
<1> QED BY <1>2, <1>3, <1>4, OneFile, Zenon

\* A file is stored under a new id, by a client or for an old one.
LEMMA StoringBegins ==
    ASSUME UploadInv, NEW w \in Upload!Workers, NEW kind \in Upload!Kinds,
           NEW name \in OldNames \cup {Missing}, Upload!StoreBegin(w, kind, name),
           \/ w \in Handlers /\ served /\ work[w].at = "idle" /\ name = Missing /\ todo' = todo
           \/ w = Starter /\ work[w].at = "import" /\ name \in todo /\ todo' = todo \ {name}
    PROVE  UploadInv'
<1>0. PICK i : i = nextFile
  OBVIOUS
<1> DEFINE job == [Upload!Idle EXCEPT !.at = "bytes", !.id = nextFile, !.kind = kind,
                                      !.name = name]
<1>1. /\ i \in Upload!Ids /\ nextFile' = nextFile + 1 /\ work' = [work EXCEPT ![w] = job]
      /\ imported' = [imported EXCEPT ![i] = name]
      /\ UNCHANGED <<files, manifest, old, index, served, stored, unwanted, deleted, torn>>
  BY <1>0 DEF Upload!StoreBegin
<1>2. /\ job \in Work /\ job.at = "bytes" /\ job.id = i /\ job.kind = kind /\ job.name = name
  BY <1>0, <1>1 DEF Upload!Idle, Work, StoreStages, Exts
<1> HIDE DEF job
<1>3. /\ work \in [Upload!Workers -> Work] /\ i \in Nat /\ nextFile \in Nat
      /\ imported \in [Upload!Ids -> OldNames \cup {Missing}]
      /\ Starter \in Upload!Workers /\ Starter \notin Handlers
  BY <1>0, UploadAssumption DEF UploadInv, UploadTypes, Upload!Ids, Upload!Workers
<1>4. /\ work'[w] = job /\ work' \in [Upload!Workers -> Work] /\ imported'[i] = name
      /\ imported' \in [Upload!Ids -> OldNames \cup {Missing}]
      /\ \A j \in Upload!Ids : j # i => imported'[j] = imported[j]
  BY <1>1, <1>2, <1>3
<1>5. UploadTypes'
  BY <1>1, <1>3, <1>4 DEF UploadInv, UploadTypes
<1>6. /\ i \notin index /\ imported[i] = Missing /\ (\A ext \in Exts : <<i, ext>> \notin files)
      /\ i \notin stored \cup unwanted \cup deleted /\ manifest[i] = Missing
  <2>1. IdFits(i) /\ i >= nextFile /\ ~(i < nextFile)
    BY <1>0, <1>1, <1>3 DEF UploadInv
  <2> QED BY <2>1 DEF IdFits
<1>7. i < nextFile' /\ ~(i >= nextFile')
  BY <1>0, <1>1, <1>3
<1>8. WorkFits(w)'
  <2>1. KnownFits(w)'
    BY <1>2, <1>4 DEF KnownFits, DeleteStages, ReadStages
  <2>2. StoreFits(w)'
    BY <1>1, <1>2, <1>4, <1>6 DEF StoreFits
  <2> QED BY <1>1, <1>2, <1>4, <1>7, <2>1, <2>2 DEF WorkFits
<1>9. IdFits(i)'
  <2>1. i \notin Texts'
    BY <1>1, <1>6 DEF Texts
  <2> QED BY <1>1, <1>6, <1>7, <2>1 DEF IdFits
<1>10. OldAreKept'
  <2>1. OldAreKept
    BY DEF UploadInv
  <2>2. CASE w = Starter /\ work[w].at = "import" /\ name \in todo /\ todo' = todo \ {name}
    <3>1. todo \subseteq old /\ name \in old /\ todo' \subseteq old'
      BY <1>1, <2>1, <2>2 DEF OldAreKept
    <3>2. work'[Starter].name \in old' \ todo'
      BY <1>1, <1>2, <1>4, <2>2, <3>1
    <3>3. \A n \in OldNames \ old' : (\E j \in Upload!Ids : imported'[j] = n) =>
              \E j \in stored' : imported'[j] = n
      <4> SUFFICES ASSUME NEW n \in OldNames \ old, NEW j \in Upload!Ids, imported'[j] = n
                   PROVE  \E k \in stored : imported'[k] = n
        BY <1>1
      <4>1. j # i /\ imported[j] = n
        BY <1>4, <3>1
      <4>2. PICK k \in stored : imported[k] = n
        BY <2>1, <4>1 DEF OldAreKept
      <4> QED BY <1>4, <1>6, <4>2 DEF UploadInv, UploadTypes
    <3> QED BY <3>1, <3>2, <3>3 DEF OldAreKept
  <2>3. CASE w \in Handlers /\ name = Missing /\ todo' = todo
    <3>1. work'[Starter] = work[Starter]
      BY <1>1, <1>3, <2>3
    <3>2. \A n \in OldNames \ old' : (\E j \in Upload!Ids : imported'[j] = n) =>
              \E j \in stored' : imported'[j] = n
      <4> SUFFICES ASSUME NEW n \in OldNames \ old, NEW j \in Upload!Ids, imported'[j] = n
                   PROVE  \E k \in stored : imported'[k] = n
        BY <1>1
      <4>1. j # i /\ imported[j] = n
        BY <1>4, <2>3, UploadAssumption
      <4>2. PICK k \in stored : imported[k] = n
        BY <2>1, <4>1 DEF OldAreKept
      <4> QED BY <1>4, <1>6, <4>2 DEF UploadInv, UploadTypes
    <3> QED BY <1>1, <2>1, <2>3, <3>1, <3>2 DEF OldAreKept
  <2> QED BY <2>2, <2>3
<1>11. \A j \in Upload!Ids : j # i => Apart(j)
  BY <1>1, <1>4 DEF Apart
<1>12. ~Busy(w) /\ job.at \notin Resting
  BY <1>2 DEF Busy, Resting
<1>13. /\ nextFile' \in {nextFile, nextFile + 1} /\ served' = served
       /\ (job.at # "bytes" => \A v \in Handlers : work[v].at \in StoreStages \cup {"idle"})
       /\ (IF job.at = "bytes" THEN i = nextFile ELSE manifest[i] # Missing)
       /\ \/ w \in Handlers /\ served /\ job.at \in {"bytes", "forget", "read"}
          \/ w = Starter /\ work[w].at = "import" /\ job.at = "bytes"
  BY <1>0, <1>1, <1>2
<1> QED BY <1>1, <1>2, <1>5, <1>8, <1>9, <1>10, <1>11, <1>12, <1>13, FileTaken, Zenon

LEMMA TurnIsFree ==
    ASSUME NEW w, Upload!MyTurn(w)
    PROVE  /\ w \in Handlers /\ w \in Upload!Workers /\ served
           /\ \A v \in Handlers : work[v].at \in StoreStages \cup {"idle"}
BY DEF Upload!MyTurn, Upload!Storing, Upload!StoreSteps, StoreStages, Upload!Workers

LEMMA RequestTakesFile ==
    ASSUME UploadInv, NEW w \in Upload!Workers, NEW i \in Upload!Ids,
           Upload!DeleteBegin(w, i) \/ Upload!SnapshotBegin(w, i)
    PROVE  UploadInv'
<1>1. /\ Upload!MyTurn(w) /\ work[w].at = "idle" /\ manifest[i] # Missing
      /\ UNCHANGED <<files, manifest, old, todo, index, nextFile, served, stored, deleted,
                     imported, torn>>
  BY DEF Upload!DeleteBegin, Upload!SnapshotBegin
<1>2. /\ w \in Handlers /\ served /\ \A v \in Handlers : work[v].at \in StoreStages \cup {"idle"}
  BY <1>1, TurnIsFree
<1>3. /\ work \in [Upload!Workers -> Work] /\ i \in Nat /\ nextFile \in Nat /\ IdFits(i)
      /\ manifest \in [Upload!Ids -> Manifest \cup {Missing}] /\ Starter \notin Handlers
      /\ Starter \in Upload!Workers
  BY UploadAssumption DEF UploadInv, UploadTypes, Upload!Ids, Upload!Workers
<1>4. manifest[i] \in Manifest /\ i \in stored /\ i < nextFile /\ i \notin deleted
  BY <1>1, <1>3 DEF IdFits
<1>5. manifest[i].kind \in Upload!Kinds
  BY <1>4 DEF Manifest
<1>6. \E job \in Work :
          /\ work' = [work EXCEPT ![w] = job] /\ job.id = i
          /\ \/ job.at = "forget" /\ unwanted' = unwanted \cup {i}
             \/ /\ job.at = "read" /\ unwanted' = unwanted
                /\ manifest[i].status = "ready" /\ job.kind = manifest[i].kind
  <2>1. CASE Upload!DeleteBegin(w, i)
    <3> DEFINE job == [Upload!Idle EXCEPT !.at = "forget", !.id = i]
    <3>1. /\ job \in Work /\ job.at = "forget" /\ job.id = i
          /\ work' = [work EXCEPT ![w] = job] /\ unwanted' = unwanted \cup {i}
      BY <2>1 DEF Upload!Idle, Work, Exts, Upload!DeleteBegin
    <3> HIDE DEF job
    <3> QED BY <3>1
  <2>2. CASE Upload!SnapshotBegin(w, i)
    <3> DEFINE job == [Upload!Idle EXCEPT !.at = "read", !.id = i, !.kind = manifest[i].kind]
    <3>1. /\ job \in Work /\ job.at = "read" /\ job.id = i /\ job.kind = manifest[i].kind
          /\ work' = [work EXCEPT ![w] = job] /\ unwanted' = unwanted
          /\ manifest[i].status = "ready"
      BY <1>5, <2>2 DEF Upload!Idle, Work, Exts, ReadStages, Upload!SnapshotBegin
    <3> HIDE DEF job
    <3> QED BY <3>1
  <2> QED BY <2>1, <2>2
<1>7. PICK job \in Work :
          /\ work' = [work EXCEPT ![w] = job] /\ job.id = i
          /\ \/ job.at = "forget" /\ unwanted' = unwanted \cup {i}
             \/ /\ job.at = "read" /\ unwanted' = unwanted
                /\ manifest[i].status = "ready" /\ job.kind = manifest[i].kind
  BY <1>6, Zenon
<1>8. work'[w] = job /\ work' \in [Upload!Workers -> Work] /\ work'[Starter] = work[Starter]
  BY <1>2, <1>3, <1>7
<1>9. UploadTypes'
  BY <1>1, <1>7, <1>8 DEF UploadInv, UploadTypes
<1>10. WorkFits(w)'
  <2>1. StoreFits(w)'
    BY <1>7, <1>8 DEF StoreFits, StoreStages
  <2>2. KnownFits(w)'
    BY <1>1, <1>4, <1>7, <1>8 DEF KnownFits, DeleteStages, ReadStages
  <2> QED BY <1>1, <1>4, <1>7, <1>8, <2>1, <2>2 DEF WorkFits
<1>11. IdFits(i)'
  <2>1. ~Indexing(i)
    <3>1. ASSUME NEW v \in Upload!Workers, work[v].id = i, work[v].at \in DeleteStages \cup {"manifest"}
          PROVE  FALSE
      <4>1. v \in Handlers
        BY <1>2, <3>1 DEF UploadInv, TurnsFit, Upload!Workers, DeleteStages
      <4>2. work[v].at \in StoreStages
        BY <1>2, <3>1, <4>1 DEF DeleteStages
      <4> QED BY <1>4, <3>1, <4>2, NotYetKnown
    <3> QED BY <3>1 DEF Indexing
  <2>2. (i \in Texts)' <=> i \in Texts
    BY <1>1 DEF Texts
  <2>3. (i \in unwanted' => i \in stored') /\ (i \in stored' \ unwanted' => i \in stored \ unwanted)
    BY <1>1, <1>4, <1>7
  <2>4. (i >= nextFile' => i >= nextFile) /\ (i < nextFile => i < nextFile')
    BY <1>1
  <2>5. i \notin deleted'
    BY <1>1, <1>4
  <2> QED BY <1>1, <1>3, <2>1, <2>2, <2>3, <2>4, <2>5 DEF IdFits
<1>12. OldAreKept'
  <2>1. OldAreKept
    BY DEF UploadInv
  <2> QED BY <1>1, <1>8, <2>1 DEF OldAreKept
<1>13. \A j \in Upload!Ids : j # i => Apart(j)
  BY <1>1, <1>7 DEF Apart
<1>14. ~Busy(w) /\ job.at \notin Resting
  BY <1>1, <1>7 DEF Busy, Resting
<1>15. /\ nextFile' \in {nextFile, nextFile + 1} /\ served' = served
       /\ (job.at # "bytes" => \A v \in Handlers : work[v].at \in StoreStages \cup {"idle"})
       /\ (IF job.at = "bytes" THEN i = nextFile ELSE manifest[i] # Missing)
       /\ \/ w \in Handlers /\ served /\ job.at \in {"bytes", "forget", "read"}
          \/ w = Starter /\ work[w].at = "import" /\ job.at = "bytes"
  BY <1>1, <1>2, <1>7
<1> QED BY <1>7, <1>9, <1>10, <1>11, <1>12, <1>13, <1>14, <1>15, FileTaken, Zenon

LEMMA ImportGoes ==
    ASSUME UploadInv, Upload!Import PROVE UploadInv'
<1>0. work[Starter].at = "import" /\ Starter \in Upload!Workers
  BY DEF Upload!Import, Upload!Workers
<1>1. ASSUME NEW n \in todo, Upload!StoreBegin(Starter, "text", n), todo' = todo \ {n}
      PROVE  UploadInv'
  <2>1. n \in OldNames \cup {Missing} /\ "text" \in Upload!Kinds
    BY DEF UploadInv, UploadTypes, Upload!Kinds
  <2> QED BY <1>0, <1>1, <2>1, StoringBegins
<1>2. CASE /\ todo = {} /\ Upload!Goes(Starter, "reindex")
           /\ UNCHANGED <<files, manifest, old, todo, index, nextFile, served, stored,
                          unwanted, deleted, imported, torn>>
  <2> DEFINE job == [work[Starter] EXCEPT !.at = "reindex"]
  <2>1. job \in Work /\ job.at = "reindex" /\ work' = [work EXCEPT ![Starter] = job]
    <3>1. work \in [Upload!Workers -> Work] /\ work[Starter] \in Work
      BY <1>0, StarterIsAlone
    <3> QED BY <1>2, <3>1 DEF Work, Resting, Upload!Goes
  <2> HIDE DEF job
  <2>2. work'[Starter] = job /\ work' \in [Upload!Workers -> Work]
    BY <1>0, <2>1, StarterIsAlone
  <2>3. UploadTypes'
    BY <1>2, <2>2 DEF UploadInv, UploadTypes
  <2>4. ASSUME NEW i \in Upload!Ids PROVE IdFits(i)'
    BY <1>0, <1>2, NothingIndexed, FileStays
  <2>5. OldAreKept'
    <3>1. OldAreKept
      BY DEF UploadInv
    <3> QED BY <1>0, <1>2, <2>1, <2>2, <3>1 DEF OldAreKept, StoreStages
  <2> QED BY <1>0, <1>2, <2>1, <2>3, <2>4, <2>5, StarterRests
<1> QED BY <1>1, <1>2 DEF Upload!Import

LEMMA WorkerSteps ==
    ASSUME UploadInv, NEW w \in Upload!Workers, Upload!Step(w) PROVE UploadInv'
<1>1. CASE Upload!Upload(w)
  <2>1. PICK kind \in Upload!Kinds : Upload!StoreBegin(w, kind, Missing)
    BY <1>1 DEF Upload!Upload
  <2>2. w \in Handlers /\ served /\ work[w].at = "idle" /\ todo' = todo
    BY <1>1 DEF Upload!Upload
  <2>3. Missing \in OldNames \cup {Missing}
    OBVIOUS
  <2> QED BY <2>1, <2>2, <2>3, StoringBegins
<1>2. CASE Upload!WriteBytes(w) \/ Upload!Extract(w) \/ Upload!WriteText(w) \/ Upload!WriteManifest(w)
  BY <1>2, BytesWritten, TextExtracted, TextWritten, ManifestWritten
<1>3. CASE Upload!ForgetManifest(w) \/ Upload!Unindex(w)
  BY <1>3, FileForgotten, FileUnindexed
<1>4. ASSUME NEW ext \in {"raw", "txt", "frames"}, Upload!RemoveFile(w, ext) PROVE UploadInv'
  BY <1>4, FileRemoved
<1>5. CASE Upload!ReadContent(w) \/ Upload!ReadFrames(w)
  BY <1>5, MessageReads
<1>6. ASSUME NEW i \in Upload!Ids, Upload!DeleteBegin(w, i) \/ Upload!SnapshotBegin(w, i)
      PROVE  UploadInv'
  BY <1>6, RequestTakesFile
<1> QED BY <1>1, <1>2, <1>3, <1>4, <1>5, <1>6, Zenon DEF Upload!Step

LEMMA UploadStep == UploadInv /\ [Upload!Next]_(Upload!attachmentsVars) => UploadInv'
<1> SUFFICES ASSUME UploadInv, [Upload!Next]_(Upload!attachmentsVars) PROVE UploadInv'
  OBVIOUS
<1>1. CASE UNCHANGED Upload!attachmentsVars
  <2>1. UNCHANGED <<files, manifest, old, todo, index, nextFile, work, served, stored, unwanted,
                    deleted, imported, torn>>
    BY <1>1 DEF Upload!attachmentsVars
  <2>2. UploadTypes' <=> UploadTypes
    BY <2>1 DEF UploadTypes
  <2>3. (TurnsFit' <=> TurnsFit) /\ (OldAreKept' <=> OldAreKept)
    BY <2>1, Zenon DEF TurnsFit, OldAreKept
  <2>4. \A w \in Upload!Workers : Busy(w)' <=> Busy(w)
    BY <2>1 DEF Busy
  <2>5. IdsDiffer' <=> IdsDiffer
    BY <2>1, <2>4 DEF IdsDiffer
  <2>6. ASSUME NEW w \in Upload!Workers PROVE WorkFits(w)' <=> WorkFits(w)
    <3>1. (StoreFits(w)' <=> StoreFits(w)) /\ (KnownFits(w)' <=> KnownFits(w))
      BY <2>1, Zenon DEF StoreFits, KnownFits
    <3> QED BY <2>1, <2>4, <3>1 DEF WorkFits
  <2>7. ASSUME NEW i \in Upload!Ids PROVE IdFits(i)' <=> IdFits(i)
    <3>1. (i \in Texts)' <=> i \in Texts
      BY <2>1 DEF Texts
    <3>2. Indexing(i)' <=> Indexing(i)
      BY <2>1 DEF Indexing
    <3> QED BY <2>1, <3>1, <3>2, Zenon DEF IdFits
  <2> QED BY <2>2, <2>3, <2>5, <2>6, <2>7, Zenon DEF UploadInv
<1>2. ASSUME NEW w \in Upload!Workers, Upload!Step(w) PROVE UploadInv'
  BY <1>2, WorkerSteps
<1>3. CASE Upload!ScanUploads \/ Upload!Import \/ Upload!Replace \/ Upload!Reindex \/ Upload!Crash
  BY <1>3, OldAreScanned, ImportGoes, OldIsReplaced, TextsAreIndexed, ProcessDies
<1> QED BY <1>1, <1>2, <1>3 DEF Upload!Next

-----------------------------------------------------------------------------
LEMMA OthersLeaveServing ==
    [Next]_vars => /\ [Http!Next]_(Http!httpVars) /\ [Whole!Next]_(Whole!runtimeVars)
                   /\ [Upload!Next]_(Upload!attachmentsVars)
<1>1. [Next]_vars => [Http!Next]_(Http!httpVars)
  BY DEF Next, vars, httpVars, Http!httpVars
<1>2. [Next]_vars => [Whole!Next]_(Whole!runtimeVars)
  BY DEF Next, vars, runtimeVars, Whole!runtimeVars
<1>3. [Next]_vars => [Upload!Next]_(Upload!attachmentsVars)
  BY DEF Next, vars, uploadVars, Upload!attachmentsVars
<1> QED BY <1>1, <1>2, <1>3

\* What handlers, jobs and tasks use exists through start and shutdown, new tasks
\* have new ids and a run on a lane keeps its model (main.c, runtime.c); the stop
\* list holds the sockets to be woken, requests take turns and the server is freed
\* when all is quiet (http_server.c); an uploaded file is known when it is whole,
\* and what was answered stays true through crashes (attachment.c).
THEOREM ServingHolds == Spec => []ServingSafe
<1>1. Init => HttpInv /\ WholeInv /\ UploadInv
  BY HttpStarts, WholeStarts, UploadStarts DEF Init
<1>2. HttpInv /\ WholeInv /\ UploadInv /\ [Next]_vars => HttpInv' /\ WholeInv' /\ UploadInv'
  BY OthersLeaveServing, HttpStep, WholeStep, UploadStep
<1>3. HttpInv /\ WholeInv /\ UploadInv => ServingSafe
  BY HttpInvIsEnough, WholeInvIsEnough, UploadInvIsEnough DEF ServingSafe
<1> QED BY <1>1, <1>2, <1>3, PTL DEF Spec
-----------------------------------------------------------------------------
(* The journal and the checkpoints *)

TaskPlaces == {"queued", "running", "settled", "journaled", "swept", "over"}
Task == [run : Nat, at : TaskPlaces, status : {"QUEUED", "RUNNING", "DONE"},
         seq : Nat, reg : {"add", "check", "done"}]
FlowFields == {"id", "task", "status", "run"}
FlowList(s) == s \in Seq({s[k] : k \in DOMAIN s}) /\ \A k \in DOMAIN s : DOMAIN s[k] = FlowFields

DiskTypes ==
    /\ stage \in Disk!Phases /\ newestTask \in Nat /\ runs \in Nat
    /\ tasks = [t \in DOMAIN tasks |-> tasks[t]] /\ DOMAIN tasks \in SUBSET Disk!Ids
    /\ \A t \in DOMAIN tasks : tasks[t] \in Task
    /\ journal \in Seq(Record \cup {Torn})
    /\ FlowList(flows) /\ (flowFile \notin {Missing, Torn} => FlowList(flowFile))
    /\ slot \in [Disk!Ids -> [{0, 1} -> Checkpoints \cup {Missing, Torn}]]
    /\ saved \in [Disk!Ids -> Checkpoints \cup {Missing}]
    /\ stage = "down" => DOMAIN tasks = {}
    /\ stage # "up" => flows = <<>>

\* An id that was dealt in time, and whose records are whole.
Trusted(i) == i \notin early /\ i \notin lost

\* A task of which only the beginning is written down.
Live(i) == \E k \in Disk!RecordsOf(i) : journal[k].status = "RUNNING" /\ Disk!RecordsOf(i) = {k}

\* What the journal has of a task, by where the task is.
JournalFits(t) ==
    /\ tasks[t].at = "queued" => Disk!RecordsOf(t) = {}
    /\ tasks[t].at \in {"running", "settled"} => Live(t) \/ Disk!RecordsOf(t) = {}
    /\ tasks[t].at = "running" /\ t \notin lost => Live(t)
    /\ tasks[t].at = "journaled" /\ t \notin lost => ~Live(t)

StatusFits(t) == tasks[t].at \in {"queued", "running"} <=> tasks[t].status \notin Disk!Ended

\* Ids are given in turn, above all that the journal has once they were raised.
IdsRise ==
    /\ \A t \in DOMAIN tasks : t < newestTask
    /\ stage \in {"ready", "listening", "up"} => \A i \in Disk!Journaled : i < newestTask

\* Before that, tasks have early ids only; what is to be interrupted was cut off.
Recovers ==
    /\ stage \in {"starting", "recovering"} => DOMAIN tasks \subseteq early
    /\ stage = "recovering" => \A i \in cutOff : i \in Disk!Ids /\ (i \notin early => Live(i))

IsWhole(c) == c \notin {Missing, Torn}

\* Of the two files one has the checkpoint that was written last, the other none
\* that is newer.
Kept(i) ==
    \/ saved[i] = Missing /\ \A s \in {0, 1} : ~IsWhole(slot[i][s])
    \/ /\ saved[i] # Missing
       /\ \E s \in {0, 1} : /\ slot[i][s] = saved[i]
                            /\ IsWhole(slot[i][1 - s]) => slot[i][1 - s].seq < saved[i].seq

\* A task that runs writes to the other file next.
Alternates(t) ==
    \/ tasks[t].seq = 0 /\ saved[t] = Missing
    \/ /\ tasks[t].seq > 0 /\ saved[t] # Missing /\ saved[t].seq = tasks[t].seq
       /\ slot[t][Disk!Slot(tasks[t].seq)] = saved[t]

CheckpointsFit ==
    /\ \A i \in Disk!Ids : Trusted(i) /\ Disk!RecordsOf(i) = {} => slot[i] = Disk!NoCheckpoint
    /\ \A i \in Disk!Ids : Trusted(i) /\ Live(i) => Kept(i)
    /\ \A t \in DOMAIN tasks : Trusted(t) =>
          /\ tasks[t].at = "queued" => tasks[t].seq = 0 /\ saved[t] = Missing
          /\ tasks[t].at = "running" => Alternates(t)

\* A run listed as running is one of a task, which will still be marked.
FlowsFit ==
    \A k \in DOMAIN flows : flows[k].status = "RUNNING" =>
        \/ Disk!SharesTask(k)
        \/ /\ flows[k].task \in DOMAIN tasks /\ tasks[flows[k].task].run = flows[k].run
           /\ tasks[flows[k].task].reg = "check" \/ tasks[flows[k].task].at # "over"

DiskInv ==
    /\ DiskTypes /\ Disk!OneLifePerId
    /\ \A t \in DOMAIN tasks : StatusFits(t) /\ (t \notin early => JournalFits(t))
    /\ IdsRise /\ Recovers /\ CheckpointsFit /\ FlowsFit

LEMMA RecordAdded ==
    ASSUME journal \in Seq(Record \cup {Torn}), NEW r \in Record, journal' = Append(journal, r)
    PROVE  /\ journal' \in Seq(Record \cup {Torn})
           /\ Len(journal) + 1 \notin DOMAIN journal
           /\ journal'[Len(journal) + 1] = r /\ Disk!Last(journal') = r
           /\ \A k \in DOMAIN journal : k <= Len(journal) /\ journal'[k] = journal[k]
           /\ Disk!RecordsOf(r.id)' = Disk!RecordsOf(r.id) \cup {Len(journal) + 1}
           /\ \A i : i # r.id => Disk!RecordsOf(i)' = Disk!RecordsOf(i)
<1> DEFINE n == Len(journal) + 1
<1>1. /\ journal' \in Seq(Record \cup {Torn}) /\ Len(journal) \in Nat
      /\ Len(journal') = n
      /\ DOMAIN journal = 1 .. Len(journal) /\ DOMAIN journal' = 1 .. n
      /\ journal'[n] = r
      /\ \A k \in 1 .. Len(journal) : journal'[k] = journal[k]
  <2>1. r \in Record \cup {Torn}
    OBVIOUS
  <2>2. /\ journal' \in Seq(Record \cup {Torn}) /\ Len(journal') = n
        /\ journal'[n] = r
        /\ \A k \in 1 .. Len(journal) : journal'[k] = journal[k]
    BY <2>1, AppendProperties
  <2>3. Len(journal) \in Nat /\ DOMAIN journal = 1 .. Len(journal)
    BY LenProperties, Zenon
  <2>4. DOMAIN journal' = 1 .. n
    BY <2>2, LenProperties, Zenon
  <2> QED BY <2>2, <2>3, <2>4
<1>2. n \notin DOMAIN journal /\ DOMAIN journal' = DOMAIN journal \cup {n} /\ r # Torn
  BY <1>1, DiskAssumption
<1>3. \A i : Disk!RecordsOf(i)' = Disk!RecordsOf(i) \cup (IF i = r.id THEN {n} ELSE {})
  BY <1>1, <1>2 DEF Disk!RecordsOf
<1>4. Disk!Last(journal') = r
  BY <1>1 DEF Disk!Last
<1>5. /\ Disk!RecordsOf(r.id)' = Disk!RecordsOf(r.id) \cup {n}
      /\ \A i : i # r.id => Disk!RecordsOf(i)' = Disk!RecordsOf(i)
  BY <1>3
<1>6. \A k \in DOMAIN journal : k <= Len(journal) /\ journal'[k] = journal[k]
  BY <1>1
<1> QED BY <1>1, <1>2, <1>4, <1>5, <1>6, Zenon

LEMMA TornAdded ==
    ASSUME journal \in Seq(Record \cup {Torn}), journal' = Append(journal, Torn)
    PROVE  /\ journal' \in Seq(Record \cup {Torn})
           /\ \A k \in DOMAIN journal : journal'[k] = journal[k]
           /\ \A i : Disk!RecordsOf(i)' = Disk!RecordsOf(i)
           /\ Disk!Last(journal') = Torn
<1> DEFINE n == Len(journal) + 1
<1>1. /\ journal' \in Seq(Record \cup {Torn}) /\ Len(journal') = n
      /\ journal'[n] = Torn
      /\ \A k \in 1 .. Len(journal) : journal'[k] = journal[k]
  <2>1. Torn \in Record \cup {Torn}
    OBVIOUS
  <2> QED BY <2>1, AppendProperties
<1>2. Len(journal) \in Nat /\ DOMAIN journal = 1 .. Len(journal)
  BY LenProperties, Zenon
<1>3. DOMAIN journal' = 1 .. n
  BY <1>1, LenProperties, Zenon
<1>4. \A k : k \in DOMAIN journal' /\ journal'[k] # Torn <=> k \in DOMAIN journal /\ journal[k] # Torn
  BY <1>1, <1>2, <1>3
<1>5. \A i : Disk!RecordsOf(i)' = Disk!RecordsOf(i)
  BY <1>1, <1>2, <1>3, <1>4 DEF Disk!RecordsOf
<1>6. Disk!Last(journal') = Torn
  BY <1>1 DEF Disk!Last
<1> QED BY <1>1, <1>2, <1>5, <1>6

LEMMA RecordsInJournal ==
    ASSUME journal \in Seq(Record \cup {Torn}), NEW i
    PROVE  /\ Disk!RecordsOf(i) \subseteq 1 .. Len(journal) /\ Len(journal) \in Nat
           /\ \A k \in Disk!RecordsOf(i) : journal[k] \in Record /\ journal[k].id = i
<1>1. Len(journal) \in Nat /\ DOMAIN journal = 1 .. Len(journal)
  BY LenProperties, Zenon
<1>2. \A k \in 1 .. Len(journal) : journal[k] \in Record \cup {Torn}
  BY ElementOfSeq, Zenon
<1> QED BY <1>1, <1>2 DEF Disk!RecordsOf

\* Of a task whose last record is RUNNING there is no other.
LEMMA UnfinishedIsLive ==
    ASSUME journal \in Seq(Record \cup {Torn}), Disk!OneLifePerId, NEW i \in Disk!Unfinished,
           i \notin early
    PROVE  i \in Disk!Ids /\ Live(i)
<1> DEFINE R == Disk!RecordsOf(i)
<1>1. i \in Disk!Journaled /\ i \in Disk!Ids /\ R # {} /\ Disk!Newest(i).status = "RUNNING"
  BY DEF Disk!Unfinished, Disk!Journaled
<1>2. R \subseteq 1 .. Len(journal) /\ Len(journal) \in Nat
  BY RecordsInJournal
<1>3. \E m \in R : \A k \in R : k <= m
  <2>1. \A k \in R : k \in 0 .. Len(journal)
    BY <1>2
  <2> HIDE DEF R
  <2> QED BY <1>1, <1>2, <2>1, LargestExists
<1>4. PICK m \in R : m = Disk!Max(R) /\ \A k \in R : m >= k
  BY <1>2, <1>3 DEF Disk!Max
<1>5. journal[m].status = "RUNNING"
  BY <1>1, <1>4 DEF Disk!Newest
<1>6. \A k \in R : k = m
  BY <1>1, <1>2, <1>4, <1>5 DEF Disk!OneLifePerId
<1> QED BY <1>1, <1>4, <1>5, <1>6 DEF Live

\* The beginning and the end of a life are added.
LEMMA LifeBegins ==
    ASSUME journal \in Seq(Record \cup {Torn}), Disk!OneLifePerId, NEW r \in Record,
           journal' = Append(journal, r), UNCHANGED early,
           \/ r.id \in early
           \/ Disk!RecordsOf(r.id) = {} \/ (Live(r.id) /\ r.status # "RUNNING")
    PROVE  /\ Disk!OneLifePerId' /\ Disk!RecordsOf(r.id)' # {}
           /\ Live(r.id)' <=> Disk!RecordsOf(r.id) = {} /\ r.status = "RUNNING"
           /\ \A i \in Disk!Ids : i # r.id =>
                 Disk!RecordsOf(i)' = Disk!RecordsOf(i) /\ (Live(i)' <=> Live(i))
<1> DEFINE n == Len(journal) + 1
<1>1. /\ journal'[n] = r
      /\ \A k \in DOMAIN journal : k <= Len(journal) /\ journal'[k] = journal[k]
      /\ Disk!RecordsOf(r.id)' = Disk!RecordsOf(r.id) \cup {n}
      /\ \A i : i # r.id => Disk!RecordsOf(i)' = Disk!RecordsOf(i)
      /\ n \notin DOMAIN journal
  BY RecordAdded, Zenon
<1>2. \A i : Disk!RecordsOf(i) \subseteq DOMAIN journal
  BY DEF Disk!RecordsOf
<1>3. \A i \in Disk!Ids : i # r.id => Live(i)' = Live(i)
  BY <1>1, <1>2 DEF Live
<1>4. Live(r.id)' <=> Disk!RecordsOf(r.id) = {} /\ r.status = "RUNNING"
  <2>1. CASE Disk!RecordsOf(r.id) = {}
    BY <1>1, <2>1 DEF Live
  <2>2. CASE Disk!RecordsOf(r.id) # {}
    BY <1>1, <1>2, <2>2 DEF Live
  <2> QED BY <2>1, <2>2
<1>5. Disk!OneLifePerId'
  <2> SUFFICES ASSUME NEW i \in Disk!Ids, i \notin early, NEW k \in Disk!RecordsOf(i)',
                      NEW l \in Disk!RecordsOf(i)', k < l
               PROVE  journal'[k].status = "RUNNING" /\ journal'[l].status # "RUNNING"
    BY DEF Disk!OneLifePerId, Disk!Journaled
  <2>1. CASE i # r.id
    <3>1. i \in Disk!Journaled /\ k \in Disk!RecordsOf(i) /\ l \in Disk!RecordsOf(i)
      BY <1>1, <2>1 DEF Disk!Journaled
    <3> QED BY <1>1, <1>2, <3>1 DEF Disk!OneLifePerId
  <2>2. CASE i = r.id
    <3>1. CASE Disk!RecordsOf(i) = {}
      BY <1>1, <2>2, <3>1
    <3>2. CASE Live(i) /\ r.status # "RUNNING"
      <4>1. PICK m \in Disk!RecordsOf(i) :
               journal[m].status = "RUNNING" /\ Disk!RecordsOf(i) = {m}
        BY <3>2 DEF Live
      <4>2. k \in {m, n} /\ l \in {m, n} /\ m <= Len(journal) /\ m \in DOMAIN journal
            /\ journal'[m] = journal[m]
        BY <1>1, <1>2, <2>2, <4>1
      <4>3. k = m /\ l = n
        BY <1>1, <4>2, LenProperties
      <4> QED BY <1>1, <3>2, <4>1, <4>2, <4>3
    <3> QED BY <2>2, <3>1, <3>2
  <2> QED BY <2>1, <2>2
<1> QED BY <1>1, <1>3, <1>4, <1>5

\* checkpoint_read gives the checkpoint that was written last.
LEMMA BestIsSaved ==
    ASSUME DiskTypes, NEW i \in Disk!Ids, Kept(i)
    PROVE  Disk!BestCheckpoint(i) = saved[i]
<1> DEFINE whole == {slot[i][s] : s \in {0, 1}} \ {Missing, Torn}
<1>1. /\ slot[i] \in [{0, 1} -> Checkpoints \cup {Missing, Torn}]
      /\ saved[i] \in Checkpoints \cup {Missing}
  BY DEF DiskTypes
<1>2. CASE saved[i] = Missing /\ \A s \in {0, 1} : ~IsWhole(slot[i][s])
  <2>1. whole = {}
    BY <1>2 DEF IsWhole
  <2> QED BY <1>2, <2>1 DEF Disk!BestCheckpoint
<1>3. CASE /\ saved[i] # Missing
           /\ \E s \in {0, 1} : /\ slot[i][s] = saved[i]
                                /\ IsWhole(slot[i][1 - s]) => slot[i][1 - s].seq < saved[i].seq
  <2>1. PICK s \in {0, 1} : /\ slot[i][s] = saved[i]
                            /\ IsWhole(slot[i][1 - s]) => slot[i][1 - s].seq < saved[i].seq
    BY <1>3
  <2>2. 1 - s \in {0, 1} /\ \A u \in {0, 1} : u = s \/ u = 1 - s
    OBVIOUS
  <2>3. saved[i] \in Checkpoints /\ saved[i] \in whole
    BY <1>1, <1>3, <2>1, DiskAssumption
  <2>4. \A d \in whole : d = saved[i] \/ (d \in Checkpoints /\ d.seq < saved[i].seq)
    <3>1. ASSUME NEW d \in whole PROVE d = saved[i] \/ (d \in Checkpoints /\ d.seq < saved[i].seq)
      <4>1. PICK u \in {0, 1} : d = slot[i][u]
        OBVIOUS
      <4>2. d \in Checkpoints /\ IsWhole(d)
        BY <1>1, <4>1 DEF IsWhole
      <4>3. CASE u = s
        BY <2>1, <4>1, <4>3
      <4>4. CASE u = 1 - s
        BY <2>1, <4>1, <4>2, <4>4
      <4> QED BY <2>2, <4>3, <4>4
    <3> QED BY <3>1
  <2>5. Disk!BestCheckpoint(i) = CHOOSE c \in whole : \A d \in whole : d.seq <= c.seq
    BY <2>3 DEF Disk!BestCheckpoint
  <2>6. saved[i].seq \in Nat
    BY <2>3 DEF Checkpoints
  <2> HIDE DEF whole
  <2>7. \A d \in whole : d.seq <= saved[i].seq
    BY <2>4, <2>6 DEF Checkpoints
  <2>8. \A c \in whole : (\A d \in whole : d.seq <= c.seq) => c = saved[i]
    BY <2>3, <2>4, <2>6 DEF Checkpoints
  <2> QED BY <2>3, <2>5, <2>7, <2>8
<1> QED BY <1>2, <1>3 DEF Kept

LEMMA DiskStarts == Disk!Init => DiskInv
<1> SUFFICES ASSUME Disk!Init PROVE DiskInv
  OBVIOUS
<1>1. /\ stage = "down" /\ newestTask = 0 /\ DOMAIN tasks = {} /\ flows = <<>>
      /\ journal = <<>> /\ slot = [i \in Disk!Ids |-> Disk!NoCheckpoint] /\ flowFile = Missing
      /\ runs = 0 /\ saved = [i \in Disk!Ids |-> Missing]
      /\ cutOff = {}
      /\ tasks = [t \in DOMAIN tasks |-> tasks[t]]
  BY DEF Disk!Init, Disk!Empty
<1>2. DiskTypes
  <2>1. FlowList(flows)
    BY <1>1 DEF FlowList
  <2> QED BY <1>1, <2>1 DEF DiskTypes, Disk!NoCheckpoint, Disk!Phases
<1>3. \A i : Disk!RecordsOf(i) = {}
  BY <1>1 DEF Disk!RecordsOf
<1>4. \A i : ~Live(i)
  BY <1>3 DEF Live
<1>5. Disk!OneLifePerId
  BY <1>3 DEF Disk!OneLifePerId
<1>6. IdsRise /\ Recovers /\ CheckpointsFit /\ FlowsFit
  BY <1>1, <1>4 DEF IdsRise, Recovers, CheckpointsFit, FlowsFit
<1> QED BY <1>1, <1>2, <1>5, <1>6 DEF DiskInv

LEMMA JournalStays ==
    ASSUME DiskInv, UNCHANGED <<journal, early>>
    PROVE  /\ journal' \in Seq(Record \cup {Torn}) /\ Disk!OneLifePerId'
           /\ \A i : Disk!RecordsOf(i)' = Disk!RecordsOf(i) /\ (Live(i)' <=> Live(i))
<1>1. \A i : Disk!RecordsOf(i)' = Disk!RecordsOf(i)
  BY DEF Disk!RecordsOf
<1>2. Disk!Journaled' = Disk!Journaled /\ \A i : Live(i)' = Live(i)
  BY <1>1 DEF Disk!Journaled, Live
<1> QED BY <1>1, <1>2 DEF DiskInv, DiskTypes, Disk!OneLifePerId

\* A line that does not parse is of no task.
LEMMA TornLine ==
    ASSUME DiskInv, journal' = Append(journal, Torn), UNCHANGED early
    PROVE  /\ journal' \in Seq(Record \cup {Torn}) /\ Disk!OneLifePerId'
           /\ Disk!Last(journal') = Torn
           /\ \A i : Disk!RecordsOf(i)' = Disk!RecordsOf(i) /\ (Live(i)' <=> Live(i))
<1>1. /\ journal' \in Seq(Record \cup {Torn}) /\ Disk!Last(journal') = Torn
      /\ \A k \in DOMAIN journal : journal'[k] = journal[k]
      /\ \A i : Disk!RecordsOf(i)' = Disk!RecordsOf(i)
  BY TornAdded DEF DiskInv, DiskTypes
<1>2. Disk!Journaled' = Disk!Journaled
  BY <1>1 DEF Disk!Journaled
<1>3. \A i : \A k \in Disk!RecordsOf(i) : journal'[k] = journal[k]
  BY <1>1 DEF Disk!RecordsOf
<1>4. \A i : Live(i)' <=> Live(i)
  BY <1>1, <1>3 DEF Live
<1>5. Disk!OneLifePerId'
  <2> SUFFICES ASSUME NEW i \in Disk!Journaled \ early, NEW k \in Disk!RecordsOf(i),
                      NEW l \in Disk!RecordsOf(i), k < l
               PROVE  journal'[k].status = "RUNNING" /\ journal'[l].status # "RUNNING"
    BY <1>1, <1>2 DEF Disk!OneLifePerId
  <2>1. journal'[k] = journal[k] /\ journal'[l] = journal[l]
    BY <1>3
  <2> QED BY <2>1 DEF DiskInv, Disk!OneLifePerId
<1>6. \A i : Disk!RecordsOf(i)' = Disk!RecordsOf(i) /\ (Live(i)' <=> Live(i))
  BY <1>1, <1>4
<1> QED BY <1>1, <1>5, <1>6

\* runtime_init goes on, and nothing but its own place changes: what is cut off
\* is known, ids are above the journal, completions are heard.
LEMMA PhaseGoesOn ==
    ASSUME DiskInv, stage' \in Disk!Phases \ {"down"},
           UNCHANGED <<tasks, flows, journal, slot, flowFile, runs, saved, early, lost>>,
           flows = <<>>, newestTask' \in Nat, newestTask <= newestTask',
           IdsRise', Recovers'
    PROVE  DiskInv'
<1>1. \A i : Disk!RecordsOf(i)' = Disk!RecordsOf(i) /\ (Live(i)' <=> Live(i))
  BY DEF Disk!RecordsOf, Live
<1>2. Disk!Journaled' = Disk!Journaled
  BY <1>1 DEF Disk!Journaled
<1>3. DiskTypes'
  BY DEF DiskInv, DiskTypes
<1>4. Disk!OneLifePerId'
  BY <1>1, <1>2 DEF DiskInv, Disk!OneLifePerId
<1>5. \A t \in DOMAIN tasks' : StatusFits(t)' /\ (t \notin early' => JournalFits(t)')
  BY <1>1 DEF DiskInv, StatusFits, JournalFits, Disk!Ended
<1>6. CheckpointsFit'
  BY <1>1 DEF DiskInv, CheckpointsFit, Trusted, Kept, Alternates, Disk!Slot, Disk!NoCheckpoint
<1>7. FlowsFit'
  BY DEF FlowsFit
<1> QED BY <1>3, <1>4, <1>5, <1>6, <1>7 DEF DiskInv

LEMMA DiskBoots ==
    ASSUME DiskInv, Disk!Boot \/ Disk!ReadJournal \/ Disk!EnsureNextId \/ Disk!Listen
    PROVE  DiskInv'
<1>1. /\ stage # "up" /\ flows = <<>> /\ newestTask \in Nat
      /\ UNCHANGED <<tasks, flows, journal, slot, flowFile, runs, saved, early, lost>>
  BY DEF Disk!Boot, Disk!ReadJournal, Disk!EnsureNextId, Disk!Listen, Disk!disk, Disk!ghost,
         Disk!memory, Disk!bounds, DiskInv, DiskTypes
<1>2. \A i : Disk!RecordsOf(i)' = Disk!RecordsOf(i) /\ (Live(i)' <=> Live(i))
  BY <1>1 DEF Disk!RecordsOf, Live
<1>3. Disk!Journaled' = Disk!Journaled
  BY <1>2 DEF Disk!Journaled
<1>4. \A t \in DOMAIN tasks : t < newestTask /\ t \in Nat
  BY DEF DiskInv, DiskTypes, IdsRise, Disk!Ids
<1>5. CASE Disk!Boot
  <2>1. stage = "down" /\ stage' = "starting" /\ newestTask' = newestTask /\ DOMAIN tasks = {}
    BY <1>5 DEF Disk!Boot, Disk!memory, DiskInv, DiskTypes
  <2>2. IdsRise' /\ Recovers'
    BY <1>1, <2>1 DEF IdsRise, Recovers
  <2> QED BY <1>1, <2>1, <2>2, PhaseGoesOn DEF Disk!Phases
<1>6. CASE Disk!ReadJournal
  <2>1. /\ stage = "starting" /\ stage' = "recovering" /\ newestTask' = newestTask
        /\ cutOff' = Disk!Unfinished
    BY <1>6 DEF Disk!ReadJournal, Disk!memory
  <2>2. \A i \in cutOff' : i \in Disk!Ids /\ (i \notin early => Live(i))
    BY <2>1, UnfinishedIsLive DEF DiskInv, DiskTypes, Disk!Unfinished, Disk!Journaled
  <2>3. IdsRise' /\ Recovers'
    BY <1>1, <1>2, <1>4, <2>1, <2>2 DEF DiskInv, IdsRise, Recovers
  <2> QED BY <1>1, <2>1, <2>3, PhaseGoesOn DEF Disk!Phases
<1>7. CASE Disk!EnsureNextId
  <2>1. /\ stage = "recovering" /\ stage' = "ready"
        /\ newestTask' = Disk!Max({newestTask, Disk!NextId})
    BY <1>7 DEF Disk!EnsureNextId
  <2>2. Disk!NextId \in Nat /\ \A i \in Disk!Journaled : i < Disk!NextId /\ i \in Nat
    <3>1. CASE Disk!Journaled = {}
      BY <3>1 DEF Disk!NextId
    <3>2. CASE Disk!Journaled # {}
      <4>1. \A k \in Disk!Journaled : k \in 0 .. MaxRuns
        BY DiskAssumption DEF Disk!Journaled, Disk!Ids
      <4>2. \E m \in Disk!Journaled : \A k \in Disk!Journaled : k <= m
        BY <3>2, <4>1, LargestExists, DiskAssumption
      <4>3. PICK m \in Disk!Journaled :
               m = Disk!Max(Disk!Journaled) /\ \A k \in Disk!Journaled : m >= k
        BY <4>1, <4>2 DEF Disk!Max
      <4>4. Disk!NextId = m + 1
        BY <3>2, <4>3 DEF Disk!NextId
      <4> QED BY <4>1, <4>3, <4>4
    <3> QED BY <3>1, <3>2
  <2>3. /\ newestTask' \in {newestTask, Disk!NextId}
        /\ newestTask <= newestTask' /\ Disk!NextId <= newestTask'
    <3> DEFINE S == {newestTask, Disk!NextId}
    <3>1. \E m \in S : \A k \in S : m >= k
      <4>1. CASE newestTask >= Disk!NextId
        BY <1>1, <2>2, <4>1
      <4>2. CASE Disk!NextId >= newestTask
        BY <1>1, <2>2, <4>2
      <4> QED BY <1>1, <2>2, <4>1, <4>2
    <3>2. PICK m \in S : m = Disk!Max(S) /\ \A k \in S : m >= k
      <4> HIDE DEF S
      <4> QED BY <3>1 DEF Disk!Max
    <3>3. newestTask' = m
      BY <2>1, <3>2, Zenon
    <3>4. newestTask' \in S /\ \A k \in S : k <= newestTask'
      BY <1>1, <2>2, <3>2, <3>3
    <3> QED BY <3>4
  <2>4. IdsRise'
    <3>1. /\ newestTask \in Nat /\ newestTask' \in Nat
          /\ newestTask <= newestTask' /\ Disk!NextId <= newestTask'
      BY <1>1, <2>2, <2>3
    <3>2. \A i \in Disk!Journaled' : i < newestTask'
      BY <1>3, <2>2, <3>1
    <3>3. DOMAIN tasks' = DOMAIN tasks
      BY <1>1
    <3>4. \A t \in DOMAIN tasks' : t < newestTask'
      BY <1>4, <3>1, <3>3
    <3> QED BY <3>2, <3>4 DEF IdsRise
  <2>5. Recovers'
    BY <2>1 DEF Recovers
  <2> QED BY <1>1, <2>1, <2>2, <2>3, <2>4, <2>5, PhaseGoesOn DEF Disk!Phases
<1>8. CASE Disk!Listen
  <2>1. stage = "ready" /\ stage' = "listening" /\ newestTask' = newestTask
    BY <1>8 DEF Disk!Listen, Disk!memory
  <2>2. IdsRise' /\ Recovers'
    BY <1>1, <1>3, <2>1 DEF DiskInv, IdsRise, Recovers
  <2> QED BY <1>1, <2>1, <2>2, PhaseGoesOn DEF Disk!Phases
<1> QED BY <1>5, <1>6, <1>7, <1>8

\* What checkpoint_read gives is a checkpoint, or nothing.
LEMMA BestIsCheckpoint ==
    ASSUME DiskTypes, NEW i \in Disk!Ids
    PROVE  Disk!BestCheckpoint(i) \in Checkpoints \cup {Missing}
<1> DEFINE whole == {slot[i][s] : s \in {0, 1}} \ {Missing, Torn}
<1>1. slot[i] \in [{0, 1} -> Checkpoints \cup {Missing, Torn}]
  BY DEF DiskTypes
<1>2. whole \subseteq Checkpoints
  BY <1>1
<1>3. CASE whole = {}
  BY <1>3 DEF Disk!BestCheckpoint
<1>4. CASE whole # {}
  <2>1. PICK a \in whole, b \in whole : \A d \in whole : d = a \/ d = b
    BY <1>4
  <2>2. a.seq \in Nat /\ b.seq \in Nat
    BY <1>2 DEF Checkpoints
  <2>3. \E c \in whole : \A d \in whole : d.seq <= c.seq
    <3> HIDE DEF whole
    <3>1. CASE a.seq <= b.seq
      <4>1. \A d \in whole : d.seq <= b.seq
        BY <2>1, <2>2, <3>1
      <4> QED BY <4>1
    <3>2. CASE b.seq <= a.seq
      <4>1. \A d \in whole : d.seq <= a.seq
        BY <2>1, <2>2, <3>2
      <4> QED BY <4>1
    <3> QED BY <2>2, <3>1, <3>2
  <2>4. Disk!BestCheckpoint(i) = CHOOSE c \in whole : \A d \in whole : d.seq <= c.seq
    BY <1>4 DEF Disk!BestCheckpoint
  <2>5. (CHOOSE c \in whole : \A d \in whole : d.seq <= c.seq) \in whole
    <3> HIDE DEF whole
    <3> QED BY <2>3
  <2> QED BY <1>2, <2>4, <2>5
<1> QED BY <1>3, <1>4

\* A task that was cut off is told to be interrupted, if that can be written.
LEMMA TaskInterrupted ==
    ASSUME DiskInv, NEW i \in Disk!Ids, Disk!Interrupt(i)
    PROVE  /\ DiskInv'
           /\ Trusted(i) /\ journal' # journal /\ Disk!Last(journal') # Torn =>
                 Disk!Last(journal').cp = saved[i]
<1>1. /\ stage = "recovering" /\ i \in cutOff /\ cutOff' = cutOff \ {i}
      /\ UNCHANGED <<stage, newestTask, tasks, flows, flowFile, runs, saved, early>>
  BY DEF Disk!Interrupt, Disk!memory
<1>2. /\ journal \in Seq(Record \cup {Torn}) /\ Disk!OneLifePerId /\ DiskTypes
      /\ DOMAIN tasks \subseteq early /\ flows = <<>> /\ (i \notin early => Live(i))
  BY <1>1 DEF DiskInv, DiskTypes, Recovers
<1>3. Trusted(i) => Disk!BestCheckpoint(i) = saved[i]
  BY <1>2, BestIsSaved DEF DiskInv, CheckpointsFit, Trusted
<1>4. PICK new \in Record :
         /\ new.id = i /\ new.status = "INTERRUPTED" /\ new.cp = Disk!BestCheckpoint(i)
         /\ new = [id |-> i, status |-> "INTERRUPTED", cp |-> Disk!BestCheckpoint(i)]
  BY <1>2, BestIsCheckpoint DEF Record
<1>5. \/ /\ journal' = Append(journal, new) /\ lost' = lost
         /\ slot' = [slot EXCEPT ![i] = Disk!NoCheckpoint]
      \/ /\ journal' = Append(journal, Torn) /\ lost' = lost \cup {i}
         /\ slot' = [slot EXCEPT ![i] = Disk!NoCheckpoint]
      \/ /\ journal' = journal /\ lost' = lost /\ slot' = slot
  BY <1>4 DEF Disk!Interrupt, Disk!Recorded, Disk!RecordTorn, Disk!NotRecorded
<1>6. /\ journal' \in Seq(Record \cup {Torn}) /\ Disk!OneLifePerId'
      /\ \A j \in Disk!Ids : j # i =>
            Disk!RecordsOf(j)' = Disk!RecordsOf(j) /\ (Live(j)' <=> Live(j))
      /\ journal' # journal /\ Disk!Last(journal') # Torn => Disk!Last(journal') = new
      /\ Live(i)' /\ i \notin early /\ i \notin lost' => slot'[i] = slot[i] /\ Live(i)
      /\ i \notin early => Disk!RecordsOf(i)' # {}
  <2>1. CASE journal' = Append(journal, new) /\ lost' = lost
    <3>1. \/ new.id \in early
          \/ Disk!RecordsOf(new.id) = {} \/ (Live(new.id) /\ new.status # "RUNNING")
      BY <1>2, <1>4
    <3>2. /\ Disk!OneLifePerId' /\ Disk!RecordsOf(new.id)' # {}
          /\ Live(new.id)' <=> Disk!RecordsOf(new.id) = {} /\ new.status = "RUNNING"
          /\ \A j \in Disk!Ids : j # new.id =>
                Disk!RecordsOf(j)' = Disk!RecordsOf(j) /\ (Live(j)' <=> Live(j))
      BY <1>1, <1>2, <2>1, <3>1, LifeBegins
    <3>3. Disk!RecordsOf(i)' # {} /\ ~Live(i)'
      BY <1>4, <3>2
    <3>4. journal' \in Seq(Record \cup {Torn}) /\ Disk!Last(journal') = new
      BY <1>2, <2>1, RecordAdded
    <3> QED BY <1>4, <3>2, <3>3, <3>4
  <2>2. CASE journal' = Append(journal, Torn) /\ lost' = lost \cup {i}
    <3>1. /\ journal' \in Seq(Record \cup {Torn}) /\ Disk!OneLifePerId' /\ Disk!Last(journal') = Torn
          /\ \A j : Disk!RecordsOf(j)' = Disk!RecordsOf(j) /\ (Live(j)' <=> Live(j))
      BY <1>1, <2>2, TornLine DEF DiskInv
    <3> QED BY <1>2, <2>2, <3>1 DEF Live
  <2>3. CASE journal' = journal /\ lost' = lost /\ slot' = slot
    <3>1. /\ journal' \in Seq(Record \cup {Torn}) /\ Disk!OneLifePerId'
          /\ \A j : Disk!RecordsOf(j)' = Disk!RecordsOf(j) /\ (Live(j)' <=> Live(j))
      BY <1>1, <2>3, JournalStays
    <3> QED BY <1>2, <2>3, <3>1 DEF Live
  <2> QED BY <1>5, <2>1, <2>2, <2>3
<1>7. /\ slot' \in [Disk!Ids -> [{0, 1} -> Checkpoints \cup {Missing, Torn}]]
      /\ \A j \in Disk!Ids : j # i => slot'[j] = slot[j]
  <2>1. CASE slot' = slot
    BY <1>2, <2>1 DEF DiskTypes
  <2>2. CASE slot' = [slot EXCEPT ![i] = Disk!NoCheckpoint]
    BY <1>2, <2>2 DEF DiskTypes, Disk!NoCheckpoint
  <2> QED BY <1>5, <2>1, <2>2
<1>8. DiskTypes'
  BY <1>1, <1>2, <1>6, <1>7 DEF DiskTypes, FlowList
<1>9. IdsRise' /\ Recovers'
  BY <1>1, <1>2, <1>6 DEF DiskInv, IdsRise, Recovers
<1>10. \A j \in Disk!Ids : Trusted(j)' => Trusted(j)
  BY <1>1, <1>5 DEF Trusted
<1>11. CheckpointsFit'
  <2>1. ASSUME NEW j \in Disk!Ids, Trusted(j)', Disk!RecordsOf(j)' = {}
        PROVE  slot'[j] = Disk!NoCheckpoint'
    <3>1. j # i
      BY <1>1, <1>6, <2>1 DEF Trusted
    <3> QED BY <1>6, <1>7, <1>10, <2>1, <3>1 DEF DiskInv, CheckpointsFit, Disk!NoCheckpoint
  <2>2. ASSUME NEW j \in Disk!Ids, Trusted(j)', Live(j)' PROVE Kept(j)'
    <3>1. Live(j) /\ slot'[j] = slot[j]
      BY <1>1, <1>6, <1>7, <2>2 DEF Trusted
    <3>2. Kept(j)
      BY <1>10, <2>2, <3>1 DEF DiskInv, CheckpointsFit
    <3> QED BY <1>1, <3>1, <3>2 DEF Kept
  <2>3. \A t \in DOMAIN tasks' : ~Trusted(t)'
    BY <1>1, <1>2 DEF Trusted
  <2> QED BY <2>1, <2>2, <2>3 DEF CheckpointsFit
<1>12. FlowsFit' /\ \A t \in DOMAIN tasks' : StatusFits(t)' /\ (t \notin early' => JournalFits(t)')
  BY <1>1, <1>2 DEF DiskInv, FlowsFit, StatusFits, Disk!Ended
<1>13. Trusted(i) /\ journal' # journal /\ Disk!Last(journal') # Torn =>
          Disk!Last(journal').cp = saved[i]
  BY <1>3, <1>4, <1>6
<1> QED BY <1>6, <1>8, <1>9, <1>11, <1>12, <1>13 DEF DiskInv

\* A list of flows, changed in place.
LEMMA FlowsChanged ==
    ASSUME NEW s, FlowList(s), NEW c, c = [k \in DOMAIN s |-> c[k]],
           \A k \in DOMAIN s : DOMAIN c[k] = FlowFields
    PROVE  FlowList(c)
<1>1. Len(s) \in Nat /\ DOMAIN s = 1 .. Len(s)
  BY LenProperties, Zenon DEF FlowList
<1>2. c \in [1 .. Len(s) -> {c[k] : k \in DOMAIN s}] /\ DOMAIN c = DOMAIN s
  BY <1>1
<1>3. c \in Seq({c[k] : k \in DOMAIN c})
  BY <1>1, <1>2
<1> QED BY <1>2, <1>3 DEF FlowList

LEMMA FlowAdded ==
    ASSUME NEW s, FlowList(s), NEW e, DOMAIN e = FlowFields
    PROVE  /\ FlowList(Append(s, e)) /\ DOMAIN Append(s, e) = DOMAIN s \cup {Len(s) + 1}
           /\ Append(s, e)[Len(s) + 1] = e /\ Len(s) + 1 \notin DOMAIN s
           /\ \A k \in DOMAIN s : Append(s, e)[k] = s[k]
<1> DEFINE S == {s[k] : k \in DOMAIN s} \cup {e}
           c == Append(s, e)
<1>1. Len(s) \in Nat /\ DOMAIN s = 1 .. Len(s)
  BY LenProperties, Zenon DEF FlowList
<1>2. s \in [1 .. Len(s) -> S]
  <2>1. s \in [1 .. Len(s) -> {s[k] : k \in DOMAIN s}]
    BY LenProperties, Zenon DEF FlowList
  <2> QED BY <1>1, <2>1
<1>3. s \in Seq(S) /\ e \in S
  BY <1>1, <1>2
<1>4. /\ c \in Seq(S) /\ Len(c) = Len(s) + 1
      /\ \A k \in 1 .. Len(s) : c[k] = s[k]
      /\ c[Len(s) + 1] = e
  <2> HIDE DEF S
  <2>1. /\ Append(s, e) \in Seq(S) /\ Len(Append(s, e)) = Len(s) + 1
        /\ \A k \in 1 .. Len(s) : Append(s, e)[k] = s[k]
        /\ Append(s, e)[Len(s) + 1] = e
    BY <1>3, AppendProperties
  <2> QED BY <2>1
<1>5. c \in [1 .. Len(c) -> S] /\ DOMAIN c = 1 .. Len(c)
  <2> HIDE DEF S, c
  <2> QED BY <1>4, LenProperties, Zenon
<1>6. DOMAIN c = DOMAIN s \cup {Len(s) + 1} /\ Len(s) + 1 \notin DOMAIN s
  BY <1>1, <1>4, <1>5
<1>7. \A k \in DOMAIN c : DOMAIN c[k] = FlowFields
  BY <1>1, <1>4, <1>6 DEF FlowList
<1>8. c \in Seq({c[k] : k \in DOMAIN c})
  <2>1. Len(c) \in Nat
    BY <1>1, <1>4
  <2> HIDE DEF S, c
  <2>2. c \in [1 .. Len(c) -> {c[k] : k \in DOMAIN c}]
    BY <1>5
  <2> QED BY <2>1, <2>2
<1> QED BY <1>1, <1>4, <1>6, <1>7, <1>8 DEF FlowList

\* The flows of the last process are read; none of them runs.
LEMMA FlowsLoaded == ASSUME DiskInv, Disk!Open PROVE DiskInv'
<1> DEFINE rs == IF flowFile \in {Missing, Torn} THEN <<>> ELSE Disk!Loaded(flowFile)
<1>1. /\ stage = "listening" /\ stage' = "up" /\ flows' = rs
      /\ flowFile' \in {flowFile, rs, Torn}
      /\ UNCHANGED <<newestTask, tasks, cutOff, journal, slot, runs, saved, early, lost>>
  BY DEF Disk!Open, Disk!FlowsSaved, Disk!ghost
<1>2. FlowList(rs) /\ \A k \in DOMAIN rs : rs[k].status # "RUNNING"
  <2>1. CASE flowFile \in {Missing, Torn}
    BY <2>1 DEF FlowList
  <2>2. CASE flowFile \notin {Missing, Torn}
    <3>1. FlowList(flowFile)
      BY <2>2 DEF DiskInv, DiskTypes
    <3>2. rs = [k \in DOMAIN flowFile |->
                  IF flowFile[k].status = "RUNNING"
                  THEN [flowFile[k] EXCEPT !.status = "INTERRUPTED"] ELSE flowFile[k]]
      BY <2>2 DEF Disk!Loaded
    <3>3. \A k \in DOMAIN flowFile : DOMAIN rs[k] = FlowFields /\ rs[k].status # "RUNNING"
      <4>1. \A k \in DOMAIN flowFile : "status" \in DOMAIN flowFile[k]
        BY <3>1 DEF FlowList, FlowFields
      <4> QED BY <3>1, <3>2, <4>1 DEF FlowList
    <3>4. DOMAIN rs = DOMAIN flowFile /\ rs = [k \in DOMAIN flowFile |-> rs[k]]
      BY <3>2
    <3> HIDE DEF rs
    <3> QED BY <3>1, <3>3, <3>4, FlowsChanged
  <2> QED BY <2>1, <2>2
<1> HIDE DEF rs
<1>3. /\ journal' \in Seq(Record \cup {Torn}) /\ Disk!OneLifePerId'
      /\ \A i : Disk!RecordsOf(i)' = Disk!RecordsOf(i) /\ (Live(i)' <=> Live(i))
  BY <1>1, JournalStays
<1>4. Disk!Journaled' = Disk!Journaled
  BY <1>3 DEF Disk!Journaled
<1>5. DiskTypes'
  <2>1. flowFile' \notin {Missing, Torn} => FlowList(flowFile')
    BY <1>1, <1>2 DEF DiskInv, DiskTypes
  <2> QED BY <1>1, <1>2, <1>3, <2>1 DEF DiskInv, DiskTypes, Disk!Phases
<1>6. IdsRise' /\ Recovers'
  BY <1>1, <1>4 DEF DiskInv, IdsRise, Recovers
<1>7. CheckpointsFit'
  BY <1>1, <1>3 DEF DiskInv, CheckpointsFit, Trusted, Kept, Alternates, Disk!Slot,
     Disk!NoCheckpoint
<1>8. FlowsFit'
  BY <1>1, <1>2 DEF FlowsFit
<1>9. \A t \in DOMAIN tasks' : StatusFits(t)' /\ (t \notin early' => JournalFits(t)')
  BY <1>1, <1>3 DEF DiskInv, StatusFits, JournalFits, Disk!Ended
<1> QED BY <1>3, <1>5, <1>6, <1>7, <1>8, <1>9 DEF DiskInv

\* A task is accepted, under an id that the journal does not have once the ids
\* were raised; before that it is an early one.
LEMMA TaskAccepted ==
    ASSUME DiskInv, NEW kind, Disk!Submit(kind) PROVE DiskInv'
<1> DEFINE new == [run |-> runs, at |-> "queued", status |-> "QUEUED", seq |-> 0,
                   reg |-> IF kind = "flow" THEN "add" ELSE "done"]
<1>1. /\ stage # "down" /\ newestTask \in Disk!Ids /\ runs' = runs + 1
      /\ newestTask' = newestTask + 1
      /\ tasks' = [j \in DOMAIN tasks \cup {newestTask} |->
                      IF j = newestTask THEN new ELSE tasks[j]]
      /\ saved' = [saved EXCEPT ![newestTask] = Missing]
      /\ early' = IF stage \in {"starting", "recovering"} THEN early \cup {newestTask} ELSE early
      /\ UNCHANGED <<stage, flows, cutOff, journal, slot, flowFile, lost>>
  BY DEF Disk!Submit, Disk!disk
<1>2. new \in Task
  BY DEF DiskInv, DiskTypes, Task, TaskPlaces
<1>3. /\ newestTask \in Nat /\ newestTask \notin DOMAIN tasks
      /\ newestTask \in early' \/ newestTask \notin Disk!Journaled
      /\ early \subseteq early' /\ \A i : i # newestTask => (i \in early' <=> i \in early)
  BY <1>1 DEF DiskInv, DiskTypes, IdsRise, Disk!Phases
<1>4. newestTask \in early' \/ Disk!RecordsOf(newestTask) = {}
  BY <1>1, <1>3 DEF Disk!Journaled
<1>5. \A i : Disk!RecordsOf(i)' = Disk!RecordsOf(i)
  BY <1>1 DEF Disk!RecordsOf
<1>6. Disk!Journaled' = Disk!Journaled /\ \A i : Live(i)' = Live(i)
  BY <1>1, <1>5 DEF Disk!Journaled, Live
<1>7. /\ DOMAIN tasks' = DOMAIN tasks \cup {newestTask} /\ tasks'[newestTask] = new
      /\ \A t \in DOMAIN tasks : tasks'[t] = tasks[t]
      /\ tasks' = [t \in DOMAIN tasks' |-> tasks'[t]]
  BY <1>1, <1>3
<1>8. /\ saved' \in [Disk!Ids -> Checkpoints \cup {Missing}] /\ saved'[newestTask] = Missing
      /\ \A i \in Disk!Ids : i # newestTask => saved'[i] = saved[i]
  BY <1>1 DEF DiskInv, DiskTypes
<1>9. new.at = "queued" /\ new.status = "QUEUED" /\ new.seq = 0
  OBVIOUS
<1> HIDE DEF new
<1>10. DiskTypes'
  BY <1>1, <1>2, <1>3, <1>7, <1>8 DEF DiskInv, DiskTypes
<1>11. Disk!OneLifePerId'
  BY <1>1, <1>3, <1>5, <1>6 DEF DiskInv, Disk!OneLifePerId
<1>12. IdsRise'
  BY <1>1, <1>3, <1>6, <1>7 DEF DiskInv, IdsRise, DiskTypes, Disk!Ids, Disk!Journaled
<1>13. Recovers'
  BY <1>1, <1>3, <1>6, <1>7 DEF DiskInv, Recovers
<1>14. \A t \in DOMAIN tasks' : StatusFits(t)' /\ (t \notin early' => JournalFits(t)')
  <2>1. ASSUME NEW t \in DOMAIN tasks PROVE StatusFits(t)' /\ (t \notin early' => JournalFits(t)')
    <3>1. tasks'[t] = tasks[t] /\ (t \notin early' => t \notin early) /\ lost' = lost
      BY <1>1, <1>3, <1>7
    <3>2. StatusFits(t) /\ (t \notin early => JournalFits(t))
      BY DEF DiskInv
    <3>3. Disk!RecordsOf(t)' = Disk!RecordsOf(t) /\ (Live(t)' <=> Live(t))
      BY <1>5, <1>6
    <3> QED BY <3>1, <3>2, <3>3 DEF StatusFits, JournalFits, Disk!Ended
  <2>2. ASSUME NEW t \in DOMAIN tasks', t = newestTask
        PROVE  StatusFits(t)' /\ (t \notin early' => JournalFits(t)')
    <3>1. tasks'[t].at = "queued" /\ tasks'[t].status = "QUEUED"
      BY <1>7, <1>9, <2>2
    <3>2. t \notin early' => Disk!RecordsOf(t)' = {}
      BY <1>4, <1>5, <2>2
    <3> QED BY <3>1, <3>2 DEF StatusFits, JournalFits, Disk!Ended
  <2> QED BY <1>7, <2>1, <2>2
<1>15. CheckpointsFit'
  <2>1. newestTask \notin early' => ~Live(newestTask)
    BY <1>4 DEF Live
  <2>2. \A i \in Disk!Ids : Trusted(i)' => Trusted(i)
    BY <1>1, <1>3 DEF Trusted
  <2>3. \A i \in Disk!Ids : Trusted(i)' /\ Live(i)' => Kept(i)'
    <3>1. ASSUME NEW i \in Disk!Ids, Trusted(i)', Live(i)' PROVE Kept(i)'
      <4>1. i # newestTask
        BY <1>6, <2>1, <3>1 DEF Trusted
      <4>2. saved'[i] = saved[i] /\ slot'[i] = slot[i] /\ Kept(i)
        BY <1>1, <1>6, <1>8, <2>2, <3>1, <4>1 DEF DiskInv, CheckpointsFit
      <4> QED BY <4>2 DEF Kept
    <3> QED BY <3>1
  <2>4. \A t \in DOMAIN tasks' : Trusted(t)' =>
            /\ tasks'[t].at = "queued" => tasks'[t].seq = 0 /\ saved'[t] = Missing
            /\ tasks'[t].at = "running" => Alternates(t)'
    <3>1. ASSUME NEW t \in DOMAIN tasks, Trusted(t)'
          PROVE  /\ tasks'[t].at = "queued" => tasks'[t].seq = 0 /\ saved'[t] = Missing
                 /\ tasks'[t].at = "running" => Alternates(t)'
      <4>1. /\ t \in Disk!Ids /\ saved'[t] = saved[t] /\ tasks'[t] = tasks[t]
            /\ slot'[t] = slot[t] /\ Trusted(t)
        BY <1>1, <1>3, <1>7, <1>8, <2>2, <3>1 DEF DiskInv, DiskTypes
      <4> QED BY <4>1 DEF DiskInv, CheckpointsFit, Alternates, Disk!Slot
    <3> QED BY <1>7, <1>8, <1>9, <3>1
  <2>5. \A i \in Disk!Ids : Trusted(i)' /\ Disk!RecordsOf(i)' = {} => slot'[i] = Disk!NoCheckpoint
    BY <1>1, <1>5, <2>2 DEF DiskInv, CheckpointsFit
  <2> QED BY <2>3, <2>4, <2>5, Zenon DEF CheckpointsFit, Disk!NoCheckpoint
<1>16. FlowsFit'
  BY <1>1, <1>7 DEF DiskInv, FlowsFit, Disk!SharesTask
<1> QED BY <1>10, <1>11, <1>12, <1>13, <1>14, <1>15, <1>16 DEF DiskInv

\* A step of one task, which changes what the disk has of that task only.
LEMMA TaskMoves ==
    ASSUME DiskInv, stage # "down", NEW t \in DOMAIN tasks, NEW new \in Task,
           tasks' = [tasks EXCEPT ![t] = new],
           UNCHANGED <<stage, newestTask, cutOff, runs, early>>, lost' \in {lost, lost \cup {t}},
           journal' \in Seq(Record \cup {Torn}), Disk!OneLifePerId',
           FlowList(flows'), flowFile' \in {flowFile, flows', Torn}, FlowsFit',
           flows = <<>> => flows' = <<>> \/ stage = "up",
           slot' \in [Disk!Ids -> [{0, 1} -> Checkpoints \cup {Missing, Torn}]],
           saved' \in [Disk!Ids -> Checkpoints \cup {Missing}],
           \A i \in Disk!Ids : i # t =>
               /\ Disk!RecordsOf(i)' = Disk!RecordsOf(i) /\ (Live(i)' <=> Live(i))
               /\ slot'[i] = slot[i] /\ saved'[i] = saved[i],
           StatusFits(t)', t \notin early => JournalFits(t)',
           Trusted(t)' =>
               /\ Disk!RecordsOf(t)' = {} => slot'[t] = Disk!NoCheckpoint
               /\ Live(t)' => Kept(t)'
               /\ new.at = "queued" => new.seq = 0 /\ saved'[t] = Missing
               /\ new.at = "running" => Alternates(t)'
    PROVE  DiskInv'
<1>1. /\ DOMAIN tasks' = DOMAIN tasks /\ tasks'[t] = new /\ t \in Disk!Ids
      /\ \A u \in DOMAIN tasks : u # t => tasks'[u] = tasks[u]
      /\ tasks' = [u \in DOMAIN tasks' |-> tasks'[u]]
  BY DEF DiskInv, DiskTypes
<1>2. DiskTypes'
  <2>1. flowFile' \notin {Missing, Torn} => FlowList(flowFile')
    BY DEF DiskInv, DiskTypes
  <2> QED BY <1>1, <2>1 DEF DiskInv, DiskTypes
<1>3. IdsRise' /\ Recovers'
  <2>1. \A i \in Disk!Journaled' : i \in Disk!Journaled \/ i = t
    BY DEF Disk!Journaled
  <2>2. stage = "recovering" => t \in early
    BY DEF DiskInv, Recovers
  <2>3. IdsRise'
    BY <1>1, <2>1 DEF DiskInv, IdsRise
  <2>4. stage = "recovering" => \A i \in cutOff : i \in Disk!Ids /\ (i \notin early => Live(i)')
    BY <2>2 DEF DiskInv, Recovers
  <2> QED BY <1>1, <2>3, <2>4 DEF DiskInv, Recovers
<1>4. \A i : i # t => (Trusted(i)' <=> Trusted(i)) /\ (i \in lost' <=> i \in lost)
  BY DEF Trusted
<1>5. \A u \in DOMAIN tasks' : StatusFits(u)' /\ (u \notin early' => JournalFits(u)')
  <2>1. ASSUME NEW u \in DOMAIN tasks, u # t
        PROVE  StatusFits(u)' /\ (u \notin early' => JournalFits(u)')
    <3>1. u \in Disk!Ids /\ StatusFits(u) /\ (u \notin early => JournalFits(u))
      BY <2>1 DEF DiskInv, DiskTypes
    <3>2. /\ tasks'[u] = tasks[u] /\ Disk!RecordsOf(u)' = Disk!RecordsOf(u)
          /\ (Live(u)' <=> Live(u)) /\ (u \in lost' <=> u \in lost)
      BY <1>1, <1>4, <2>1, <3>1
    <3> QED BY <3>1, <3>2 DEF StatusFits, JournalFits, Disk!Ended
  <2>2. ASSUME NEW u \in DOMAIN tasks' PROVE StatusFits(u)' /\ (u \notin early' => JournalFits(u)')
    <3>1. CASE u = t
      BY <3>1
    <3>2. CASE u # t
      BY <1>1, <2>1, <2>2, <3>2
    <3> QED BY <3>1, <3>2
  <2> QED BY <2>2
<1>6. CheckpointsFit'
  <2>1. \A i \in Disk!Ids : Trusted(i)' /\ Disk!RecordsOf(i)' = {} => slot'[i] = Disk!NoCheckpoint
    BY <1>4 DEF DiskInv, CheckpointsFit
  <2>2. \A i \in Disk!Ids : Trusted(i)' /\ Live(i)' => Kept(i)'
    <3>1. ASSUME NEW i \in Disk!Ids, Trusted(i)', Live(i)' PROVE Kept(i)'
      <4>1. CASE i = t
        BY <3>1, <4>1
      <4>2. CASE i # t
        <5>1. Kept(i) /\ slot'[i] = slot[i] /\ saved'[i] = saved[i]
          BY <1>4, <3>1, <4>2 DEF DiskInv, CheckpointsFit
        <5> QED BY <5>1 DEF Kept
      <4> QED BY <4>1, <4>2
    <3> QED BY <3>1
  <2>3. ASSUME NEW u \in DOMAIN tasks', Trusted(u)'
        PROVE  /\ tasks'[u].at = "queued" => tasks'[u].seq = 0 /\ saved'[u] = Missing
               /\ tasks'[u].at = "running" => Alternates(u)'
    <3>1. CASE u = t
      BY <1>1, <2>3, <3>1
    <3>2. CASE u # t
      <4>1. /\ u \in DOMAIN tasks /\ u \in Disk!Ids /\ tasks'[u] = tasks[u]
            /\ slot'[u] = slot[u] /\ saved'[u] = saved[u] /\ Trusted(u)
        BY <1>1, <1>4, <2>3, <3>2 DEF DiskInv, DiskTypes
      <4> QED BY <4>1 DEF DiskInv, CheckpointsFit, Alternates, Disk!Slot
    <3> QED BY <3>1, <3>2
  <2> QED BY <2>1, <2>2, <2>3, Zenon DEF CheckpointsFit, Disk!NoCheckpoint
<1> QED BY <1>2, <1>3, <1>5, <1>6 DEF DiskInv

\* The flows stay, and the task is not over.
LEMMA FlowsStay ==
    ASSUME DiskInv, NEW t \in DOMAIN tasks, NEW new \in Task,
           tasks' = [tasks EXCEPT ![t] = new], UNCHANGED flows,
           new.run = tasks[t].run,
           new.reg = "check" \/ new.at # "over" \/ (new.reg = tasks[t].reg /\ new.at = tasks[t].at)
    PROVE  FlowsFit'
<1>1. /\ DOMAIN tasks' = DOMAIN tasks /\ tasks'[t] = new
      /\ \A u \in DOMAIN tasks : u # t => tasks'[u] = tasks[u]
  BY DEF DiskInv, DiskTypes
<1> SUFFICES ASSUME NEW k \in DOMAIN flows, flows[k].status = "RUNNING", ~Disk!SharesTask(k)
             PROVE  /\ flows[k].task \in DOMAIN tasks'
                    /\ tasks'[flows[k].task].run = flows[k].run
                    /\ tasks'[flows[k].task].reg = "check" \/ tasks'[flows[k].task].at # "over"
  BY DEF FlowsFit, Disk!SharesTask
<1>2. /\ flows[k].task \in DOMAIN tasks /\ tasks[flows[k].task].run = flows[k].run
      /\ tasks[flows[k].task].reg = "check" \/ tasks[flows[k].task].at # "over"
  BY DEF DiskInv, FlowsFit
<1> QED BY <1>1, <1>2

\* The end of a task is copied to its flow.
LEMMA FlowMarked ==
    ASSUME DiskInv, NEW t \in DOMAIN tasks, NEW new \in Task,
           tasks' = [tasks EXCEPT ![t] = new],
           tasks[t].status \in Disk!Ended, Disk!MarkFlow(t, tasks[t].status)
    PROVE  /\ FlowsFit' /\ FlowList(flows') /\ flowFile' \in {flowFile, flows', Torn}
           /\ flows = <<>> => flows' = <<>>
<1> DEFINE mine == {k \in DOMAIN flows : flows[k].task = t}
<1>1. PICK status : status = tasks[t].status
  OBVIOUS
<1>2. status # "RUNNING"
  BY <1>1 DEF Disk!Ended
<1>3. /\ flows' = IF mine = {} THEN flows
                  ELSE [flows EXCEPT ![Disk!Min(mine)].status = status]
      /\ flowFile' \in {flowFile, flows', Torn}
  BY <1>1 DEF Disk!MarkFlow, Disk!Marked, Disk!FlowsSaved
<1>4. FlowList(flows) /\ DOMAIN flows = 1 .. Len(flows) /\ Len(flows) \in Nat
  BY LenProperties DEF DiskInv, DiskTypes, FlowList
<1>5. /\ DOMAIN tasks' = DOMAIN tasks
      /\ \A u \in DOMAIN tasks : u # t => tasks'[u] = tasks[u]
  BY DEF DiskInv, DiskTypes
<1>6. CASE mine = {}
  <2>1. flows' = flows
    BY <1>3, <1>6
  <2>2. \A k \in DOMAIN flows : flows[k].task # t
    BY <1>6
  <2>3. FlowsFit'
    BY <1>5, <2>1, <2>2 DEF DiskInv, FlowsFit, Disk!SharesTask
  <2> QED BY <1>3, <1>4, <2>1, <2>3
<1>7. CASE mine # {}
  <2>1. \E m \in mine : \A k \in mine : m <= k
    <3>1. mine \in SUBSET Nat
      BY <1>4
    <3> HIDE DEF mine
    <3> QED BY <1>7, <3>1, LeastExists
  <2>2. PICK m \in mine : m = Disk!Min(mine)
    BY <2>1 DEF Disk!Min
  <2>3. m \in DOMAIN flows /\ flows[m].task = t
    OBVIOUS
  <2>4. flows' = [flows EXCEPT ![m].status = status]
    BY <1>3, <1>7, <2>2
  <2>5. \A k \in DOMAIN flows : DOMAIN flows[k] = FlowFields
    BY <1>4 DEF FlowList
  <2>6. /\ DOMAIN flows' = DOMAIN flows /\ flows' = [k \in DOMAIN flows |-> flows'[k]]
        /\ flows'[m] = [flows[m] EXCEPT !.status = status]
        /\ \A k \in DOMAIN flows : k # m => flows'[k] = flows[k]
    BY <1>4, <2>3, <2>4 DEF FlowList
  <2>7. flows'[m].status = status /\ flows'[m].task = t /\ DOMAIN flows'[m] = FlowFields
    BY <2>3, <2>5, <2>6 DEF FlowFields
  <2>8. FlowList(flows')
    <3>1. \A k \in DOMAIN flows : DOMAIN flows'[k] = FlowFields
      BY <2>5, <2>6, <2>7
    <3> QED BY <1>4, <2>6, <3>1, FlowsChanged
  <2>9. \A k \in DOMAIN flows : flows'[k].task = flows[k].task
    BY <2>3, <2>6, <2>7
  <2>10. FlowsFit'
    <3> SUFFICES ASSUME NEW k \in DOMAIN flows, flows'[k].status = "RUNNING", ~Disk!SharesTask(k)'
                 PROVE  /\ flows'[k].task \in DOMAIN tasks'
                        /\ tasks'[flows'[k].task].run = flows'[k].run
                        /\ tasks'[flows'[k].task].reg = "check" \/ tasks'[flows'[k].task].at # "over"
      BY <2>6 DEF FlowsFit
    <3>1. k # m
      BY <1>2, <2>7
    <3>2. flows'[k] = flows[k]
      BY <2>6, <3>1
    <3>3. flows[k].task # t
      BY <2>3, <2>6, <2>7, <3>1, <3>2 DEF Disk!SharesTask
    <3>4. ~Disk!SharesTask(k)
      BY <2>6, <2>9 DEF Disk!SharesTask
    <3> QED BY <1>5, <3>2, <3>3, <3>4 DEF DiskInv, FlowsFit
  <2> QED BY <1>3, <1>7, <2>3, <2>8, <2>10
<1> QED BY <1>6, <1>7

\* A record of one task is added, or is not.
LEMMA JournalGoesOn ==
    ASSUME DiskInv, NEW t \in Disk!Ids, NEW status \in {"RUNNING", "DONE"}, UNCHANGED early,
           \/ Disk!Recorded(t, status, Missing)
           \/ Disk!RecordTorn(t) \/ Disk!NotRecorded(t, status),
           \/ t \in early \/ Disk!RecordsOf(t) = {} \/ (Live(t) /\ status # "RUNNING")
    PROVE  /\ journal' \in Seq(Record \cup {Torn}) /\ Disk!OneLifePerId'
           /\ lost' \in {lost, lost \cup {t}}
           /\ \A i \in Disk!Ids : i # t =>
                 Disk!RecordsOf(i)' = Disk!RecordsOf(i) /\ (Live(i)' <=> Live(i))
           /\ \/ /\ Disk!RecordsOf(t)' # {}
                 /\ Live(t)' <=> Disk!RecordsOf(t) = {} /\ status = "RUNNING"
              \/ /\ Disk!RecordsOf(t)' = Disk!RecordsOf(t) /\ (Live(t)' <=> Live(t))
                 /\ t \in lost' \/ (status # "RUNNING" /\ Disk!NotRecorded(t, status))
<1>1. journal \in Seq(Record \cup {Torn}) /\ Disk!OneLifePerId
  BY DEF DiskInv, DiskTypes
<1>2. CASE Disk!Recorded(t, status, Missing)
  <2>1. PICK r : r = [id |-> t, status |-> status, cp |-> Missing]
    OBVIOUS
  <2>2. /\ r \in Record /\ r.id = t /\ r.status = status /\ journal' = Append(journal, r)
        /\ lost' = lost
    BY <1>2, <2>1 DEF Record, Disk!Recorded
  <2>3. journal' \in Seq(Record \cup {Torn})
    BY <1>1, <2>2, RecordAdded
  <2>4. \/ r.id \in early
        \/ Disk!RecordsOf(r.id) = {} \/ (Live(r.id) /\ r.status # "RUNNING")
    BY <2>2
  <2>5. /\ Disk!OneLifePerId' /\ Disk!RecordsOf(r.id)' # {}
        /\ Live(r.id)' <=> Disk!RecordsOf(r.id) = {} /\ r.status = "RUNNING"
        /\ \A i \in Disk!Ids : i # r.id =>
              Disk!RecordsOf(i)' = Disk!RecordsOf(i) /\ (Live(i)' <=> Live(i))
    BY <1>1, <2>2, <2>4, LifeBegins
  <2>6. Disk!RecordsOf(r.id)' = Disk!RecordsOf(t)' /\ (Live(r.id)' <=> Live(t)')
    <3>1. \A i : i = t => Disk!RecordsOf(i)' = Disk!RecordsOf(t)'
      OBVIOUS
    <3>2. \A i : i = t => Live(i)' = Live(t)'
      OBVIOUS
    <3> QED BY <2>2, <3>1, <3>2
  <2> QED BY <2>2, <2>3, <2>5, <2>6
<1>3. CASE Disk!RecordTorn(t)
  <2>1. journal' = Append(journal, Torn) /\ lost' = lost \cup {t}
    BY <1>3 DEF Disk!RecordTorn
  <2>2. /\ journal' \in Seq(Record \cup {Torn}) /\ Disk!OneLifePerId'
        /\ \A i : Disk!RecordsOf(i)' = Disk!RecordsOf(i) /\ (Live(i)' <=> Live(i))
    BY <2>1, TornLine
  <2> QED BY <2>1, <2>2
<1>4. CASE Disk!NotRecorded(t, status)
  <2>1. /\ journal' = journal /\ lost' \in {lost, lost \cup {t}}
        /\ status = "RUNNING" => t \in lost'
    BY <1>4 DEF Disk!NotRecorded
  <2>2. /\ journal' \in Seq(Record \cup {Torn}) /\ Disk!OneLifePerId'
        /\ \A i : Disk!RecordsOf(i)' = Disk!RecordsOf(i) /\ (Live(i)' <=> Live(i))
    BY <2>1, JournalStays
  <2> QED BY <1>4, <2>1, <2>2
<1> QED BY <1>2, <1>3, <1>4

\* A flow is registered, and then looked at once more.
LEMMA RunRegistered ==
    ASSUME DiskInv, NEW t \in Disk!Ids, Disk!Register(t) \/ Disk!Registered(t)
    PROVE  DiskInv'
<1>1. /\ stage = "up" /\ t \in DOMAIN tasks
      /\ UNCHANGED <<stage, newestTask, cutOff, journal, slot, runs, saved, early, lost>>
  BY DEF Disk!Register, Disk!Registered, Disk!ghost
<1>2. PICK reg \in {"check", "done"} : tasks' = [tasks EXCEPT ![t].reg = reg]
  BY DEF Disk!Register, Disk!Registered
<1>3. tasks[t] \in Task /\ DOMAIN tasks \in SUBSET Disk!Ids /\ FlowList(flows)
      /\ tasks = [u \in DOMAIN tasks |-> tasks[u]]
  BY <1>1 DEF DiskInv, DiskTypes
<1>4. PICK new \in Task :
         /\ new.run = tasks[t].run /\ new.at = tasks[t].at /\ new.status = tasks[t].status
         /\ new.seq = tasks[t].seq /\ new.reg = reg
         /\ tasks' = [tasks EXCEPT ![t] = new]
  <2>1. [tasks[t] EXCEPT !.reg = reg] \in Task
    BY <1>3 DEF Task
  <2>2. tasks' = [tasks EXCEPT ![t] = [tasks[t] EXCEPT !.reg = reg]]
    BY <1>1, <1>2, <1>3
  <2>3. PICK new : new = [tasks[t] EXCEPT !.reg = reg]
    OBVIOUS
  <2>4. /\ new.run = tasks[t].run /\ new.at = tasks[t].at /\ new.status = tasks[t].status
        /\ new.seq = tasks[t].seq /\ new.reg = reg
    BY <1>3, <2>3 DEF Task
  <2> QED BY <2>1, <2>2, <2>3, <2>4
<1>5. FlowsFit' /\ FlowList(flows') /\ flowFile' \in {flowFile, flows', Torn}
  <2>1. CASE Disk!Register(t)
    <3>1. PICK e : /\ e = [id |-> nextFlow, task |-> t, status |-> "RUNNING", run |-> tasks[t].run]
                   /\ flows' = Append(flows, e) /\ flowFile' \in {flowFile, flows', Torn}
      BY <2>1 DEF Disk!Register, Disk!FlowsSaved
    <3>2. tasks'[t].reg = "check" /\ DOMAIN tasks' = DOMAIN tasks /\ tasks'[t].run = tasks[t].run
          /\ \A u \in DOMAIN tasks : u # t => tasks'[u] = tasks[u]
      BY <1>1, <1>3, <1>4, <2>1 DEF Disk!Register, Task
    <3>3. DOMAIN e = FlowFields /\ e.task = t /\ e.run = tasks[t].run
      BY <3>1 DEF FlowFields
    <3>4. /\ FlowList(flows') /\ DOMAIN flows' = DOMAIN flows \cup {Len(flows) + 1}
          /\ flows'[Len(flows) + 1] = e
          /\ \A k \in DOMAIN flows : flows'[k] = flows[k]
      <4>1. /\ FlowList(Append(flows, e))
            /\ DOMAIN Append(flows, e) = DOMAIN flows \cup {Len(flows) + 1}
            /\ Append(flows, e)[Len(flows) + 1] = e
            /\ \A k \in DOMAIN flows : Append(flows, e)[k] = flows[k]
        BY <1>3, <3>3, FlowAdded, Zenon
      <4>2. PICK c : c = flows' /\ c = Append(flows, e)
        BY <3>1
      <4>3. /\ FlowList(c) /\ DOMAIN c = DOMAIN flows \cup {Len(flows) + 1}
            /\ c[Len(flows) + 1] = e
            /\ \A k \in DOMAIN flows : c[k] = flows[k]
        BY <4>1, <4>2, Zenon
      <4> QED BY <4>2, <4>3, Zenon
    <3>5. FlowsFit'
      <4> SUFFICES ASSUME NEW k \in DOMAIN flows', flows'[k].status = "RUNNING", ~Disk!SharesTask(k)'
                   PROVE  /\ flows'[k].task \in DOMAIN tasks'
                          /\ tasks'[flows'[k].task].run = flows'[k].run
                          /\ tasks'[flows'[k].task].reg = "check" \/ tasks'[flows'[k].task].at # "over"
        BY DEF FlowsFit
      <4>1. CASE k = Len(flows) + 1
        BY <1>1, <3>2, <3>3, <3>4, <4>1
      <4>2. CASE k \in DOMAIN flows
        <5>1. flows'[k] = flows[k] /\ ~Disk!SharesTask(k)
          BY <3>4, <4>2 DEF Disk!SharesTask
        <5>2. /\ flows[k].task \in DOMAIN tasks /\ tasks[flows[k].task].run = flows[k].run
              /\ tasks[flows[k].task].reg = "check" \/ tasks[flows[k].task].at # "over"
          BY <4>2, <5>1 DEF DiskInv, FlowsFit
        <5> QED BY <3>2, <5>1, <5>2
      <4> QED BY <3>4, <4>1, <4>2
    <3> QED BY <3>1, <3>4, <3>5
  <2>2. CASE Disk!Registered(t) /\ tasks[t].status \in Disk!Ended
    BY <1>1, <1>4, <2>2, FlowMarked DEF Disk!Registered
  <2>3. CASE Disk!Registered(t) /\ tasks[t].status \notin Disk!Ended
    <3>1. flows' = flows /\ flowFile' = flowFile
      BY <2>3 DEF Disk!Registered
    <3>2. tasks[t].at # "over"
      BY <1>1, <2>3 DEF DiskInv, StatusFits
    <3> QED BY <1>1, <1>3, <1>4, <3>1, <3>2, FlowsStay
  <2> QED BY <2>1, <2>2, <2>3
<1>6. /\ journal' \in Seq(Record \cup {Torn}) /\ Disk!OneLifePerId'
      /\ \A i : Disk!RecordsOf(i)' = Disk!RecordsOf(i) /\ (Live(i)' <=> Live(i))
  BY <1>1, JournalStays
<1>7. tasks'[t] = new
  BY <1>1, <1>4
<1>8. StatusFits(t)' /\ (t \notin early => JournalFits(t)')
  BY <1>1, <1>4, <1>6, <1>7 DEF DiskInv, StatusFits, JournalFits, Disk!Ended
<1>9. Trusted(t)' =>
        /\ Disk!RecordsOf(t)' = {} => slot'[t] = Disk!NoCheckpoint
        /\ Live(t)' => Kept(t)'
        /\ new.at = "queued" => new.seq = 0 /\ saved'[t] = Missing
        /\ new.at = "running" => Alternates(t)'
  <2>1. Trusted(t)' => Trusted(t)
    BY <1>1 DEF Trusted
  <2>2. Trusted(t) =>
          /\ Disk!RecordsOf(t)' = {} => slot'[t] = Disk!NoCheckpoint
          /\ Live(t)' => Kept(t)'
          /\ new.at = "queued" => new.seq = 0 /\ saved'[t] = Missing
    BY <1>1, <1>4, <1>6 DEF DiskInv, CheckpointsFit, Kept
  <2>3. Trusted(t) /\ new.at = "running" => Alternates(t)'
    BY <1>1, <1>4, <1>7 DEF DiskInv, CheckpointsFit, Alternates, Disk!Slot
  <2> QED BY <2>1, <2>2, <2>3
<1>10. /\ slot' \in [Disk!Ids -> [{0, 1} -> Checkpoints \cup {Missing, Torn}]]
       /\ saved' \in [Disk!Ids -> Checkpoints \cup {Missing}]
  BY <1>1 DEF DiskInv, DiskTypes
<1>11. stage # "down" /\ lost' \in {lost, lost \cup {t}} /\ (flows = <<>> => flows' = <<>> \/ stage = "up")
  BY <1>1
<1>12. \A i \in Disk!Ids : i # t =>
          /\ Disk!RecordsOf(i)' = Disk!RecordsOf(i) /\ (Live(i)' <=> Live(i))
          /\ slot'[i] = slot[i] /\ saved'[i] = saved[i]
  BY <1>1, <1>6
<1> QED BY <1>1, <1>4, <1>5, <1>6, <1>8, <1>9, <1>10, <1>11, <1>12, TaskMoves, Zenon

\* A task starts, settles and is journaled: the files of the checkpoints stay.
LEMMA TaskIsJournaled ==
    ASSUME DiskInv, NEW t \in Disk!Ids,
           \/ Disk!StartCancelled(t) \/ Disk!Start(t) \/ Disk!Settle(t) \/ Disk!Journal(t)
    PROVE  DiskInv'
<1>1. /\ stage # "down" /\ t \in DOMAIN tasks
      /\ UNCHANGED <<stage, newestTask, cutOff, flows, slot, flowFile, runs, saved, early>>
  BY DEF Disk!StartCancelled, Disk!Start, Disk!Settle, Disk!Journal, Disk!At, Disk!disk,
         Disk!ghost, Disk!bounds
<1>2. /\ tasks[t] \in Task /\ StatusFits(t) /\ (t \notin early => JournalFits(t))
      /\ FlowList(flows)
  BY <1>1 DEF DiskInv, DiskTypes
<1>3. PICK to \in {"running", "settled", "over", "journaled", "swept"}, status \in {"RUNNING", "DONE"} :
         /\ tasks' = [tasks EXCEPT ![t].at = to, ![t].status = status]
         /\ \/ /\ to = "running" /\ status = "RUNNING" /\ tasks[t].at = "queued"
               /\ \/ Disk!Recorded(t, status, Missing)
                  \/ Disk!RecordTorn(t) \/ Disk!NotRecorded(t, status)
            \/ /\ to = Disk!AtEnd /\ status = "DONE" /\ journal' = journal /\ lost' = lost
               /\ tasks[t].at \in {"queued", "running"}
            \/ /\ to = "journaled" /\ status = "DONE" /\ tasks[t].at = "settled"
               /\ Disk!Recorded(t, status, Missing) \/ Disk!RecordTorn(t)
            \/ /\ to = "swept" /\ status = "DONE" /\ tasks[t].at = "settled"
               /\ Disk!NotRecorded(t, status)
  <2>1. CASE Disk!StartCancelled(t)
    BY <2>1 DEF Disk!StartCancelled, Disk!At, Disk!AtEnd, Disk!disk, Disk!ghost
  <2>2. CASE Disk!Start(t)
    BY <2>2 DEF Disk!Start, Disk!At
  <2>3. CASE Disk!Settle(t)
    BY <2>3 DEF Disk!Settle, Disk!At, Disk!AtEnd, Disk!Ended, Disk!disk, Disk!ghost
  <2>4. CASE Disk!Journal(t)
    <3>1. tasks[t].status = "DONE" /\ tasks[t].at = "settled"
      BY <1>2, <2>4 DEF Disk!Journal, Disk!At, StatusFits, Disk!Ended
    <3>2. \A p \in TaskPlaces :
            [tasks EXCEPT ![t].at = p] = [tasks EXCEPT ![t].at = p, ![t].status = "DONE"]
      BY <1>1, <1>2, <3>1 DEF DiskInv, DiskTypes, Task
    <3>3. \/ /\ Disk!Recorded(t, "DONE", Missing) \/ Disk!RecordTorn(t)
             /\ tasks' = [tasks EXCEPT ![t].at = "journaled"]
          \/ /\ Disk!NotRecorded(t, "DONE")
             /\ tasks' = [tasks EXCEPT ![t].at = "swept"]
      BY <2>4, <3>1 DEF Disk!Journal
    <3> QED BY <3>1, <3>2, <3>3 DEF TaskPlaces
  <2> QED BY <2>1, <2>2, <2>3, <2>4
<1>4. PICK new \in Task :
         /\ new.run = tasks[t].run /\ new.at = to /\ new.status = status
         /\ new.seq = tasks[t].seq /\ new.reg = tasks[t].reg
         /\ tasks' = [tasks EXCEPT ![t] = new]
  <2>1. [tasks[t] EXCEPT !.at = to, !.status = status] \in Task
    BY <1>2 DEF Task, TaskPlaces
  <2>2. tasks' = [tasks EXCEPT ![t] = [tasks[t] EXCEPT !.at = to, !.status = status]]
    BY <1>1, <1>3 DEF DiskInv, DiskTypes
  <2>3. PICK new : new = [tasks[t] EXCEPT !.at = to, !.status = status]
    OBVIOUS
  <2>4. /\ new.run = tasks[t].run /\ new.at = to /\ new.status = status
        /\ new.seq = tasks[t].seq /\ new.reg = tasks[t].reg
    BY <1>2, <2>3 DEF Task
  <2> QED BY <2>1, <2>2, <2>3, <2>4
<1>5. tasks'[t] = new
  BY <1>1, <1>4
<1>6. FlowsFit'
  <2>1. CASE to # "over"
    BY <1>1, <1>4, <2>1, FlowsStay
  <2>2. CASE to = "over"
    <3>1. stage \notin {"listening", "up"}
      BY <1>3, <2>2 DEF Disk!AtEnd
    <3> QED BY <1>1, <3>1 DEF DiskInv, DiskTypes, FlowsFit
  <2> QED BY <2>1, <2>2
<1>7. /\ journal' \in Seq(Record \cup {Torn}) /\ Disk!OneLifePerId'
      /\ lost' \in {lost, lost \cup {t}}
      /\ \A i \in Disk!Ids : i # t =>
            Disk!RecordsOf(i)' = Disk!RecordsOf(i) /\ (Live(i)' <=> Live(i))
      /\ StatusFits(t)' /\ (t \notin early => JournalFits(t)')
      /\ t \notin early /\ t \notin lost' =>
            /\ Disk!RecordsOf(t)' = {} => Disk!RecordsOf(t) = {}
            /\ Live(t)' => Live(t) \/ (to = "running" /\ Disk!RecordsOf(t) = {})
  <2>1. CASE to = "running"
    <3>1. /\ status = "RUNNING" /\ tasks[t].at = "queued"
          /\ \/ Disk!Recorded(t, status, Missing)
             \/ Disk!RecordTorn(t) \/ Disk!NotRecorded(t, status)
      BY <1>3, <2>1 DEF Disk!AtEnd
    <3>2. t \in early \/ Disk!RecordsOf(t) = {}
      BY <1>2, <3>1 DEF JournalFits
    <3>3. /\ journal' \in Seq(Record \cup {Torn}) /\ Disk!OneLifePerId'
          /\ lost' \in {lost, lost \cup {t}}
          /\ \A i \in Disk!Ids : i # t =>
                Disk!RecordsOf(i)' = Disk!RecordsOf(i) /\ (Live(i)' <=> Live(i))
          /\ \/ /\ Disk!RecordsOf(t)' # {}
                /\ Live(t)' <=> Disk!RecordsOf(t) = {} /\ status = "RUNNING"
             \/ /\ Disk!RecordsOf(t)' = Disk!RecordsOf(t) /\ (Live(t)' <=> Live(t))
                /\ t \in lost' \/ (status # "RUNNING" /\ Disk!NotRecorded(t, status))
      BY <1>1, <3>1, <3>2, JournalGoesOn
    <3>4. StatusFits(t)' /\ (t \notin early => JournalFits(t)')
      BY <1>4, <1>5, <2>1, <3>1, <3>2, <3>3 DEF StatusFits, JournalFits, Disk!Ended
    <3> QED BY <2>1, <3>1, <3>2, <3>3, <3>4
  <2>2. CASE to \in {"settled", "over"}
    <3>1. /\ journal' = journal /\ lost' = lost /\ status = "DONE"
          /\ tasks[t].at \in {"queued", "running"}
      BY <1>3, <2>2
    <3>2. /\ journal' \in Seq(Record \cup {Torn}) /\ Disk!OneLifePerId'
          /\ \A i : Disk!RecordsOf(i)' = Disk!RecordsOf(i) /\ (Live(i)' <=> Live(i))
      BY <1>1, <3>1, JournalStays
    <3>3. t \notin early => Live(t) \/ Disk!RecordsOf(t) = {}
      BY <1>2, <3>1 DEF JournalFits
    <3>4. StatusFits(t)' /\ (t \notin early => JournalFits(t)')
      BY <1>4, <1>5, <2>2, <3>1, <3>2, <3>3 DEF StatusFits, JournalFits, Disk!Ended
    <3> QED BY <3>1, <3>2, <3>4
  <2>3. CASE to \in {"journaled", "swept"}
    <3>1. /\ status = "DONE" /\ tasks[t].at = "settled"
          /\ \/ Disk!Recorded(t, status, Missing) /\ to = "journaled"
             \/ Disk!RecordTorn(t) /\ to = "journaled"
             \/ Disk!NotRecorded(t, status) /\ to = "swept"
      BY <1>3, <2>3 DEF Disk!AtEnd
    <3>2. t \in early \/ Live(t) \/ Disk!RecordsOf(t) = {}
      BY <1>2, <3>1 DEF JournalFits
    <3>3. /\ journal' \in Seq(Record \cup {Torn}) /\ Disk!OneLifePerId'
          /\ lost' \in {lost, lost \cup {t}}
          /\ \A i \in Disk!Ids : i # t =>
                Disk!RecordsOf(i)' = Disk!RecordsOf(i) /\ (Live(i)' <=> Live(i))
          /\ \/ /\ Disk!RecordsOf(t)' # {}
                /\ Live(t)' <=> Disk!RecordsOf(t) = {} /\ status = "RUNNING"
             \/ /\ Disk!RecordsOf(t)' = Disk!RecordsOf(t) /\ (Live(t)' <=> Live(t))
                /\ t \in lost' \/ (status # "RUNNING" /\ Disk!NotRecorded(t, status))
      BY <1>1, <3>1, <3>2, JournalGoesOn
    <3>4. Disk!NotRecorded(t, status) /\ t \notin lost' => to = "swept"
      <4>1. CASE Disk!Recorded(t, status, Missing)
        <5>1. Len(journal') = Len(journal) + 1 /\ Len(journal) \in Nat
          <6>1. [id |-> t, status |-> status, cp |-> Missing] \in Record \cup {Torn}
            BY <3>1 DEF Record
          <6> QED BY <4>1, <6>1, AppendProperties, LenProperties
                  DEF Disk!Recorded, DiskInv, DiskTypes
        <5> QED BY <5>1 DEF Disk!NotRecorded
      <4>2. CASE Disk!RecordTorn(t)
        BY <4>2 DEF Disk!RecordTorn
      <4> QED BY <3>1, <4>1, <4>2
    <3>5. StatusFits(t)' /\ (t \notin early => JournalFits(t)')
      BY <1>4, <1>5, <2>3, <3>1, <3>3, <3>4 DEF StatusFits, JournalFits, Disk!Ended
    <3> QED BY <3>1, <3>3, <3>5
  <2> QED BY <2>1, <2>2, <2>3
<1>8. slot'[t] = slot[t] /\ saved'[t] = saved[t]
  BY <1>1
<1>9. Trusted(t)' => Trusted(t) /\ t \notin early /\ t \notin lost'
  BY <1>1, <1>7 DEF Trusted
<1>10. Trusted(t) /\ to = "running" =>
          saved[t] = Missing /\ tasks[t].seq = 0 /\ slot[t] = Disk!NoCheckpoint
  <2>1. to = "running" => tasks[t].at = "queued"
    BY <1>3 DEF Disk!AtEnd
  <2> QED BY <1>1, <1>2, <2>1 DEF DiskInv, CheckpointsFit, JournalFits, Trusted
<1>11. Trusted(t)' =>
          /\ Disk!RecordsOf(t)' = {} => slot'[t] = Disk!NoCheckpoint
          /\ Live(t)' => Kept(t)'
          /\ new.at = "queued" => new.seq = 0 /\ saved'[t] = Missing
          /\ new.at = "running" => Alternates(t)'
  <2> SUFFICES ASSUME Trusted(t)'
               PROVE  /\ Disk!RecordsOf(t)' = {} => slot'[t] = Disk!NoCheckpoint
                      /\ Live(t)' => Kept(t)'
                      /\ new.at = "running" => Alternates(t)'
    BY <1>4
  <2>1. Trusted(t) /\ t \notin early /\ t \notin lost'
    BY <1>9
  <2>2. Disk!RecordsOf(t)' = {} => slot'[t] = Disk!NoCheckpoint
    BY <1>7, <1>8, <2>1 DEF DiskInv, CheckpointsFit
  <2>3. ASSUME Live(t) PROVE Kept(t)'
    BY <1>8, <2>1, <2>3 DEF DiskInv, CheckpointsFit, Kept
  <2>4. ASSUME to = "running" PROVE Kept(t)'
    BY <1>8, <1>10, <2>1, <2>4 DEF Kept, IsWhole, Disk!NoCheckpoint
  <2>5. new.at = "running" => Alternates(t)'
    BY <1>4, <1>5, <1>8, <1>10, <2>1 DEF Alternates
  <2> QED BY <1>7, <2>1, <2>2, <2>3, <2>4, <2>5
<1>12. /\ slot' \in [Disk!Ids -> [{0, 1} -> Checkpoints \cup {Missing, Torn}]]
       /\ saved' \in [Disk!Ids -> Checkpoints \cup {Missing}]
  BY <1>1 DEF DiskInv, DiskTypes
<1>13. /\ FlowList(flows') /\ flowFile' \in {flowFile, flows', Torn}
       /\ flows = <<>> => flows' = <<>> \/ stage = "up"
  BY <1>1, <1>2
<1>14. \A i \in Disk!Ids : i # t => slot'[i] = slot[i] /\ saved'[i] = saved[i]
  BY <1>1
<1> QED BY <1>1, <1>4, <1>6, <1>7, <1>11, <1>12, <1>13, <1>14, TaskMoves, Zenon

\* A checkpoint is written, or cut off, and the files are removed at the end.
LEMMA FilesOfCheckpoint ==
    ASSUME DiskInv, NEW t \in DOMAIN tasks, NEW c \in Checkpoints \cup {Torn},
           slot' = [slot EXCEPT ![t][Disk!Slot(tasks[t].seq + 1)] = c],
           \/ c = Torn /\ saved' = saved
           \/ c # Torn /\ c.seq = tasks[t].seq + 1 /\ saved' = [saved EXCEPT ![t] = c]
    PROVE  /\ slot' \in [Disk!Ids -> [{0, 1} -> Checkpoints \cup {Missing, Torn}]]
           /\ saved' \in [Disk!Ids -> Checkpoints \cup {Missing}]
           /\ \A i \in Disk!Ids : i # t => slot'[i] = slot[i] /\ saved'[i] = saved[i]
           /\ Kept(t) /\ Alternates(t) => Kept(t)'
           /\ slot'[t][Disk!Slot(tasks[t].seq)] = slot[t][Disk!Slot(tasks[t].seq)]
           /\ c # Torn => saved'[t] = c /\ slot'[t][Disk!Slot(tasks[t].seq + 1)] = c
<1>1. /\ t \in Disk!Ids /\ tasks[t].seq \in Nat
      /\ slot \in [Disk!Ids -> [{0, 1} -> Checkpoints \cup {Missing, Torn}]]
      /\ saved \in [Disk!Ids -> Checkpoints \cup {Missing}]
  BY DEF DiskInv, DiskTypes, Task
<1>2. PICK s \in {0, 1} : /\ s = Disk!Slot(tasks[t].seq + 1)
                          /\ 1 - s = Disk!Slot(tasks[t].seq) /\ 1 - s \in {0, 1} /\ s # 1 - s
  BY <1>1 DEF Disk!Slot
<1>3. /\ slot' = [slot EXCEPT ![t] = [slot[t] EXCEPT ![s] = c]]
      /\ c # Torn => c \in Checkpoints
  BY <1>1, <1>2
<1>4. /\ slot' \in [Disk!Ids -> [{0, 1} -> Checkpoints \cup {Missing, Torn}]]
      /\ slot'[t][s] = c /\ slot'[t][1 - s] = slot[t][1 - s]
      /\ \A i \in Disk!Ids : i # t => slot'[i] = slot[i]
  <2>1. /\ [slot[t] EXCEPT ![s] = c] \in [{0, 1} -> Checkpoints \cup {Missing, Torn}]
        /\ [slot[t] EXCEPT ![s] = c][s] = c /\ [slot[t] EXCEPT ![s] = c][1 - s] = slot[t][1 - s]
    BY <1>1, <1>2
  <2>2. PICK f : f = [slot[t] EXCEPT ![s] = c]
    OBVIOUS
  <2>3. slot' = [slot EXCEPT ![t] = f]
    BY <1>3, <2>2
  <2> QED BY <1>1, <2>1, <2>2, <2>3
<1>5. /\ saved' \in [Disk!Ids -> Checkpoints \cup {Missing}]
      /\ \A i \in Disk!Ids : i # t => saved'[i] = saved[i]
      /\ saved'[t] = IF c = Torn THEN saved[t] ELSE c
  BY <1>1, <1>3
<1>6. Kept(t) /\ Alternates(t) =>
      \/ saved[t] = Missing /\ ~IsWhole(slot[t][1 - s])
      \/ /\ saved[t] # Missing /\ saved[t].seq = tasks[t].seq
         /\ slot[t][1 - s] = saved[t]
  BY <1>1, <1>2 DEF Alternates, Kept
<1>7. ASSUME Kept(t), Alternates(t) PROVE Kept(t)'
  <2>1. CASE c = Torn
    <3>1. CASE saved[t] = Missing
      <4>1. \A u \in {0, 1} : u = s \/ u = 1 - s
        BY <1>2
      <4>2. ~IsWhole(slot'[t][s]) /\ ~IsWhole(slot'[t][1 - s])
        BY <1>4, <1>6, <1>7, <2>1, <3>1 DEF IsWhole
      <4>3. \A u \in {0, 1} : ~IsWhole(slot'[t][u])
        BY <4>1, <4>2
      <4> QED BY <1>5, <2>1, <3>1, <4>3 DEF Kept, IsWhole
    <3>2. CASE saved[t] # Missing
      <4>1. slot'[t][1 - s] = saved'[t] /\ saved'[t] # Missing
        BY <1>4, <1>5, <1>6, <1>7, <2>1, <3>2
      <4>2. slot'[t][1 - (1 - s)] = Torn
        BY <1>4, <2>1
      <4> QED BY <1>2, <4>1, <4>2 DEF Kept, IsWhole
    <3> QED BY <3>1, <3>2
  <2>2. CASE c # Torn
    <3>1. slot'[t][s] = saved'[t] /\ saved'[t] = c /\ c # Missing
      BY <1>3, <1>4, <1>5, <2>2, DiskAssumption
    <3>2. IsWhole(slot'[t][1 - s]) => slot'[t][1 - s].seq < c.seq
      <4>1. c.seq = tasks[t].seq + 1
        BY <2>2
      <4> QED BY <1>1, <1>4, <1>6, <1>7, <4>1 DEF IsWhole
    <3> QED BY <3>1, <3>2 DEF Kept, IsWhole
  <2> QED BY <2>1, <2>2
<1> QED BY <1>2, <1>4, <1>5, <1>7

LEMMA CheckpointWritten ==
    ASSUME DiskInv, NEW t \in Disk!Ids, Disk!Checkpoint(t) \/ Disk!CheckpointFails(t)
    PROVE  DiskInv'
<1>1. /\ stage # "down" /\ t \in DOMAIN tasks /\ tasks[t].at = "running"
      /\ UNCHANGED <<stage, newestTask, cutOff, flows, journal, flowFile, runs, early, lost>>
  BY DEF Disk!Checkpoint, Disk!CheckpointFails, Disk!At, Disk!memory, Disk!bounds, Disk!ghost
<1>2. /\ tasks[t] \in Task /\ FlowList(flows) /\ tasks = [u \in DOMAIN tasks |-> tasks[u]]
      /\ StatusFits(t) /\ (t \notin early => JournalFits(t))
      /\ Trusted(t) => Live(t) /\ Kept(t) /\ Alternates(t)
  BY <1>1 DEF DiskInv, DiskTypes, JournalFits, CheckpointsFit, Trusted
<1>3. PICK c \in Checkpoints \cup {Torn} :
         /\ slot' = [slot EXCEPT ![t][Disk!Slot(tasks[t].seq + 1)] = c]
         /\ \/ c = Torn /\ saved' = saved /\ tasks' = tasks
            \/ /\ c # Torn /\ c.seq = tasks[t].seq + 1 /\ saved' = [saved EXCEPT ![t] = c]
               /\ tasks' = [tasks EXCEPT ![t].seq = @ + 1]
  <2>1. CASE Disk!Checkpoint(t)
    <3>1. PICK c : /\ c = [run |-> tasks[t].run, seq |-> tasks[t].seq + 1]
                   /\ slot' = [slot EXCEPT ![t][Disk!Slot(c.seq)] = c]
                   /\ saved' = [saved EXCEPT ![t] = c]
                   /\ tasks' = [tasks EXCEPT ![t].seq = @ + 1]
      BY <2>1 DEF Disk!Checkpoint
    <3>2. c \in Checkpoints /\ c.seq = tasks[t].seq + 1
      BY <1>2, <3>1 DEF Checkpoints, Task
    <3>3. c # Torn
      BY <3>2, DiskAssumption
    <3> QED BY <3>1, <3>2, <3>3
  <2>2. CASE Disk!CheckpointFails(t)
    BY <2>2 DEF Disk!CheckpointFails, Disk!memory, Disk!ghost
  <2> QED BY <2>1, <2>2
<1>4. /\ slot' \in [Disk!Ids -> [{0, 1} -> Checkpoints \cup {Missing, Torn}]]
      /\ saved' \in [Disk!Ids -> Checkpoints \cup {Missing}]
      /\ \A i \in Disk!Ids : i # t => slot'[i] = slot[i] /\ saved'[i] = saved[i]
      /\ Kept(t) /\ Alternates(t) => Kept(t)'
      /\ slot'[t][Disk!Slot(tasks[t].seq)] = slot[t][Disk!Slot(tasks[t].seq)]
      /\ c # Torn => saved'[t] = c /\ slot'[t][Disk!Slot(tasks[t].seq + 1)] = c
  <2>1. \/ c = Torn /\ saved' = saved
        \/ c # Torn /\ c.seq = tasks[t].seq + 1 /\ saved' = [saved EXCEPT ![t] = c]
    BY <1>3
  <2> QED BY <1>1, <1>3, <2>1, FilesOfCheckpoint, Zenon
<1>5. PICK new \in Task :
         /\ new.run = tasks[t].run /\ new.at = "running" /\ new.status = tasks[t].status
         /\ new.seq = (IF c = Torn THEN tasks[t].seq ELSE tasks[t].seq + 1)
         /\ new.reg = tasks[t].reg
         /\ tasks' = [tasks EXCEPT ![t] = new]
  <2>1. CASE c = Torn
    <3>1. tasks' = [tasks EXCEPT ![t] = tasks[t]]
      BY <1>2, <1>3, <2>1
    <3> QED BY <1>1, <1>2, <2>1, <3>1
  <2>2. CASE c # Torn
    <3>1. [tasks[t] EXCEPT !.seq = @ + 1] \in Task
      BY <1>2 DEF Task
    <3>2. tasks' = [tasks EXCEPT ![t] = [tasks[t] EXCEPT !.seq = @ + 1]]
      BY <1>1, <1>2, <1>3, <2>2
    <3>3. PICK new : new = [tasks[t] EXCEPT !.seq = @ + 1]
      OBVIOUS
    <3>4. /\ new.run = tasks[t].run /\ new.at = "running" /\ new.status = tasks[t].status
          /\ new.seq = tasks[t].seq + 1 /\ new.reg = tasks[t].reg
      BY <1>1, <1>2, <3>3 DEF Task
    <3> QED BY <2>2, <3>1, <3>2, <3>3, <3>4
  <2> QED BY <2>1, <2>2
<1>6. tasks'[t] = new
  BY <1>1, <1>5
<1>7. FlowsFit'
  BY <1>1, <1>5, FlowsStay
<1>8. /\ journal' \in Seq(Record \cup {Torn}) /\ Disk!OneLifePerId'
      /\ \A i : Disk!RecordsOf(i)' = Disk!RecordsOf(i) /\ (Live(i)' <=> Live(i))
  BY <1>1, JournalStays
<1>9. StatusFits(t)' /\ (t \notin early => JournalFits(t)')
  BY <1>1, <1>2, <1>5, <1>6, <1>8 DEF StatusFits, JournalFits, Disk!Ended
<1>10. Trusted(t)' => Trusted(t)
  BY <1>1 DEF Trusted
<1>11. Trusted(t) => Disk!RecordsOf(t)' # {} /\ Kept(t)'
  BY <1>2, <1>4, <1>8 DEF Live
<1>12. ASSUME Trusted(t) PROVE Alternates(t)'
  <2>1. CASE c = Torn
    <3>1. new.seq = tasks[t].seq /\ saved'[t] = saved[t]
      BY <1>3, <1>5, <2>1
    <3>2. CASE saved[t] = Missing
      BY <1>2, <1>6, <1>12, <3>1, <3>2 DEF Alternates
    <3>3. CASE saved[t] # Missing
      BY <1>2, <1>4, <1>6, <1>12, <2>1, <3>1, <3>3 DEF Alternates, Disk!Slot
    <3> QED BY <3>2, <3>3
  <2>2. CASE c # Torn
    <3>1. new.seq = tasks[t].seq + 1 /\ tasks[t].seq \in Nat /\ c.seq = new.seq /\ c \in Checkpoints
      BY <1>2, <1>3, <1>5, <2>2 DEF Task
    <3>2. c # Missing
      BY <3>1, DiskAssumption
    <3> QED BY <1>4, <1>6, <2>2, <3>1, <3>2 DEF Alternates, Disk!Slot
  <2> QED BY <2>1, <2>2
<1>13. Trusted(t)' =>
          /\ Disk!RecordsOf(t)' = {} => slot'[t] = Disk!NoCheckpoint
          /\ Live(t)' => Kept(t)'
          /\ new.at = "queued" => new.seq = 0 /\ saved'[t] = Missing
          /\ new.at = "running" => Alternates(t)'
  BY <1>5, <1>10, <1>11, <1>12
<1>14. /\ FlowList(flows') /\ flowFile' \in {flowFile, flows', Torn}
       /\ lost' \in {lost, lost \cup {t}} /\ (flows = <<>> => flows' = <<>> \/ stage = "up")
  BY <1>1, <1>2
<1> QED BY <1>1, <1>4, <1>5, <1>7, <1>8, <1>9, <1>13, <1>14, TaskMoves, Zenon

\* The files of an ended task are removed, then its flow is marked.
LEMMA TaskIsOver ==
    ASSUME DiskInv, NEW t \in Disk!Ids, Disk!Sweep(t) \/ Disk!Mirror(t) PROVE DiskInv'
<1>1. /\ stage # "down" /\ t \in DOMAIN tasks /\ tasks[t].at \in {"journaled", "swept"}
      /\ UNCHANGED <<stage, newestTask, cutOff, journal, runs, saved, early, lost>>
  BY DEF Disk!Sweep, Disk!Mirror, Disk!At, Disk!bounds, Disk!ghost
<1>2. /\ tasks[t] \in Task /\ StatusFits(t) /\ (t \notin early => JournalFits(t))
      /\ FlowList(flows)
      /\ tasks = [u \in DOMAIN tasks |-> tasks[u]]
      /\ slot \in [Disk!Ids -> [{0, 1} -> Checkpoints \cup {Missing, Torn}]]
      /\ saved \in [Disk!Ids -> Checkpoints \cup {Missing}]
  BY <1>1 DEF DiskInv, DiskTypes
<1>3. /\ tasks[t].status \in Disk!Ended
      /\ Trusted(t) /\ tasks[t].at = "journaled" => ~Live(t)
  BY <1>1, <1>2 DEF StatusFits, JournalFits, Trusted
<1>4. PICK to \in {"swept", "over"} : tasks' = [tasks EXCEPT ![t].at = to]
                                      /\ (Disk!Sweep(t) => to = "swept")
  BY DEF Disk!Sweep, Disk!Mirror, Disk!At
<1>5. PICK new \in Task :
         /\ new.run = tasks[t].run /\ new.at = to /\ new.status = tasks[t].status
         /\ tasks' = [tasks EXCEPT ![t] = new]
  <2>1. [tasks[t] EXCEPT !.at = to] \in Task
    BY <1>2 DEF Task, TaskPlaces
  <2>2. tasks' = [tasks EXCEPT ![t] = [tasks[t] EXCEPT !.at = to]]
    BY <1>1, <1>2, <1>4
  <2>3. PICK new : new = [tasks[t] EXCEPT !.at = to]
    OBVIOUS
  <2>4. new.run = tasks[t].run /\ new.at = to /\ new.status = tasks[t].status
    BY <1>2, <2>3 DEF Task
  <2> QED BY <2>1, <2>2, <2>3, <2>4
<1>6. tasks'[t] = new
  BY <1>1, <1>5
<1>7. /\ FlowsFit' /\ FlowList(flows') /\ flowFile' \in {flowFile, flows', Torn}
      /\ flows = <<>> => flows' = <<>> \/ stage = "up"
  <2>1. CASE Disk!Sweep(t)
    <3>1. flows' = flows /\ flowFile' = flowFile /\ new.at # "over"
      BY <1>4, <1>5, <2>1 DEF Disk!Sweep
    <3> QED BY <1>1, <1>2, <1>5, <3>1, FlowsStay
  <2>2. CASE Disk!Mirror(t)
    BY <1>1, <1>3, <1>5, <2>2, FlowMarked DEF Disk!Mirror
  <2> QED BY <2>1, <2>2
<1>8. /\ slot' \in [Disk!Ids -> [{0, 1} -> Checkpoints \cup {Missing, Torn}]]
      /\ \A i \in Disk!Ids : i # t => slot'[i] = slot[i]
      /\ slot'[t] = slot[t] \/ (slot'[t] = Disk!NoCheckpoint /\ tasks[t].at = "journaled")
  <2>1. CASE slot' = slot
    BY <1>2, <2>1
  <2>2. CASE slot' = [slot EXCEPT ![t] = Disk!NoCheckpoint] /\ tasks[t].at = "journaled"
    BY <1>1, <1>2, <2>2 DEF Disk!NoCheckpoint, DiskInv, DiskTypes
  <2> QED BY <2>1, <2>2 DEF Disk!Sweep, Disk!Mirror, Disk!At
<1>9. /\ journal' \in Seq(Record \cup {Torn}) /\ Disk!OneLifePerId'
      /\ \A i : Disk!RecordsOf(i)' = Disk!RecordsOf(i) /\ (Live(i)' <=> Live(i))
  BY <1>1, JournalStays
<1>10. StatusFits(t)' /\ (t \notin early => JournalFits(t)')
  BY <1>3, <1>5, <1>6, <1>9 DEF StatusFits, JournalFits, Disk!Ended
<1>11. Trusted(t)' =>
          /\ Disk!RecordsOf(t)' = {} => slot'[t] = Disk!NoCheckpoint
          /\ Live(t)' => Kept(t)'
          /\ new.at = "queued" => new.seq = 0 /\ saved'[t] = Missing
          /\ new.at = "running" => Alternates(t)'
  <2>1. Trusted(t)' => Trusted(t)
    BY <1>1 DEF Trusted
  <2>2. Trusted(t) => /\ Disk!RecordsOf(t)' = {} => slot'[t] = Disk!NoCheckpoint
                      /\ Live(t)' => Kept(t)'
    BY <1>1, <1>3, <1>8, <1>9 DEF DiskInv, DiskTypes, CheckpointsFit, Kept
  <2> QED BY <1>5, <2>1, <2>2
<1>12. /\ saved' \in [Disk!Ids -> Checkpoints \cup {Missing}]
       /\ \A i \in Disk!Ids : i # t => saved'[i] = saved[i]
       /\ lost' \in {lost, lost \cup {t}}
  BY <1>1, <1>2
<1> QED BY <1>1, <1>5, <1>7, <1>8, <1>9, <1>10, <1>11, <1>12, TaskMoves, Zenon

\* What is written when the process dies may be cut off.
LEMMA DiskDies == ASSUME DiskInv, Disk!Crash PROVE DiskInv'
<1>1. /\ stage' = "down" /\ newestTask' = 0 /\ DOMAIN tasks' = {} /\ flows' = <<>>
      /\ tasks' = [t \in DOMAIN tasks' |-> tasks'[t]]
      /\ journal' \in {journal, Append(journal, Torn)} /\ flowFile' \in {flowFile, Torn}
      /\ cutOff' = {} /\ UNCHANGED <<runs, saved, early, lost>>
  BY DEF Disk!Crash, Disk!Empty, Disk!TornJournal, Disk!ghost
<1>2. /\ journal' \in Seq(Record \cup {Torn}) /\ Disk!OneLifePerId'
      /\ \A i : Disk!RecordsOf(i)' = Disk!RecordsOf(i) /\ (Live(i)' <=> Live(i))
  BY <1>1, JournalStays, TornLine
<1>3. /\ slot' \in [Disk!Ids -> [{0, 1} -> Checkpoints \cup {Missing, Torn}]]
      /\ \A i \in Disk!Ids : Trusted(i) /\ Live(i) => Kept(i)'
      /\ \A i \in Disk!Ids : Trusted(i) /\ Disk!RecordsOf(i) = {} => slot'[i] = Disk!NoCheckpoint
  <2>1. CASE slot' = slot
    BY <1>1, <2>1 DEF DiskInv, DiskTypes, CheckpointsFit, Kept
  <2>2. ASSUME NEW t \in DOMAIN tasks, tasks[t].at = "running", slot' = Disk!TornSlot(t)
        PROVE  <1>3!1 /\ <1>3!2 /\ <1>3!3
    <3>1. /\ Trusted(t) => Live(t) /\ Kept(t) /\ Alternates(t)
          /\ t \in Disk!Ids
          /\ slot' = [slot EXCEPT ![t][Disk!Slot(tasks[t].seq + 1)] = Torn]
      BY <2>2 DEF DiskInv, DiskTypes, JournalFits, CheckpointsFit, Disk!TornSlot, Trusted
    <3>2. PICK c \in Checkpoints \cup {Torn} : c = Torn
      OBVIOUS
    <3>3. slot' = [slot EXCEPT ![t][Disk!Slot(tasks[t].seq + 1)] = c]
      BY <3>1, <3>2
    <3>4. /\ slot' \in [Disk!Ids -> [{0, 1} -> Checkpoints \cup {Missing, Torn}]]
          /\ \A i \in Disk!Ids : i # t => slot'[i] = slot[i]
          /\ Kept(t) /\ Alternates(t) => Kept(t)'
      BY <1>1, <3>1, <3>2, <3>3, FilesOfCheckpoint, Zenon
    <3>5. \A i \in Disk!Ids : Trusted(i) /\ Live(i) => Kept(i)'
      <4>1. ASSUME NEW i \in Disk!Ids, Trusted(i), Live(i) PROVE Kept(i)'
        <5>1. CASE i = t
          BY <3>1, <3>4, <4>1, <5>1
        <5>2. CASE i # t
          BY <1>1, <3>4, <4>1, <5>2 DEF DiskInv, CheckpointsFit, Kept
        <5> QED BY <5>1, <5>2
      <4> QED BY <4>1
    <3>6. Trusted(t) => Disk!RecordsOf(t) # {}
      BY <3>1 DEF Live
    <3> QED BY <3>4, <3>5, <3>6 DEF DiskInv, CheckpointsFit
  <2> QED BY <2>1, <2>2 DEF Disk!Crash
<1>4. DiskTypes'
  <2>1. FlowList(<<>>) /\ (flowFile' \notin {Missing, Torn} => FlowList(flowFile'))
    BY <1>1 DEF DiskInv, DiskTypes, FlowList
  <2>2. FlowList(flows') /\ newestTask' \in Nat /\ DOMAIN tasks' \in SUBSET Disk!Ids
    BY <1>1, <2>1
  <2> QED BY <1>1, <1>2, <1>3, <2>1, <2>2 DEF DiskInv, DiskTypes, Disk!Phases
<1>5. IdsRise' /\ Recovers'
  BY <1>1 DEF IdsRise, Recovers
<1>6. CheckpointsFit'
  <2>1. \A i : Trusted(i)' <=> Trusted(i)
    BY <1>1 DEF Trusted
  <2>2. \A i \in Disk!Ids : Trusted(i)' /\ Live(i)' => Kept(i)'
    BY <1>2, <1>3, <2>1
  <2> QED BY <1>1, <1>2, <1>3, <2>1, <2>2 DEF CheckpointsFit, Disk!NoCheckpoint
<1>7. FlowsFit' /\ \A t \in DOMAIN tasks' : StatusFits(t)' /\ (t \notin early' => JournalFits(t)')
  BY <1>1 DEF FlowsFit
<1> QED BY <1>2, <1>4, <1>5, <1>6, <1>7 DEF DiskInv

LEMMA DiskStep == DiskInv /\ [Disk!Next]_(Disk!vars) => DiskInv'
<1> SUFFICES ASSUME DiskInv, [Disk!Next]_(Disk!vars) PROVE DiskInv'
  OBVIOUS
<1>1. CASE \/ Disk!Boot \/ Disk!ReadJournal \/ Disk!EnsureNextId \/ Disk!Listen
           \/ Disk!Open \/ Disk!Crash
  BY <1>1, DiskBoots, FlowsLoaded, DiskDies
<1>2. CASE \/ Disk!Submit("chat") \/ Disk!Submit("flow")
           \/ \E k \in 1 .. MaxRuns : Disk!ResumeFlow(k)
  BY <1>2, TaskAccepted DEF Disk!ResumeFlow
<1>3. ASSUME NEW t \in Disk!Ids,
             \/ Disk!Interrupt(t) \/ Disk!ResumeTask(t) \/ Disk!Register(t) \/ Disk!Registered(t)
             \/ Disk!StartCancelled(t) \/ Disk!Start(t) \/ Disk!Checkpoint(t)
             \/ Disk!CheckpointFails(t) \/ Disk!Settle(t) \/ Disk!Journal(t)
             \/ Disk!Sweep(t) \/ Disk!Mirror(t)
      PROVE  DiskInv'
  BY <1>3, TaskInterrupted, TaskAccepted, RunRegistered, TaskIsJournaled, CheckpointWritten,
     TaskIsOver DEF Disk!ResumeTask
<1>4. CASE UNCHANGED Disk!vars
  <2>1. UNCHANGED <<stage, newestTask, tasks, cutOff, flows, journal, slot, flowFile, runs,
                    saved, early, lost>>
    BY <1>4 DEF Disk!vars, Disk!memory, Disk!disk, Disk!bounds, Disk!ghost
  <2>2. \A i : Disk!RecordsOf(i)' = Disk!RecordsOf(i) /\ (Live(i)' <=> Live(i))
    BY <2>1, JournalStays
  <2>3. DiskTypes' /\ Disk!OneLifePerId'
    BY <2>1, JournalStays DEF DiskInv, DiskTypes, FlowList
  <2>4. \A t \in DOMAIN tasks' : StatusFits(t)' /\ (t \notin early' => JournalFits(t)')
    BY <2>1, <2>2 DEF DiskInv, StatusFits, JournalFits, Disk!Ended
  <2>5. IdsRise' /\ Recovers'
    BY <2>1, <2>2 DEF DiskInv, IdsRise, Recovers, Disk!Journaled
  <2>6. CheckpointsFit'
    BY <2>1, <2>2 DEF DiskInv, CheckpointsFit, Trusted, Kept, Alternates, Disk!Slot,
       Disk!NoCheckpoint
  <2>7. FlowsFit'
    BY <2>1 DEF DiskInv, FlowsFit, Disk!SharesTask
  <2> QED BY <2>3, <2>4, <2>5, <2>6, <2>7 DEF DiskInv
<1> QED BY <1>1, <1>2, <1>3, <1>4 DEF Disk!Next

LEMMA DiskInvIsEnough == DiskInv => Disk!OneLifePerId /\ Disk!FlowFollowsRun
<1> SUFFICES ASSUME DiskInv, NEW k \in DOMAIN flows, ~Disk!SharesTask(k), flows[k].status = "RUNNING"
             PROVE  \E t \in DOMAIN tasks :
                       /\ flows[k].run = tasks[t].run
                       /\ tasks[t].at # "over" \/ tasks[t].reg # "done"
  BY DEF DiskInv, Disk!FlowFollowsRun, Disk!Followed
<1>1. /\ flows[k].task \in DOMAIN tasks /\ tasks[flows[k].task].run = flows[k].run
      /\ tasks[flows[k].task].reg = "check" \/ tasks[flows[k].task].at # "over"
  BY DEF DiskInv, FlowsFit
<1> QED BY <1>1

LEMMA OthersLeaveDisk == [Next]_vars => [Disk!Next]_(Disk!vars)
BY DEF Next, vars, diskVars, Disk!vars, Disk!memory, Disk!disk, Disk!bounds, Disk!ghost

\* Each id's life is told once, a run listed as running has not ended, and the
\* record of an interrupted task has the last checkpoint that was completely
\* written, wherever the process died and whatever could not be written
\* (tasklog.c, flow_store.c) - but for ids that the poller was dealt before they
\* were raised, and for the checkpoints of a task whose journal is not whole.
THEOREM DiskSurvives == Spec => DiskSafe
<1>1. Init => DiskInv
  BY DiskStarts DEF Init
<1>2. DiskInv /\ [Next]_vars => DiskInv'
  BY OthersLeaveDisk, DiskStep
<1>3. DiskInv => (part = "disk" => Disk!OneLifePerId /\ Disk!FlowFollowsRun)
  BY DiskInvIsEnough
<1>4. DiskInv =>
        [\A i \in Disk!Ids \ (early \cup lost) :
            Disk!Interrupt(i) /\ journal' # journal /\ Disk!Last(journal') # Torn =>
                Disk!Last(journal').cp = saved[i]]_(Disk!vars)
  BY TaskInterrupted DEF Trusted
<1> QED BY <1>1, <1>2, <1>3, <1>4, PTL DEF Spec, DiskSafe, Disk!NewestCheckpointSurvives
=============================================================================
