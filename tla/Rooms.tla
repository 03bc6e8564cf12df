-------------------------------- MODULE Rooms --------------------------------
(***************************************************************************)
(* Group rooms (im/im.c and im_run_round, im_dispatch in                   *)
(* cognitive_os_agent.c).  A human message starts a discussion: the agents *)
(* of the room answer in turn, for some rounds or until all agree in one.  *)
(* A newer human message takes the room over: the older discussion is told *)
(* at once, and looks itself before and after every call of the model and  *)
(* when it publishes.  Rooms whose numbers agree modulo IM_ROOM_LOCKS      *)
(* share a lock and a slot for the running discussion.                     *)
(***************************************************************************)
EXTENDS Integers, Sequences, FiniteSets

CONSTANTS
    Rooms,          \* the numbers of the rooms in the file at the start
    RoomLocks,      \* IM_ROOM_LOCKS
    Members,        \* the agents of a room, in the order they speak
    Rounds,         \* discussion_rounds
    LastMessage,    \* bound of the message numbers
    MaxHuman        \* bound of the human messages

NoTalk == -1
User == "user"
Slot(r) == r % RoomLocks
FirstMessage == 1 + CHOOSE r \in Rooms : \A s \in Rooms : s <= r
Messages == FirstMessage .. LastMessage

VARIABLES
    nextMessage,    \* next_id: rooms and messages are numbered together
    log,            \* the messages of each room
    gone,           \* rooms that were deleted
    talk,           \* the discussion each human message starts
    active,         \* g_im_active_tasks
    roomLock,       \* g_im_room_mtx
    stopped         \* history: discussions a client has cancelled

roomsVars == <<nextMessage, log, gone, talk, active, roomLock, stopped>>

NewTalk == [room |-> 0, place |-> "none", seen |-> NoTalk, cancel |-> FALSE, failed |-> FALSE,
            pass |-> 1, speaker |-> 1, votes |-> 0, agree |-> FALSE,
            status |-> "none", agreed |-> {}]     \* agreed: history, who did in this round

Init ==
    /\ nextMessage = FirstMessage
    /\ log = [r \in Rooms |-> <<>>]
    /\ gone = {}
    /\ talk = [m \in Messages |-> NewTalk]
    /\ active = [s \in {Slot(r) : r \in Rooms} |-> NoTalk]
    /\ roomLock = [s \in {Slot(r) : r \in Rooms} |-> NoTalk]
    /\ stopped = {}

Seen(r) == {i \in DOMAIN log[r] : log[r][i].by = User}
Latest(r) == IF Seen(r) = {} THEN 0
             ELSE log[r][CHOOSE i \in Seen(r) : \A j \in Seen(r) : j <= i].id

At(m, place) == talk[m].place = place
Go(m, t) == talk' = [talk EXCEPT ![m] = t]
To(m, place) == [talk[m] EXCEPT !.place = place]

\* im_send_ex: a human message.
Send(r) ==
    /\ r \notin gone /\ nextMessage <= LastMessage
    /\ Cardinality({m \in Messages : ~At(m, "none")}) < MaxHuman
    /\ log' = [log EXCEPT ![r] = Append(@, [id |-> nextMessage, by |-> User, to |-> NoTalk])]
    /\ Go(nextMessage, [To(nextMessage, "sent") EXCEPT !.room = r])
    /\ nextMessage' = nextMessage + 1
    /\ UNCHANGED <<gone, active, roomLock, stopped>>

\* im_delete_session
Delete(r) ==
    /\ r \notin gone /\ gone' = gone \cup {r} /\ log' = [log EXCEPT ![r] = <<>>]
    /\ UNCHANGED <<nextMessage, talk, active, roomLock, stopped>>

\* im_dispatch, first the number in the slot ...
ReadSlot(m) ==
    /\ At(m, "sent") /\ talk[m].room \notin gone
    /\ Go(m, [To(m, "marking") EXCEPT !.seen = active[Slot(talk[m].room)]])
    /\ UNCHANGED <<nextMessage, log, gone, active, roomLock, stopped>>

\* ... the room or the message is gone: nothing to dispatch ...
NothingToDispatch(m) ==
    /\ At(m, "sent") /\ talk[m].room \in gone
    /\ Go(m, To(m, "over"))
    /\ UNCHANGED <<nextMessage, log, gone, active, roomLock, stopped>>

Running == {"locking", "locked", "asking", "thinking", "publishing", "leaving"}

\* Mutated form: the tag of the running discussion is not compared.
OlderInSlot(m, o) ==
    /\ o # NoTalk /\ talk[o].place \in Running /\ o < m

\* ... then the discussion of this room that runs for an older message.
Older(m, o) ==
    /\ o # NoTalk /\ talk[o].place \in Running
    /\ talk[o].room = talk[m].room /\ o < m

\* The scheduler accepts the new discussion or not.
Dispatch(m) ==
    /\ At(m, "marking")
    /\ \E place \in {"queued", "over"} :
          talk' = [o \in Messages |->
                      IF o = m THEN [To(m, place) EXCEPT !.seen = NoTalk]
                      ELSE IF o = talk[m].seen /\ Older(m, o) THEN [talk[o] EXCEPT !.cancel = TRUE]
                      ELSE talk[o]]
    /\ UNCHANGED <<nextMessage, log, gone, active, roomLock, stopped>>

\* A client cancels the task, or its time is over.
Stop(m) ==
    /\ talk[m].place \in Running \cup {"queued"} /\ ~talk[m].cancel
    /\ Go(m, [talk[m] EXCEPT !.cancel = TRUE]) /\ stopped' = stopped \cup {m}
    /\ UNCHANGED <<nextMessage, log, gone, active, roomLock>>

Start(m) ==
    /\ At(m, "queued")
    /\ Go(m, IF talk[m].cancel THEN To(m, "over") ELSE To(m, "locking"))
    /\ UNCHANGED <<nextMessage, log, gone, active, roomLock, stopped>>

\* im_run_round: the lock of the slot, polled; given up when cancelled.
Lock(m) ==
    /\ At(m, "locking") /\ roomLock[Slot(talk[m].room)] = NoTalk
    /\ roomLock' = [roomLock EXCEPT ![Slot(talk[m].room)] = m]
    /\ Go(m, To(m, "locked"))
    /\ UNCHANGED <<nextMessage, log, gone, active, stopped>>

GiveUp(m) ==
    /\ At(m, "locking") /\ talk[m].cancel
    /\ Go(m, [To(m, "over") EXCEPT !.status = "cancelled"])
    /\ UNCHANGED <<nextMessage, log, gone, active, roomLock, stopped>>

Enter(m) ==
    LET abort == talk[m].room \in gone \/ talk[m].cancel
    IN  /\ At(m, "locked")
        /\ active' = [active EXCEPT ![Slot(talk[m].room)] = m]
        /\ Go(m, IF abort THEN [To(m, "leaving") EXCEPT !.failed = TRUE] ELSE To(m, "asking"))
        /\ UNCHANGED <<nextMessage, log, gone, roomLock, stopped>>

\* im_discussion_transcript: overtaken by a newer message, or deleted.
Overtaken(m) == talk[m].room \in gone \/ Latest(talk[m].room) # m

\* Before the model is called.
Ask(m) ==
    /\ At(m, "asking")
    /\ \/ talk[m].cancel /\ Go(m, To(m, "leaving"))
       \/ ~talk[m].cancel /\ Overtaken(m) /\ Go(m, [To(m, "leaving") EXCEPT !.cancel = TRUE])
       \/ ~talk[m].cancel /\ ~Overtaken(m) /\ Go(m, To(m, "thinking"))
       \/ ~talk[m].cancel /\ Go(m, [To(m, "leaving") EXCEPT !.failed = TRUE])  \* the agent is gone
    /\ UNCHANGED <<nextMessage, log, gone, active, roomLock, stopped>>

\* After it: the model failed, or answered, agreeing to end or not.
Answered(m) ==
    /\ At(m, "thinking")
    /\ IF Overtaken(m) THEN Go(m, [To(m, "leaving") EXCEPT !.cancel = TRUE])
       ELSE IF talk[m].cancel THEN Go(m, To(m, "leaving"))
       ELSE \/ Go(m, [To(m, "leaving") EXCEPT !.failed = TRUE])
            \/ \E agree \in BOOLEAN :
                  Go(m, [To(m, "publishing") EXCEPT !.agree = agree,
                            !.votes = IF agree THEN @ + 1 ELSE @,
                            !.agreed = IF agree THEN @ \cup {talk[m].speaker} ELSE @])
    /\ UNCHANGED <<nextMessage, log, gone, active, roomLock, stopped>>

\* Everybody speaks once in a round, whoever is listed twice too.
Speakers == {i \in DOMAIN Members : \A j \in 1 .. i - 1 : Members[j] # Members[i]}

\* Mutated form: the votes of the earlier rounds count too.
NextSpeakerKeepsVotes(t) ==
    LET later == {i \in Speakers : i > t.speaker}
    IN  IF later # {} THEN [t EXCEPT !.speaker = CHOOSE i \in later : \A j \in later : i <= j,
                                     !.place = "asking"]
        ELSE IF t.votes >= Cardinality(Speakers) \/ t.pass = Rounds THEN [t EXCEPT !.place = "leaving"]
        ELSE [t EXCEPT !.pass = @ + 1, !.speaker = 1, !.agreed = {}, !.place = "asking"]

\* The next member, the next round, or the end: all agree, or no round left.
NextSpeaker(t) ==
    LET later == {i \in Speakers : i > t.speaker}
    IN  IF later # {} THEN [t EXCEPT !.speaker = CHOOSE i \in later : \A j \in later : i <= j,
                                     !.place = "asking"]
        ELSE IF t.votes = Cardinality(Speakers) \/ t.pass = Rounds THEN [t EXCEPT !.place = "leaving"]
        ELSE [t EXCEPT !.pass = @ + 1, !.speaker = 1, !.votes = 0, !.agreed = {}, !.place = "asking"]

Continue(t) ==
    IF t.cancel THEN [t EXCEPT !.place = "leaving"] ELSE NextSpeaker([t EXCEPT !.agree = FALSE])

\* im_send_agent_reply: looked at again and published under one lock.
Publish(m) ==
    LET r == talk[m].room
    IN  /\ At(m, "publishing")
        /\ IF r \in gone THEN /\ Go(m, [To(m, "leaving") EXCEPT !.failed = TRUE])
                              /\ UNCHANGED <<log, nextMessage>>
           ELSE IF Latest(r) # m THEN /\ Go(m, [To(m, "leaving") EXCEPT !.cancel = TRUE])
                                      /\ UNCHANGED <<log, nextMessage>>
           ELSE /\ nextMessage <= LastMessage
                /\ log' = [log EXCEPT ![r] =
                              Append(@, [id |-> nextMessage, by |-> Members[talk[m].speaker], to |-> m])]
                /\ nextMessage' = nextMessage + 1
                /\ Go(m, Continue(talk[m]))
        /\ UNCHANGED <<gone, active, roomLock, stopped>>

\* An answer that is nothing but the agreement is counted and not published.
Silent(m) ==
    /\ At(m, "publishing") /\ talk[m].agree
    /\ Go(m, Continue(talk[m]))
    /\ UNCHANGED <<nextMessage, log, gone, active, roomLock, stopped>>

Leave(m) ==
    /\ At(m, "leaving") /\ roomLock[Slot(talk[m].room)] = m
    /\ active' = [active EXCEPT ![Slot(talk[m].room)] = NoTalk]
    /\ roomLock' = [roomLock EXCEPT ![Slot(talk[m].room)] = NoTalk]
    /\ UNCHANGED <<nextMessage, log, gone, talk, stopped>>

Settle(m) ==
    /\ At(m, "leaving") /\ roomLock[Slot(talk[m].room)] # m
    /\ Go(m, [To(m, "over") EXCEPT
                !.status = IF talk[m].cancel THEN "cancelled"
                           ELSE IF talk[m].failed THEN "failed" ELSE "done"])
    /\ UNCHANGED <<nextMessage, log, gone, active, roomLock, stopped>>

Discuss(m) ==
    \/ ReadSlot(m) \/ NothingToDispatch(m) \/ Dispatch(m) \/ Start(m) \/ Lock(m) \/ GiveUp(m)
    \/ Enter(m) \/ Ask(m) \/ Answered(m) \/ Publish(m) \/ Silent(m) \/ Leave(m) \/ Settle(m)

Next ==
    \/ \E r \in Rooms : Send(r) \/ Delete(r)
    \/ \E m \in Messages : Discuss(m) \/ Stop(m)

Spec == Init /\ [][Next]_roomsVars

-----------------------------------------------------------------------------
\* What an agent says answers the newest human message of its room ("A new
\* human message takes over an older discussion"): an older discussion never
\* speaks after it, wherever the message came in.
RepliesFit ==
    \A r \in Rooms : \A i \in DOMAIN log[r] : log[r][i].by # User =>
        LET before == {j \in Seen(r) : j < i}
        IN  before # {} /\ log[r][i].to = log[r][CHOOSE j \in before : \A k \in before : k <= j].id

\* A discussion nobody has cancelled is given up only because its room is
\* gone or has a newer message; never because of a room that shares its slot.
OvertakenOnly ==
    \A m \in Messages : talk[m].cancel /\ m \notin stopped =>
        talk[m].room \in gone \/ Latest(talk[m].room) > m

\* "Discussion ends early only if all members agree in the same round.
\* Otherwise stop at the round limit."
EndsTogether ==
    \A m \in Messages : talk[m].status = "done" =>
        \/ talk[m].pass = Rounds
        \/ talk[m].agreed = Speakers

RoomsSafe == RepliesFit /\ OvertakenOnly /\ EndsTogether
=============================================================================
