------------------------------ MODULE Channels ------------------------------
(***************************************************************************)
(* External messaging channels (im/channel.c), the rooms linked to them    *)
(* (im/im.c) and the thread that polls Telegram for what was sent there    *)
(* (channel_poller_loop, channel_ingest in cognitive_os_agent.c).          *)
(*                                                                         *)
(* The poller takes a pointer into the array of channels under its lock    *)
(* and uses it long after: for the request, and for the watermark of the   *)
(* answer.  Requests of the API (api/api_rest.c), which take turns, add,   *)
(* replace and remove channels meanwhile.  Both stores write their whole   *)
(* file in place after each change and do not look whether that worked;    *)
(* the watermark is in no file.  Telegram is external: it keeps the        *)
(* updates of a channel until a request asks for later ones.               *)
(*                                                                         *)
(* What a client writes into a room goes out to its channel: as a request, *)
(* or on a WebSocket, whose messages wait for no other request.  One such  *)
(* message at a time is followed (writer).  The agents a group needs come  *)
(* and go with requests of their own.                                      *)
(***************************************************************************)
EXTENDS Integers, FiniteSets, Sequences, SequencesExt, Functions

CONSTANTS
    Names, Agents, None, Torn,
    FirstCap,       \* places of the array before it is moved (8)
    MaxRooms, MaxUpdates, MaxChanges, MaxFailures, MaxCrashes   \* bounds

VARIABLES
    channels,   \* sequence of [name, enabled, upto, era]
    channelFile,
    rooms,      \* sequence of [id, channel, members, messages]; members: {} unless a group
    nextId,     \* of rooms and messages
    roomFile,
    updates,    \* external: name |-> number of updates sent there
    confirmed,  \* external: name |-> updates that are forgotten
    poller, request,
    agents,     \* those that are registered
    writer,     \* a message from the console on its way
    outbox,     \* external: what was sent out since the start, [to, of, id, astray]
    changes, failures, crashes,
    era,        \* ghost: registrations and restarts so far
    seen,       \* ghost: name |-> updates ingested, or dropped without a room
    mixed,      \* ghost: names whose watermark was written through a stale pointer
    behind      \* ghost: a write of a file has failed

channelsVars == <<channels, channelFile, rooms, nextId, roomFile, updates, confirmed,
                  poller, request, agents, writer, outbox, changes, failures, crashes, era,
                  seen, mixed, behind>>

NoFile == <<>>
NoPoll == [pc |-> "idle", i |-> 0, n |-> 0, name |-> None, of |-> None,
           at |-> 0, batch |-> <<>>, u |-> 0, era |-> 0, room |-> 0]
NoRequest == [pc |-> "idle", name |-> None, ids |-> {}]
Quiet == [pc |-> "idle", by |-> None, room |-> 0, id |-> 0, name |-> None, at |-> 0,
          of |-> None, astray |-> FALSE]       \* of, astray: ghosts

\* channels_persist: the watermark is left out.
OnDisk(list) == [i \in DOMAIN list |-> [name |-> list[i].name, enabled |-> list[i].enabled]]

\* channels_load and im_load of what an earlier run has left.
Init ==
    /\ \E n, m \in Names, k \in 0 .. 2 :
        /\ n # m
        /\ channels = SubSeq(<<[name |-> n, enabled |-> TRUE, upto |-> 0, era |-> 0],
                               [name |-> m, enabled |-> TRUE, upto |-> 0, era |-> 0]>>, 1, k)
    /\ rooms \in {<<>>} \union {<<[id |-> 1, channel |-> n, members |-> group, messages |-> <<>>]>> :
                                  n \in Names, group \in {{}, Agents}}
    /\ agents = Agents /\ writer = Quiet /\ outbox = <<>>
    /\ nextId = 2
    /\ channelFile = OnDisk(channels) /\ roomFile = [next |-> nextId, rooms |-> rooms]
    /\ updates = [n \in Names |-> 0] /\ confirmed = [n \in Names |-> 0]
    /\ poller = NoPoll /\ request = NoRequest
    /\ changes = 0 /\ failures = 0 /\ crashes = 0 /\ era = 0
    /\ seen = [n \in Names |-> {}] /\ mixed = {} /\ behind = FALSE

-----------------------------------------------------------------------------
\* The two files

\* fs_write_file, the result of which nobody looks at.
Write(file, content) ==
    \/ file' = content /\ UNCHANGED <<failures, behind>>
    \/ /\ failures < MaxFailures /\ failures' = failures + 1
       /\ file' \in {file, Torn} /\ behind' = TRUE

KeepChannels(list) ==
    /\ channels' = list /\ Write(channelFile, OnDisk(list))
    /\ UNCHANGED <<rooms, nextId, roomFile>>

\* im_persist
KeepRooms(list, next) ==
    /\ rooms' = list /\ nextId' = next /\ Write(roomFile, [next |-> next, rooms |-> list])
    /\ UNCHANGED <<channels, channelFile>>

KeepStores ==
    UNCHANGED <<channels, channelFile, rooms, nextId, roomFile, failures, behind>>
KeepServer == UNCHANGED <<updates, confirmed>>
KeepGhosts == UNCHANGED <<era, seen, mixed>>
KeepConsole == UNCHANGED <<agents, writer, outbox>>

-----------------------------------------------------------------------------
\* The poller

At(pc) == poller.pc = pc
Go(pc) == poller' = [poller EXCEPT !.pc = pc]
Done == [NoPoll EXCEPT !.pc = "next", !.i = poller.i, !.n = poller.n]
Polling == poller.pc \in {"ask", "reading", "find", "send"}

\* find_chan; 0 if there is none
IndexOf(name) ==
    IF \E i \in DOMAIN channels : channels[i].name = name
    THEN SelectInSeq(channels, LAMBDA c : c.name = name) ELSE 0

\* channel_poller_loop: every five seconds, with the number of channels then.
Tick ==
    /\ At("idle")
    /\ poller' = [NoPoll EXCEPT !.pc = "next", !.n = Len(channels)]
    /\ KeepStores /\ KeepServer /\ KeepGhosts /\ UNCHANGED <<request, changes, crashes>>

\* im_channel_get: the channel of a number, if there is one by now.
NextChannel ==
    /\ At("next")
    /\ poller' =
        IF poller.i >= poller.n THEN NoPoll
        ELSE IF poller.i + 1 > Len(channels) THEN [poller EXCEPT !.i = @ + 1]
        ELSE [poller EXCEPT !.pc = "named", !.i = @ + 1,
                            !.name = channels[poller.i + 1].name]
    /\ KeepStores /\ KeepServer /\ KeepGhosts /\ UNCHANGED <<request, changes, crashes>>

\* Mutated form: the update after the watermark is skipped.
OffsetSkipped(i) == channels[i].upto + 2

\* The first update asked for.
Offset(i) == channels[i].upto + 1

\* im_channel_poll_telegram finds the channel again, by its name.
FindChannel ==
    LET i == IndexOf(poller.name) IN
    /\ At("named")
    /\ poller' =
        IF i = 0 \/ ~channels[i].enabled THEN Done
        ELSE [poller EXCEPT !.pc = "ask", !.of = poller.name, !.at = i,
                               !.u = Offset(i)]
    /\ KeepStores /\ KeepServer /\ KeepGhosts /\ UNCHANGED <<request, changes, crashes>>

\* The request names the offset the channel had when it was found; Telegram
\* forgets what comes before it and answers with the rest, which may be lost.
Ask(answered) ==
    LET told == poller.u - 1
        known == IF told > confirmed[poller.of] THEN told ELSE confirmed[poller.of]
    IN /\ At("ask")
       /\ confirmed' = [confirmed EXCEPT ![poller.of] = known]
       /\ poller' = IF ~answered THEN Done
                     ELSE [poller EXCEPT !.pc = "reading", !.u = 0,
                              !.batch = [k \in 1 .. updates[poller.of] - known |-> known + k]]
       /\ KeepStores /\ KeepGhosts /\ UNCHANGED <<updates, request, changes, crashes>>

Unreached ==
    /\ At("ask") /\ poller' = Done
    /\ KeepStores /\ KeepServer /\ KeepGhosts /\ UNCHANGED <<request, changes, crashes>>

\* What the pointer of the poller leads to: a channel, or memory that is none.
Target == IF poller.at \in DOMAIN channels THEN channels[poller.at] ELSE None

\* One update: the watermark moves, wherever the pointer leads by now.
ReadUpdate ==
    LET u == Head(poller.batch)
        rest == [poller EXCEPT !.batch = Tail(@)] IN
    /\ At("reading") /\ poller.batch # <<>>
    /\ \/ /\ Target # None /\ u <= Target.upto
          /\ poller' = rest
          /\ UNCHANGED <<channels, mixed>>
       \/ /\ Target # None /\ u > Target.upto
          /\ poller' = [rest EXCEPT !.pc = "find", !.u = u, !.era = Target.era]
          /\ channels' = [channels EXCEPT ![poller.at].upto = u]
          /\ mixed' = IF Target.name = poller.of THEN mixed
                      ELSE mixed \union {Target.name, poller.of}
       \/ /\ Target = None
          /\ poller' \in {rest, [rest EXCEPT !.pc = "find", !.u = u]}
          /\ mixed' = mixed \union {poller.of}
          /\ UNCHANGED channels
    /\ KeepServer
    /\ UNCHANGED <<channelFile, rooms, nextId, roomFile, failures, behind, request,
                   changes, crashes, era, seen>>

ReadAll ==
    /\ At("reading") /\ poller.batch = <<>> /\ poller' = Done
    /\ KeepStores /\ KeepServer /\ KeepGhosts /\ UNCHANGED <<request, changes, crashes>>

\* channel_ingest, im_session_by_channel: the first room that is linked.
Linked(name) == {i \in DOMAIN rooms : rooms[i].channel = name}
Handled ==
    /\ seen' = [seen EXCEPT ![poller.of] = @ \union {poller.u}]
    /\ poller' = [poller EXCEPT !.pc = "reading", !.u = 0, !.era = 0, !.room = 0]

FindRoom ==
    /\ At("find")
    /\ IF Linked(poller.name) = {}
       THEN Handled
       ELSE /\ poller' = [poller EXCEPT !.pc = "send",
                            !.room = rooms[CHOOSE i \in Linked(poller.name) :
                                \A j \in Linked(poller.name) : i <= j].id]
            /\ UNCHANGED seen
    /\ KeepStores /\ KeepServer /\ UNCHANGED <<request, changes, crashes, era, mixed>>

\* im_send_ex; a room that was deleted meanwhile takes no message.
SendToRoom ==
    LET at == {i \in DOMAIN rooms : rooms[i].id = poller.room} IN
    /\ At("send") /\ Handled
    /\ IF at = {} THEN KeepStores
       ELSE KeepRooms([i \in DOMAIN rooms |->
                IF i \in at
                THEN [rooms[i] EXCEPT !.messages =
                        Append(@, [id |-> nextId, from |-> poller.of, u |-> poller.u,
                                   era |-> poller.era, via |-> "channel", heard |-> TRUE])]
                ELSE rooms[i]], nextId + 1)
    /\ KeepServer /\ UNCHANGED <<request, changes, crashes, era, mixed>>

-----------------------------------------------------------------------------
\* Requests

Counted == changes < MaxChanges /\ changes' = changes + 1

\* Requests take turns: a message that was posted is one, too.
Ready == request = NoRequest /\ writer.by # "http" /\ Counted

(***************************************************************************)
(* The poller loses what its pointers lead to: the name it was given is    *)
(* freed with the channel of that name, and may be any by the time it is   *)
(* used; the array is somewhere else once it has grown.                    *)
(***************************************************************************)
Pull(freed, moved) ==
    IF ~Polling /\ ~At("named") THEN UNCHANGED poller
    ELSE \E name \in IF poller.name = freed THEN Names \union {None} ELSE {poller.name} :
            poller' = [poller EXCEPT !.name = name, !.at = IF moved THEN 0 ELSE @]

\* So does a message that is on its way: its pointer keeps its place, whatever is there.
PullWriter(moved) ==
    writer' = [writer EXCEPT !.at = IF moved THEN 0 ELSE @, !.astray = @ \/ writer.pc = "send"]

\* The name of the channel of a room is freed while it is looked for.
FreeName(id) ==
    IF writer.pc # "find" \/ writer.room # id THEN UNCHANGED writer
    ELSE \E name \in Names \union {None} :
            writer' = [writer EXCEPT !.name = name, !.astray = TRUE]

\* chan_copy: a new watermark with it.
NewChannel(name, enabled) == [name |-> name, enabled |-> enabled, upto |-> 0, era |-> era + 1]

\* im_channel_register
Register(channel) ==
    LET i == IndexOf(channel.name)
        moved == i = 0 /\ Len(channels) = FirstCap
    IN  /\ KeepChannels(IF i # 0 THEN [channels EXCEPT ![i] = channel]
                         ELSE Append(channels, channel))
        /\ Pull(IF i # 0 THEN channel.name ELSE None, moved)
        /\ PullWriter(moved)

\* h_im_channel_add
AddChannel(name, enabled) ==
    /\ Ready /\ Register(NewChannel(name, enabled))
    /\ era' = era + 1
    /\ KeepServer /\ UNCHANGED <<request, agents, outbox, crashes, seen, mixed>>

\* im_channel_remove: those behind it move up.
Drop(name) ==
    /\ KeepChannels(RemoveAt(channels, IndexOf(name)))
    /\ Pull(name, FALSE) /\ PullWriter(FALSE)

\* im_list_sessions: the rooms that have the channel.
Listed(name) == {rooms[k].id : k \in Linked(name)}

\* h_im_channel_remove
Unregister(name) ==
    /\ Ready /\ IndexOf(name) # 0 /\ Drop(name)
    /\ request' = [NoRequest EXCEPT !.pc = "unbind", !.name = name, !.ids = Listed(name)]
    /\ KeepServer /\ KeepGhosts /\ UNCHANGED <<agents, outbox, crashes>>

\* One field of a room, "channel" or "members", gets another value.
InRoom(id, field, value) ==
    KeepRooms([i \in DOMAIN rooms |-> IF rooms[i].id = id
                                      THEN [rooms[i] EXCEPT ![field] = value] ELSE rooms[i]],
              nextId)

SetChannel(id, name) == InRoom(id, "channel", name) /\ FreeName(id)

\* im_session_set_channel, one room after the other.
Unbind ==
    /\ request.pc = "unbind"
    /\ IF request.ids = {} THEN KeepStores /\ request' = NoRequest /\ UNCHANGED writer
       ELSE \E id \in request.ids :
                /\ \A other \in request.ids : id <= other
                /\ SetChannel(id, None)
                /\ request' = [request EXCEPT !.ids = @ \ {id}]
    /\ KeepServer /\ KeepGhosts /\ UNCHANGED <<poller, agents, outbox, changes, crashes>>

\* im_create_session_discussion
NewRoom(members) ==
    KeepRooms(Append(rooms, [id |-> nextId, channel |-> None, members |-> members,
                             messages |-> <<>>]), nextId + 1)

\* im_validate_members; a room that is no group has none.
Valid(members) == members \subseteq agents

\* h_im_session_create: the room first, then its channel.
Create(name, members) ==
    /\ Ready /\ Len(rooms) < MaxRooms /\ Valid(members) /\ NewRoom(members)
    /\ request' = [NoRequest EXCEPT !.pc = "link", !.name = name, !.ids = {nextId}]
    /\ KeepServer /\ KeepGhosts /\ KeepConsole /\ UNCHANGED <<poller, crashes>>

Link ==
    /\ request.pc = "link" /\ request' = NoRequest
    /\ \E id \in request.ids : SetChannel(id, request.name)
    /\ KeepServer /\ KeepGhosts /\ UNCHANGED <<poller, agents, outbox, changes, crashes>>

\* im_session_configure
SetMembers(id, members) == InRoom(id, "members", members)

\* h_im_session_route, PUT: of a group only.
Configure(i, members) ==
    /\ Ready /\ rooms[i].members # {} /\ members # {} /\ Valid(members)
    /\ SetMembers(rooms[i].id, members)
    /\ KeepServer /\ KeepGhosts /\ KeepConsole /\ UNCHANGED <<poller, request, crashes>>

\* im_delete_session
DeleteRoom(i) ==
    /\ Ready
    /\ KeepRooms(RemoveAt(rooms, i), nextId) /\ FreeName(rooms[i].id)
    /\ KeepServer /\ KeepGhosts /\ UNCHANGED <<poller, request, agents, outbox, crashes>>

\* An agent is registered, or removed (AgentPool).
Hire(group) ==
    /\ Ready /\ agents' = group /\ agents # group
    /\ KeepStores /\ KeepServer /\ KeepGhosts
    /\ UNCHANGED <<poller, request, writer, outbox, crashes>>

-----------------------------------------------------------------------------
\* Messages from the console

Wrote(pc) == writer.pc = pc
KeepWriting ==
    KeepServer /\ KeepGhosts /\ UNCHANGED <<poller, request, agents, crashes>>

\* im_group_ready: nobody of the group is missing.
Audience(room) == room.members \subseteq agents

Say(by, i) ==
    /\ Wrote("idle") /\ Audience(rooms[i])
    /\ writer' = [Quiet EXCEPT !.pc = "append", !.by = by, !.room = rooms[i].id]
    /\ KeepStores /\ KeepWriting /\ UNCHANGED outbox

\* h_im_session_route, POST
PostMessage(i) == Ready /\ Say("http", i)

\* on_ws_msg, which is no request.
SocketMessage(i) == Counted /\ Say("socket", i)

\* im_send_ex; of a room that is gone nothing is kept, and nothing sent.
AppendMessage ==
    LET at == {i \in DOMAIN rooms : rooms[i].id = writer.room} IN
    /\ Wrote("append")
    /\ IF at = {} THEN KeepStores /\ writer' = Quiet
       ELSE /\ KeepRooms([i \in DOMAIN rooms |->
                    IF i \in at
                    THEN [rooms[i] EXCEPT !.messages =
                            Append(@, [id |-> nextId, from |-> None, u |-> 0, era |-> 0,
                                       via |-> writer.by, heard |-> Audience(rooms[i])])]
                    ELSE rooms[i]], nextId + 1)
            /\ writer' = [writer EXCEPT !.pc = "forward", !.id = nextId]
    /\ KeepWriting /\ UNCHANGED <<outbox, changes>>

\* im_session_channel: where the name of the channel of the room is.
ChannelOf(id) ==
    IF \E i \in DOMAIN rooms : rooms[i].id = id
    THEN rooms[SelectInSeq(rooms, LAMBDA room : room.id = id)].channel ELSE None

\* im_forward_to_channel, unless the room has no channel.
Forward ==
    LET name == ChannelOf(writer.room) IN
    /\ Wrote("forward")
    /\ writer' = IF name = None THEN Quiet
                 ELSE [writer EXCEPT !.pc = "find", !.name = name, !.of = name]
    /\ KeepStores /\ KeepWriting /\ UNCHANGED <<outbox, changes>>

\* im_channel_send, up to the request.
FindOutlet ==
    LET i == IndexOf(writer.name) IN
    /\ Wrote("find")
    /\ writer' = IF i = 0 \/ ~channels[i].enabled THEN Quiet
                 ELSE [writer EXCEPT !.pc = "send", !.at = i]
    /\ KeepStores /\ KeepWriting /\ UNCHANGED <<outbox, changes>>

\* post_channel: sent to whatever is there by now, or not reached; never again.
SendOut(reached) ==
    /\ Wrote("send") /\ writer' = Quiet
    /\ outbox' = IF reached /\ writer.at \in DOMAIN channels
                 THEN Append(outbox, [to |-> channels[writer.at].name, of |-> writer.of,
                                      id |-> writer.id, astray |-> writer.astray])
                 ELSE outbox
    /\ KeepStores /\ KeepWriting /\ UNCHANGED changes

\* h_im_channel_send: a client sends to a channel ...
Transmit(name) ==
    /\ Ready /\ Wrote("idle")
    /\ writer' = [Quiet EXCEPT !.pc = "find", !.by = "http", !.name = name, !.of = name]
    /\ KeepStores /\ KeepWriting /\ UNCHANGED outbox

\* ... or puts in what came from there.  It goes out to nobody.
Ingest(name) ==
    /\ Ready /\ Linked(name) # {}
    /\ IndexOf(name) # 0 /\ channels[IndexOf(name)].enabled
    /\ LET first == CHOOSE i \in Linked(name) : \A j \in Linked(name) : i <= j IN
       KeepRooms([rooms EXCEPT ![first].messages =
                    Append(@, [id |-> nextId, from |-> None, u |-> 0, era |-> 0,
                               via |-> "channel", heard |-> TRUE])], nextId + 1)
    /\ KeepWriting /\ UNCHANGED <<writer, outbox>>

-----------------------------------------------------------------------------
\* Somebody writes to the channel.
Update(name) ==
    /\ FoldFunction(+, 0, updates) < MaxUpdates
    /\ updates' = [updates EXCEPT ![name] = @ + 1]
    /\ KeepStores /\ KeepGhosts /\ UNCHANGED <<confirmed, poller, request, changes, crashes>>

\* channels_load; a file that cannot be read is none.
Loaded(file) ==
    IF file = Torn THEN <<>>
    ELSE [i \in DOMAIN file |-> [name |-> file[i].name, enabled |-> file[i].enabled,
                                upto |-> 0, era |-> era + 1]]

\* The process ends, perhaps while it writes one of the files, and starts
\* again: im_load takes a torn file for an empty one.
Crash ==
    /\ crashes < MaxCrashes /\ crashes' = crashes + 1
    /\ poller' = NoPoll /\ request' = NoRequest
    /\ writer' = Quiet /\ outbox' = <<>> /\ UNCHANGED agents
    /\ channelFile' \in {channelFile, Torn} /\ roomFile' \in {roomFile, Torn}
    /\ channelFile' # Torn \/ roomFile' # Torn \/ behind
    /\ era' = era + 1
    /\ channels' = Loaded(channelFile')
    /\ rooms' = IF roomFile' = Torn THEN <<>> ELSE roomFile'.rooms
    /\ nextId' = IF roomFile' = Torn THEN 1 ELSE roomFile'.next
    /\ behind' = (channelFile' = Torn \/ roomFile' = Torn)
    /\ KeepServer /\ UNCHANGED <<changes, failures, seen, mixed>>

Poll ==
    /\ \/ Tick \/ NextChannel \/ FindChannel \/ Unreached \/ ReadUpdate \/ ReadAll
       \/ \E answered \in BOOLEAN : Ask(answered)
       \/ FindRoom \/ SendToRoom
       \/ \E name \in Names : Update(name)
    /\ KeepConsole

Next ==
    \/ Poll \/ Unbind \/ Link \/ AppendMessage \/ Forward \/ FindOutlet \/ Crash
    \/ \E reached \in BOOLEAN : SendOut(reached)
    \/ \E name \in Names :
        \/ \E enabled \in BOOLEAN : AddChannel(name, enabled)
        \/ \E members \in SUBSET Agents : Create(name, members)
        \/ Unregister(name) \/ Transmit(name) \/ Ingest(name)
    \/ \E i \in DOMAIN rooms :
        \/ DeleteRoom(i) \/ PostMessage(i) \/ SocketMessage(i)
        \/ \E members \in SUBSET Agents : Configure(i, members)
    \/ \E group \in SUBSET Agents : Hire(group)

Spec == Init /\ [][Next]_channelsVars
-----------------------------------------------------------------------------
\* Telegram forgets an update only when it has been put into a room, or there
\* was none to put it into, whatever is registered, removed or lost meanwhile;
\* except of channels whose watermarks were written through a stale pointer.
ConfirmedIsSeen ==
    \A n \in Names \ mixed : \A u \in 1 .. confirmed[n] : u \in seen[n]

\* Between two registrations or restarts an update is put into one room once,
\* and a room has the updates of a channel in their order.
Places == {<<i, k>> \in (1 .. MaxRooms) \X (1 .. MaxUpdates * (MaxCrashes + MaxChanges + 1) + MaxChanges) :
              i \in DOMAIN rooms /\ k \in DOMAIN rooms[i].messages}
MessageAt(p) == rooms[p[1]].messages[p[2]]
IngestedOnce ==
    \A p, q \in Places :
        LET m == MessageAt(p)
            o == MessageAt(q)
        IN (p # q /\ m.from = o.from /\ m.era = o.era /\ m.from \notin mixed \union {None}) =>
                /\ m.u # o.u
                /\ (p[1] = q[1] /\ p[2] < q[2]) => m.u < o.u

\* Rooms and messages have numbers of their own, and no number is given twice.
NumbersAreOwn ==
    /\ \A i \in DOMAIN rooms : rooms[i].id < nextId
    /\ \A i, k \in DOMAIN rooms : i # k => rooms[i].id # rooms[k].id
    /\ \A p, q \in Places :
        /\ MessageAt(p).id < nextId /\ MessageAt(p).id > rooms[p[1]].id
        /\ p # q => MessageAt(p).id # MessageAt(q).id

\* "every mutation persists to disk" (im.c:5), unless a write has failed.
MutationsPersist ==
    ~behind => /\ channelFile = OnDisk(channels)
               /\ roomFile = [next |-> nextId, rooms |-> rooms]

\* A message goes out once, to the channel its room had when it was looked up,
\* unless that channel was changed while it was on its way; what came in from a
\* channel goes out to none ("so there is no echo", api_rest.c).
ForwardsFit ==
    /\ \A e \in Range(outbox) : e.astray \/ e.to = e.of
    /\ \A j, k \in DOMAIN outbox : j # k => outbox[j].id # outbox[k].id \/ outbox[j].id = 0
    /\ \A p \in Places : MessageAt(p).via = "channel" =>
            \A e \in Range(outbox) : e.id # MessageAt(p).id

\* "Reject before appending a human message that nobody can run": what was posted
\* to a group has all of its agents; not so what came in on a socket.
PostedIsHeard == \A p \in Places : MessageAt(p).via = "http" => MessageAt(p).heard

ChannelsSafe ==
    ConfirmedIsSeen /\ IngestedOnce /\ NumbersAreOwn /\ MutationsPersist /\ ForwardsFit
        /\ PostedIsHeard
=============================================================================
