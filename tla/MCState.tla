------------------------------ MODULE MCState ------------------------------
(***************************************************************************)
(* Small instances of the components that keep what clients see between    *)
(* requests, in one run: the variable part says which of them a behaviour  *)
(* is about, the others stay in their initial states.  Three modules are   *)
(* two parts each: "im" has the poller, "line" what clients write; "ssh"   *)
(* has endpoints of a session only, "site" a named environment beside      *)
(* them; "plug" has no plugins at first, "stock" those of an earlier life: *)
(* no write fails there, and nothing is done to the folder of skills.      *)
(***************************************************************************)
EXTENDS Integers, FiniteSets, Sequences, TLC

CONSTANTS
    None, Torn, MaxFailures, MaxCrashes,
    Ids, Lanes, LogAfter, Cap, MaxTurns,            \* Sessions
    Logins, Sites, Good, Bad, MaxRequests, MaxNamings, MaxLogins,   \* SshProfiles
    Items, Slots, MaxStarts,                        \* Downloads
    Names, Staff, FirstCap, MaxRooms, MaxUpdates, MaxChanges, MaxWrites,  \* Channels
    Planners, Api, Skills, Demo, Bodies, DemoBody, Python, Tools, MaxEdits,   \* Plugins
    Always, HookCap, MaxRules, MaxCalls,            \* Guards
    Self, Fellows, Stale, MaxTime,                 \* Cluster
    StateKeys, Tasks, Topics, Facts, Values, Queued, Finished, MaxPuts  \* SharedState

VARIABLES
    part,
    live, meta, metaLive, logging, metaError, index, log, transcript, lane, api,
    turns, faults, crashes, apart, missing,
    file, saved, pending, actor, requests, logins, errors, deaths, reached, kept,
    forgotten, undeleted, environments, named, promised, revoked,
    probe, job, nextJob, search, threads, starts, installed, stray,
    channels, channelFile, rooms, nextId, roomFile, updates, confirmed, poller,
    request, agents, writer, outbox, changes, failures, restarts, era, seen, mixed, behind,
    skills, skillFile, plugins, pluginFile, bound, toolFile, folder, agent, pyFile,
    edits, writeErrors, ends, loose, amiss, excused, strayed,
    rules, ruleFile, saving, hooks, nextHook, trail, call, ruleEdits, calls,
    ruleErrors, ruleEnds, ruleAmiss, wasDenied, stays, unlogged,
    nodes, now, beat,
    store, stateFile, flushed, board, boardFile, facts, export, task, asked,
    puts, putErrors, putEnds, unsaved, missed, late

Chat == INSTANCE Sessions WITH failures <- faults
Ssh == INSTANCE SshProfiles WITH
    Keys <- Logins, Environments <- {}, failures <- errors, crashes <- deaths
Site == INSTANCE SshProfiles WITH
    Keys <- Logins, Environments <- Sites, MaxRequests <- MaxNamings,
    failures <- errors, crashes <- deaths
Fetch == INSTANCE Downloads
Im == INSTANCE Channels WITH Agents <- Staff, crashes <- restarts
Line == INSTANCE Channels WITH
    Agents <- Staff, MaxChanges <- MaxWrites, MaxFailures <- 0, crashes <- restarts
Plug == INSTANCE Plugins WITH
    Lanes <- Planners, Names <- Skills, MaxChanges <- MaxEdits,
    actor <- agent, changes <- edits, failures <- writeErrors, crashes <- ends
Stock == INSTANCE Plugins WITH
    Lanes <- Planners, Names <- Skills, MaxChanges <- MaxEdits,
    MaxFailures <- 0, MaxCrashes <- 0,
    actor <- agent, changes <- edits, failures <- writeErrors, crashes <- ends
Guard == INSTANCE Guards WITH
    Lanes <- Planners, MaxChanges <- MaxRules, changes <- ruleEdits,
    failures <- ruleErrors, crashes <- ruleEnds, amiss <- ruleAmiss
Node == INSTANCE Cluster WITH Others <- Fellows
Share == INSTANCE SharedState WITH
    Slots <- StateKeys, Done <- Finished, MaxChanges <- MaxPuts, bound <- flushed, request <- asked,
    changes <- puts, failures <- putErrors, crashes <- putEnds

chatVars == <<live, meta, metaLive, logging, metaError, index, log, transcript, lane,
              api, turns, faults, crashes, apart, missing>>
sshVars == <<file, saved, pending, actor, requests, logins, errors, deaths, reached,
             kept, forgotten, undeleted, environments, named, promised, revoked>>
fetchVars == <<probe, job, nextJob, search, threads, starts, installed, stray>>
imVars == <<channels, channelFile, rooms, nextId, roomFile, updates, confirmed, poller,
            request, agents, writer, outbox, changes, failures, restarts, era, seen, mixed,
            behind>>
plugVars == <<skills, skillFile, plugins, pluginFile, bound, toolFile, folder, agent,
              pyFile, edits, writeErrors, ends, loose, amiss, excused, strayed>>
guardVars == <<rules, ruleFile, saving, hooks, nextHook, trail, call, ruleEdits, calls,
               ruleErrors, ruleEnds, ruleAmiss, wasDenied, stays, unlogged>>
nodeVars == <<nodes, now, beat>>
shareVars == <<store, stateFile, flushed, board, boardFile, facts, export, task, asked,
               puts, putErrors, putEnds, unsaved, missed, late>>
vars == <<part, chatVars, sshVars, fetchVars, imVars, plugVars, guardVars, nodeVars,
          shareVars>>

\* Channels and Plugins start from several files; elsewhere there is nothing in them.
Init ==
    /\ part \in {"chat", "ssh", "fetch", "im", "line", "site", "plug", "stock",
                "guard", "node", "share"}
    /\ IF part = "site" THEN Site!Init ELSE Ssh!Init
    /\ Chat!Init /\ Fetch!Init /\ Im!Init /\ Plug!Init
    /\ Guard!Init /\ Node!Init /\ Share!Init
    /\ part \notin {"im", "line"} => channels = <<>> /\ rooms = <<>>
    /\ IF part = "stock" THEN Len(plugins) = Cardinality(Skills) ELSE plugins = <<>>
    /\ part = "im" => \A i \in DOMAIN rooms :
                        rooms[i].members = {}
                        /\ channels # <<>> => rooms[i].channel = channels[1].name

Next ==
    /\ UNCHANGED part
    /\ \/ /\ part = "chat" /\ Chat!Next
          /\ UNCHANGED <<sshVars, fetchVars, imVars, plugVars,
                         guardVars, nodeVars, shareVars>>
       \/ /\ part = "ssh" /\ Ssh!Next
          /\ UNCHANGED <<chatVars, fetchVars, imVars, plugVars,
                         guardVars, nodeVars, shareVars>>
       \/ /\ part = "site" /\ Site!Next
          /\ actor'["tool"].pc # "stage" /\ actor'["api"].pc \notin {"forget", "clear"}
          /\ UNCHANGED <<chatVars, fetchVars, imVars, plugVars,
                         guardVars, nodeVars, shareVars>>
       \/ /\ part = "fetch" /\ Fetch!Next
          /\ UNCHANGED <<chatVars, sshVars, imVars, plugVars,
                         guardVars, nodeVars, shareVars>>
       \/ /\ part = "im" /\ Im!Next /\ UNCHANGED <<agents, writer>>
          /\ \A i \in DOMAIN rooms' : rooms'[i].members = {}
          /\ UNCHANGED <<chatVars, sshVars, fetchVars, plugVars,
                         guardVars, nodeVars, shareVars>>
       \/ /\ part = "line" /\ Line!Next /\ UNCHANGED poller
          /\ UNCHANGED <<chatVars, sshVars, fetchVars, plugVars,
                         guardVars, nodeVars, shareVars, updates>>
       \/ /\ part = "plug" /\ Plug!Next
          /\ UNCHANGED <<chatVars, sshVars, fetchVars, imVars,
                         guardVars, nodeVars, shareVars>>
       \/ /\ part = "stock" /\ Stock!Next /\ UNCHANGED <<folder, pyFile>>
          /\ UNCHANGED <<chatVars, sshVars, fetchVars, imVars,
                         guardVars, nodeVars, shareVars>>
       \/ /\ part = "guard" /\ Guard!Next
          /\ UNCHANGED <<chatVars, sshVars, fetchVars, imVars,
                         plugVars, nodeVars, shareVars>>
       \/ /\ part = "node" /\ Node!Next
          /\ UNCHANGED <<chatVars, sshVars, fetchVars, imVars,
                         plugVars, guardVars, shareVars>>
       \/ /\ part = "share" /\ Share!Next
          /\ UNCHANGED <<chatVars, sshVars, fetchVars, imVars,
                         plugVars, guardVars, nodeVars>>

Spec == Init /\ [][Next]_vars

\* Components share the names of what each of them has two of: no component
\* orders them, and only one of the components moves.
Symmetry == Permutations(Ids) \union Permutations(Lanes)
-----------------------------------------------------------------------------
\* Of a part that is not looked at there is nothing to say.

\* A run keeps its session, turns stay in order, and what is shown of a session
\* and of all of them is what a restart would show; so it is with the slots and
\* topics that all share, and a value that was lent is one while it is read.
SessionsSafe ==
    /\ part = "chat" => Chat!SessionsSafe
    /\ part = "share" => Share!SharedSafe

\* The file of endpoints stays well formed, a password is saved after a login
\* only, one that was accepted is tried, and none is left of what was forgotten;
\* so it is with environments that were named; a tool that is denied is not run,
\* and one that was run has its line with every hook.
AccessSafe ==
    /\ part = "ssh" => Ssh!ProfilesSafe
    /\ part = "site" => Site!ProfilesSafe
    /\ part = "guard" => Guard!GuardsSafe

\* Whoever waits for a download has one thread that writes, an answer is to the
\* question that was asked, and a skill is registered once; what is installed,
\* generated or deleted is so after a restart, with a file that agrees, and a
\* run executes what it has found.
CapabilitiesSafe ==
    /\ part = "fetch" => Fetch!DownloadsSafe
    /\ part = "plug" => Plug!PluginsSafe
    /\ part = "stock" => Stock!PluginsSafe

\* An update is forgotten outside only when it was put into its room, once and
\* in order, while channels come and go; what clients write is heard in their room
\* and goes to a channel linked to it; a node is down only while it is silent.
PeersSafe ==
    /\ part = "im" => Im!ChannelsSafe
    /\ part = "line" => Line!ChannelsSafe
    /\ part = "node" => Node!ClusterSafe
=============================================================================
