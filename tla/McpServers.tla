----------------------------- MODULE McpServers -----------------------------
(***************************************************************************)
(* The tool servers a user connects (action/mcp_conn.c, the handlers of    *)
(* /v1/mcp): the connections and their file, and the tools they offer,     *)
(* which are put in the registry of tools under the server's name, with    *)
(* odd characters made '_'.  Requests take turns; tasks look tools up in   *)
(* the registry, which has no lock, while requests change it.  A single    *)
(* call of a server is module Mcp.                                         *)
(***************************************************************************)
EXTENDS Integers, Sequences, FiniteSets, SequencesExt, Functions

CONSTANTS
    Names,              \* of servers
    Twin, Original,     \* two names that become one in the names of tools
    Configs, Stdio,     \* what a server is reached by; those that are commands
    Offers,             \* its tools
    Local,              \* names with a file in the folder mcp/
    Default,            \* the configuration those files hold
    Tasks,
    MaxChanges, MaxCalls, MaxFailures, MaxCrashes

VARIABLES
    conns,              \* m->items with m->sess: the tools listed, if they are
    registry,           \* the generation of each tool by its full name, or 0
    gens,               \* all structures of tools that were ever made
    owned, freed,       \* those of m->owned, and those given back
    file,               \* mcp.json, and whether it was cut off
    request,            \* the request under way
    lock,               \* m->mtx: "free", "request", or a task
    call,               \* where each task is
    changes, calls, failures, crashes,
    wanted, gone        \* history: servers added, and names deleted, for good

serverVars == <<conns, registry, gens, owned, freed, file, request, lock, call,
                changes, calls, failures, crashes, wanted, gone>>

Slug(n) == IF n = Twin THEN Original ELSE n
FullNames == {<<Slug(n), t>> : n \in Names, t \in Offers}
Conn(n, c) == [name |-> n, config |-> c, listed |-> {}]
Idle == [at |-> "idle", gen |-> 0, server |-> Original]
NoRequest == [op |-> "none", name |-> Original, config |-> Default, at |-> "done",
              todo |-> <<>>, left |-> {}, stale |-> 0]

Init ==
    /\ conns = <<>> /\ file = [torn |-> FALSE, list |-> <<>>]
    /\ registry = [f \in FullNames |-> 0]
    /\ gens = <<>> /\ owned = {} /\ freed = {}
    /\ request = NoRequest /\ lock = "free"
    /\ call = [k \in Tasks |-> Idle]
    /\ changes = 0 /\ calls = 0 /\ failures = 0 /\ crashes = 0
    /\ wanted = {} /\ gone = {}

table == <<registry, gens, owned, freed>>
bounds == <<changes, calls, failures, crashes>>
history == <<wanted, gone>>

Known == {conns[i].name : i \in DOMAIN conns}

\* find_conn, of a name that is known; the names differ.
FindConn(n) == CHOOSE i \in DOMAIN conns : conns[i].name = n

\* mcp_manager_add_ex: a name in use gets a new configuration, and its session
\* is forgotten.
Added(list, new) ==
    IF \E i \in DOMAIN list : list[i].name = new.name
    THEN [i \in DOMAIN list |-> IF list[i].name = new.name THEN new ELSE list[i]]
    ELSE Append(list, new)

\* mcp_manager_load_local, as mcp_manager_add_ex for every file: a name in use
\* gets the configuration of the file, the others follow as the folder lists them.
WithLocal(list) ==
    LET new == Local \ {list[i].name : i \in DOMAIN list}
        old == [i \in DOMAIN list |->
                   IF list[i].name \in Local THEN Conn(list[i].name, Default) ELSE list[i]]
    IN  {old \o [i \in DOMAIN order |-> Conn(order[i], Default)] :
            order \in Bijection(1 .. Cardinality(new), new)}

-----------------------------------------------------------------------------
(* Requests *)

Begin(op, n, c, at) ==
    /\ request.op = "none" /\ changes < MaxChanges /\ changes' = changes + 1
    /\ request' = [NoRequest EXCEPT !.op = op, !.name = n, !.config = c, !.at = at]
    /\ UNCHANGED <<conns, table, file, lock, call, calls, failures, crashes, history>>

\* h_mcp_add, h_mcp_delete, h_mcp_sync
Add(n, c) == Begin("add", n, c, "change")
Delete(n) == Begin("delete", n, Default, "change")
Sync == Begin("sync", Original, Default, "change")

NamesOf(list) == [i \in DOMAIN list |-> list[i].name]

\* mcp_manager_add_ex, with which mcp_manager_sync_tools_one begins, or
\* mcp_manager_load_local before mcp_manager_sync_tools.
AddConn ==
    /\ request.op = "add" /\ request.at = "change" /\ lock = "free"
    /\ conns' = Added(conns, Conn(request.name, request.config))
    /\ request' = [request EXCEPT !.at = "sync", !.todo = <<request.name>>]
    /\ gone' = gone \ {request.name}
    /\ UNCHANGED <<table, file, lock, call, bounds, wanted>>

LoadLocal ==
    /\ request.op = "sync" /\ request.at = "change" /\ lock = "free"
    /\ conns' \in WithLocal(conns)
    /\ request' = [request EXCEPT !.at = "sync", !.todo = NamesOf(conns')]
    /\ UNCHANGED <<table, file, lock, call, bounds, history>>

\* mcp_manager_remove: the connection, then the tools whose names begin with the
\* server's.
RemoveConn ==
    LET n == request.name IN
    /\ request.op = "delete" /\ request.at = "change" /\ lock = "free"
    /\ IF n \in Known
       THEN /\ conns' = RemoveAt(conns, FindConn(n)) /\ lock' = "request"
            /\ request' = [request EXCEPT !.at = "unregister",
                  !.left = {g \in owned : gens[g].slug = Slug(n)}]
       ELSE /\ request' = NoRequest
            /\ UNCHANGED <<conns, lock>>
    /\ wanted' = {w \in wanted : w.name # n}
    /\ UNCHANGED <<table, file, call, bounds, gone>>

FullName(g) == <<gens[g].slug, gens[g].tool>>

\* tool_unregister, and then the structure is freed.
Unregister ==
    /\ request.at = "unregister" /\ request.left # {} /\ request.stale = 0
    /\ \E g \in request.left :
          /\ registry' = [registry EXCEPT ![FullName(g)] = 0]
          /\ request' = [request EXCEPT !.left = @ \ {g}, !.stale = g]
    /\ UNCHANGED <<conns, gens, owned, freed, file, lock, call, bounds, history>>

Free ==
    /\ request.stale # 0
    /\ owned' = owned \ {request.stale} /\ freed' = freed \cup {request.stale}
    /\ request' = [request EXCEPT !.stale = 0]
    /\ UNCHANGED <<conns, registry, gens, file, lock, call, bounds, history>>

Removed ==
    /\ request.at = "unregister" /\ request.left = {} /\ request.stale = 0
    /\ lock' = "free" /\ request' = [request EXCEPT !.at = "save"]
    /\ UNCHANGED <<conns, table, file, call, bounds, history>>

\* mcp_manager_sync_tools and mcp_manager_sync_tools_one take the lock.
BeginSync ==
    /\ request.at = "sync" /\ lock = "free"
    /\ lock' = "request" /\ request' = [request EXCEPT !.at = "discover"]
    /\ UNCHANGED <<conns, table, file, call, bounds, history>>

\* ensure_initialized and fetch_tools: a list that is known is not asked for
\* again.  A server that does not answer, or for which no time is left, is
\* passed over.  (Every server here offers a tool.)
Discover ==
    /\ request.at = "discover" /\ request.todo # <<>>
    /\ LET n == Head(request.todo)  i == FindConn(n)
       IN  \/ /\ request' = [request EXCEPT !.todo = Tail(@)]
              /\ UNCHANGED conns
           \/ \E list \in IF conns[i].listed = {} THEN (SUBSET Offers) \ {{}}
                          ELSE {conns[i].listed} :
                /\ conns' = [conns EXCEPT ![i].listed = list]
                /\ request' = [request EXCEPT !.at = "register", !.left = list, !.name = n]
    /\ UNCHANGED <<table, file, lock, call, bounds, history>>

\* Mutated form: what is replaced is freed before it is replaced.
RegisterAfterFree ==
    /\ request.at = "register" /\ request.left # {} /\ request.stale = 0
    /\ \E t \in request.left :
          LET f == <<Slug(request.name), t>> g == Len(gens) + 1 IN
          IF registry[f] \in owned
          THEN /\ owned' = owned \ {registry[f]} /\ freed' = freed \cup {registry[f]}
               /\ UNCHANGED <<gens, registry, request>>
          ELSE /\ gens' = Append(gens, [server |-> request.name, slug |-> f[1], tool |-> t])
               /\ registry' = [registry EXCEPT ![f] = g]
               /\ owned' = owned \cup {g}
               /\ request' = [request EXCEPT !.left = @ \ {t}]
               /\ UNCHANGED freed
    /\ UNCHANGED <<conns, file, lock, call, bounds, history>>

\* sync_server: tool_register_ex replaces what has the name; that is freed after,
\* when it belongs to the manager.
Register ==
    /\ request.at = "register" /\ request.left # {} /\ request.stale = 0
    /\ \E t \in request.left :
          LET f == <<Slug(request.name), t>> g == Len(gens) + 1 IN
          /\ gens' = Append(gens, [server |-> request.name, slug |-> f[1], tool |-> t])
          /\ registry' = [registry EXCEPT ![f] = g]
          /\ owned' = owned \cup {g}
          /\ request' = [request EXCEPT !.left = @ \ {t},
                            !.stale = IF registry[f] \in owned THEN registry[f] ELSE 0]
    /\ UNCHANGED <<conns, freed, file, lock, call, bounds, history>>

Registered ==
    /\ request.at = "register" /\ request.left = {} /\ request.stale = 0
    /\ request' = [request EXCEPT !.at = "discover", !.todo = Tail(@)]
    /\ UNCHANGED <<conns, table, file, lock, call, bounds, history>>

\* Only an addition is saved; servers of the folder are with the next one.
EndSync ==
    /\ request.at = "discover" /\ request.todo = <<>>
    /\ lock' = "free"
    /\ request' = IF request.op = "add" THEN [request EXCEPT !.at = "save"] ELSE NoRequest
    /\ UNCHANGED <<conns, table, file, call, bounds, history>>

Saved(list) ==
    [torn |-> FALSE,
     list |-> [i \in DOMAIN list |-> [name |-> list[i].name, config |-> list[i].config]]]
TornFile == [torn |-> TRUE, list |-> <<>>]
Kept(list) == {[name |-> c.name, config |-> c.config] :
                  c \in {list[i] : i \in {j \in DOMAIN list : list[j].name \notin Local}}}

\* mcp_manager_persist: nobody asks whether it succeeded.  Without memory it
\* writes nothing; fs_write_file empties the file before it writes, so that one
\* that fails after may leave no more than a part, which no restart can read.
Persist ==
    /\ request.at = "save"
    /\ \/ /\ file' = Saved(conns)
          /\ wanted' = Kept(conns)
          /\ gone' = Names \ (Known \cup Local)
          /\ UNCHANGED failures
       \/ /\ failures < MaxFailures /\ failures' = failures + 1
          /\ \/ /\ UNCHANGED file
                /\ wanted' = wanted \cap Kept(conns)
                /\ gone' = gone \ Known
             \/ /\ file' = TornFile
                /\ wanted' = {}
                /\ gone' = Names \ (Known \cup Local)
    /\ request' = NoRequest
    /\ UNCHANGED <<conns, table, lock, call, changes, calls, crashes>>

-----------------------------------------------------------------------------
(* Tasks *)

\* tool_find, with no lock.
Find(k, f) ==
    /\ call[k].at = "idle" /\ request.op # "start" /\ registry[f] # 0
    /\ calls < MaxCalls /\ calls' = calls + 1
    /\ call' = [call EXCEPT ![k] = [Idle EXCEPT !.at = "found", !.gen = registry[f]]]
    /\ UNCHANGED <<conns, table, file, request, lock, changes, failures, crashes, history>>

\* mcp_exec: the tool that calls a server by its name.
ByName(k, n) ==
    /\ call[k].at = "idle" /\ request.op # "start"
    /\ calls < MaxCalls /\ calls' = calls + 1
    /\ call' = [call EXCEPT ![k] = [Idle EXCEPT !.at = "bound", !.server = n]]
    /\ UNCHANGED <<conns, table, file, request, lock, changes, failures, crashes, history>>

\* mcp_remote_exec copies the name of the server before it waits for the lock.
\* What it copies from a structure that was freed may be anything.
CopyBinding(k) ==
    /\ call[k].at = "found"
    /\ \E n \in IF call[k].gen \in freed THEN Names ELSE {gens[call[k].gen].server} :
          call' = [call EXCEPT ![k].at = "bound", ![k].server = n]
    /\ UNCHANGED <<conns, table, file, request, lock, bounds, history>>

\* mcp_manager_call: a server that is not known (any more) is an error.
Call(k) ==
    /\ call[k].at = "bound" /\ lock = "free"
    /\ IF call[k].server \in Known
       THEN lock' = k /\ call' = [call EXCEPT ![k].at = "calling"]
       ELSE call' = [call EXCEPT ![k] = Idle] /\ UNCHANGED lock
    /\ UNCHANGED <<conns, table, file, request, bounds, history>>

\* rpc_http, rpc_stdio: the call ends, in an answer or an error.
EndCall(k) ==
    /\ call[k].at = "calling"
    /\ lock' = "free" /\ call' = [call EXCEPT ![k] = Idle]
    /\ UNCHANGED <<conns, table, file, request, bounds, history>>

\* stdio_ensure: the process had died, its list is forgotten.
Forget(k) ==
    /\ call[k].at = "calling"
    /\ \E i \in DOMAIN conns :
          /\ conns[i].name = call[k].server /\ conns[i].config \in Stdio
          /\ conns[i].listed # {}
          /\ conns' = [conns EXCEPT ![i].listed = {}]
    /\ UNCHANGED <<table, file, request, lock, call, bounds, history>>

-----------------------------------------------------------------------------
\* The process dies, perhaps while it writes the file, and starts again:
\* mcp_manager_load, mcp_manager_load_local, mcp_manager_sync_tools.
Restart ==
    /\ crashes < MaxCrashes /\ crashes' = crashes + 1
    /\ \/ UNCHANGED <<file, history>>
       \/ /\ request.at = "save" /\ file' = TornFile
          /\ wanted' = {} /\ gone' = {}
    /\ conns' \in WithLocal([i \in DOMAIN file'.list |->
                                Conn(file'.list[i].name, file'.list[i].config)])
    /\ registry' = [f \in FullNames |-> 0] /\ gens' = <<>> /\ owned' = {} /\ freed' = {}
    /\ request' = [NoRequest EXCEPT !.op = "start", !.at = "sync", !.todo = NamesOf(conns')]
    /\ lock' = "free" /\ call' = [k \in Tasks |-> Idle]
    /\ UNCHANGED <<changes, calls, failures>>

Next ==
    \/ \E n \in Names, c \in Configs : Add(n, c)
    \/ \E n \in Names : Delete(n)
    \/ Sync
    \/ AddConn \/ LoadLocal \/ RemoveConn \/ Unregister \/ Free \/ Removed
    \/ BeginSync \/ Discover \/ Register \/ Registered \/ EndSync \/ Persist
    \/ \E k \in Tasks :
          \/ \E f \in FullNames : Find(k, f)
          \/ \E n \in Names : ByName(k, n)
          \/ CopyBinding(k) \/ Call(k) \/ EndCall(k) \/ Forget(k)
    \/ Restart

Spec == Init /\ [][Next]_serverVars

-----------------------------------------------------------------------------
\* The registry never leads to a tool that was freed, although it is read
\* without a lock; and the manager owns what it put there, once for each name.
\* (sync_server and mcp_manager_remove, mcp_conn.c)
RegistryIsLive ==
    /\ \A f \in FullNames : registry[f] # 0 =>
          registry[f] \in owned /\ registry[f] \notin freed /\ FullName(registry[f]) = f
    /\ \A g \in owned : registry[FullName(g)] = g \/ request.stale = g

\* "deleted servers do not leave zombie entries the agent can still call"
\* (mcp_conn.c): a tool in the registry belongs to a server that is connected.
NoZombies ==
    request.op # "delete" =>
        \A f \in FullNames : registry[f] # 0 => gens[registry[f]].server \in Known

\* Servers that were saved stay, through restarts, until they are deleted or get
\* another configuration, or a later save is cut off: that one takes every server
\* along that the folder does not have.  The deleted ones stay away when the save
\* of the deletion succeeded, or left nothing.  (h_mcp_add, h_mcp_delete,
\* mcp_manager_persist, mcp_manager_load)
ServersKept ==
    request.op \in {"none", "start"} => wanted \subseteq Kept(conns) /\ gone \cap Known = {}

McpServersSafe == RegistryIsLive /\ NoZombies /\ ServersKept
=============================================================================
