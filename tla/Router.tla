------------------------------- MODULE Router -------------------------------
(***************************************************************************)
(* The table of routes to models (llm/router.c) and the requests that      *)
(* change it: a route is added, replaced or removed, what a provider's     *)
(* listing says of a model is taken over when a client fetches it, every   *)
(* change is saved to routes.json, and runs pick routes by policy.         *)
(* Requests are handled one at a time; the listing is fetched by a thread. *)
(*                                                                         *)
(* A route's target is the endpoint and model it names; its metadata is    *)
(* where the size of the context window comes from, and of which target.   *)
(* Every endpoint here has a URL, and every weight is the default of 1.    *)
(* "cost" stands for "latency" too, which reads another number.  A pick is *)
(* of a lane that routes; that lanes can be told not to is left out.       *)
(***************************************************************************)
EXTENDS Integers, Sequences, FiniteSets

CONSTANTS
    RouteNames,
    Targets,        \* pairs of an endpoint and a model
    Catalogued,     \* targets the built-in catalog knows
    Priced,         \* targets whose cost rank is known; it is 1
    Capable,        \* targets that carry the tag a policy may ask for
    None,
    MaxPicks,       \* bound: picks between two changes
    MaxFailures     \* bound: saves that fail

VARIABLES
    routes,         \* in the order of the table
    cursor, tie,    \* the two round-robin cursors
    policy, config, \* the policy, and what a start takes from the configuration
    file,           \* routes.json
    phase, asked, listing,   \* the fetch of a listing: its state, the endpoint
                             \* the handler remembers, the one listed
    failures,
    unsaved,        \* ghost: the files whose last save failed
    picks           \* ghost: name |-> picks since the last change

routerVars == <<routes, cursor, tie, policy, config, file, phase, asked, listing,
                failures, unsaved, picks>>

Endpoints == {t[1] : t \in Targets}
Policies == {"round_robin", "cost", "capability"}
NoPicks == [n \in RouteNames |-> 0]

Init ==
    /\ routes = <<>> /\ cursor = 0 /\ tie = 0
    /\ policy \in Policies /\ config = policy
    /\ file = <<>> /\ phase = "idle" /\ asked = None /\ listing = None
    /\ failures = 0 /\ unsaved = {} /\ picks = NoPicks

Place(table, n) == {i \in DOMAIN table : table[i].name = n}

\* route_default_capabilities
Default(target) ==
    [of |-> target, from |-> IF target \in Catalogued THEN "catalog" ELSE "fallback"]

-----------------------------------------------------------------------------
\* router_add_ex and router_set_model_metadata, on a table

\* What a route knows of its model is kept if it still names the same one.
MetaAfter(route, target) == IF route.target = target THEN route.meta ELSE Default(target)

With(table, n, target) ==
    IF Place(table, n) = {}
    THEN Append(table, [name |-> n, target |-> target, meta |-> Default(target)])
    ELSE [i \in DOMAIN table |->
            IF table[i].name = n
            THEN [name |-> n, target |-> target, meta |-> MetaAfter(table[i], target)]
            ELSE table[i]]

\* "Missing discovery metadata must not overwrite a cached known capacity."
Weaker(source, old) ==
    \/ source = "fallback" /\ old # "fallback"
    \/ source # "configured" /\ old = "configured"
    \/ source = "catalog" /\ old = "provider_metadata"

Informed(table, n, meta) ==
    [i \in DOMAIN table |->
        IF table[i].name = n /\ ~Weaker(meta.from, table[i].meta.from)
        THEN [table[i] EXCEPT !.meta = meta] ELSE table[i]]

-----------------------------------------------------------------------------
\* Requests that change the table save it; a failed save is not noticed and
\* leaves the old file or none that parses.
SaveFails(name) ==
    /\ failures < MaxFailures /\ failures' = failures + 1
    /\ unsaved' = unsaved \union {name}

Saved ==
    \/ file' = routes' /\ unsaved' = unsaved \ {"routes"} /\ UNCHANGED failures
    \/ SaveFails("routes") /\ file' \in {file, <<>>}

\* h_route_add, perhaps with a window the user states
AddRoute(n, target, states) ==
    /\ routes' = LET added == With(routes, n, target)
                 IN  IF states THEN Informed(added, n, [of |-> target, from |-> "configured"])
                     ELSE added
    /\ Saved
    /\ picks' = NoPicks
    /\ UNCHANGED <<cursor, tie, policy, config, phase, asked, listing>>

\* router_remove
Without(table, n) == SelectSeq(table, LAMBDA r : r.name # n)

\* h_route_delete
RemoveRoute(n) ==
    /\ routes' = Without(routes, n)
    /\ Saved
    /\ picks' = NoPicks
    /\ UNCHANGED <<cursor, tie, policy, config, phase, asked, listing>>

\* config_save_file: a configuration that does not parse names no policy.
ConfigSaved ==
    \/ config' = policy' /\ unsaved' = unsaved \ {"config"} /\ UNCHANGED failures
    \/ SaveFails("config") /\ config' \in {config, "round_robin"}

\* h_route_policy
SetPolicy(p) ==
    /\ policy' = p
    /\ ConfigSaved
    /\ picks' = NoPicks
    /\ UNCHANGED <<routes, cursor, tie, file, phase, asked, listing>>

\* POST /v1/routes/models, for an endpoint or without one
Ask(e) ==
    /\ phase # "fetching"
    /\ asked' = e
    /\ IF e = None THEN UNCHANGED <<phase, listing>>
       ELSE phase' = "fetching" /\ listing' = e
    /\ UNCHANGED <<routes, cursor, tie, policy, config, file, failures, unsaved,
                   picks>>

\* models_fetch_thread
Fetched ==
    /\ phase = "fetching"
    /\ \/ phase' = "listed" /\ UNCHANGED listing
       \/ phase' = "failed" /\ listing' = None
    /\ UNCHANGED <<routes, cursor, tie, policy, config, file, asked, failures,
                   unsaved, picks>>

OfTheEndpoint(route) == route.target[1] = asked

\* GET /v1/routes/models: what is listed of the models of the endpoint asked
\* for is taken over by the routes that name it.
Poll ==
    /\ phase \in {"listed", "failed"} /\ phase' = "idle"
    /\ IF phase = "listed"
       THEN /\ \E source \in {"provider_metadata", "catalog", "fallback"} :
                  routes' = [i \in DOMAIN routes |->
                     IF ~OfTheEndpoint(routes[i]) THEN routes[i]
                     ELSE Informed(routes, routes[i].name,
                              [of |-> <<listing, routes[i].target[2]>>, from |-> source])[i]]
            /\ Saved
            /\ picks' = NoPicks
       ELSE UNCHANGED <<routes, file, failures, unsaved, picks>>
    /\ UNCHANGED <<cursor, tie, policy, config, asked, listing>>

\* router_load_file: each route is added, with the defaults of this build,
\* and then told what was saved of it.
Loaded ==
    [i \in DOMAIN file |->
        IF Weaker(file[i].meta.from, Default(file[i].target).from)
        THEN [file[i] EXCEPT !.meta = Default(file[i].target)] ELSE file[i]]

Restart ==
    /\ routes' = Loaded /\ cursor' = 0 /\ tie' = 0
    /\ phase' = "idle" /\ asked' = None /\ listing' = None
    /\ policy' = config
    /\ unsaved' = {} /\ picks' = NoPicks
    /\ UNCHANGED <<config, file, failures>>

-----------------------------------------------------------------------------
\* pick_locked

\* route_has_cap
Tagged == {i \in DOMAIN routes : routes[i].target \in Capable}

InTurn == policy = "round_robin" \/ (policy = "capability" /\ Tagged = {})
Candidates == IF policy = "capability" THEN Tagged ELSE DOMAIN routes

\* The lowest cost that is known, or the first candidate if none is.
Cheapest ==
    LET known == {i \in Candidates : routes[i].target \in Priced}
    IN  IF known # {} THEN known
        ELSE {i \in Candidates : \A j \in Candidates : i <= j}

TieNext == (tie + 1) % Cardinality(Cheapest)

\* The k-th of a set of places, from 0.
Nth(S, k) == CHOOSE i \in S : Cardinality({j \in S : j < i}) = k

\* Only the rest by the table's length is looked at: the cursor that nobody
\* carries the tag for counts on, here up to a multiple of every length.
Lap == CHOOSE k \in 1..720 : \A n \in 1..Cardinality(RouteNames) : k % n = 0
TurnNext == IF policy = "round_robin" THEN (cursor + 1) % Len(routes)
            ELSE (cursor + 1) % Lap

\* router_pick counts it
PickAt(i) == picks' = [picks EXCEPT ![routes[i].name] = @ + 1]

Pick ==
    /\ routes # <<>> /\ \A n \in RouteNames : picks[n] < MaxPicks
    /\ IF InTurn
       THEN PickAt((cursor % Len(routes)) + 1) /\ cursor' = TurnNext /\ UNCHANGED tie
       ELSE IF Cardinality(Cheapest) > 1
       THEN /\ tie' = TieNext /\ PickAt(Nth(Cheapest, tie')) /\ UNCHANGED cursor
       ELSE PickAt(CHOOSE i \in Cheapest : TRUE) /\ UNCHANGED <<cursor, tie>>
    /\ UNCHANGED <<routes, policy, config, file, phase, asked, listing, failures, unsaved>>

Next ==
    \/ \E n \in RouteNames, t \in Targets, states \in BOOLEAN : AddRoute(n, t, states)
    \/ \E n \in RouteNames : RemoveRoute(n)
    \/ \E p \in Policies : SetPolicy(p)
    \/ \E e \in Endpoints \cup {None} : Ask(e)
    \/ Fetched \/ Poll \/ Restart \/ Pick

Spec == Init /\ [][Next]_routerVars
-----------------------------------------------------------------------------
\* What a route says of its model was said of that model: not of one it named
\* before, nor by the listing of another endpoint.
MetadataFits == \A i \in DOMAIN routes : routes[i].meta.of = routes[i].target

\* What a user has configured is not replaced by a weaker source while the
\* route names the same model, across requests, listings and restarts; a
\* restart after a failed save may go back.
ConfiguredStays ==
    \A i \in DOMAIN routes, j \in DOMAIN routes' :
       /\ routes[i].name = routes'[j].name /\ routes[i].target = routes'[j].target
       /\ routes[i].meta.from = "configured"
       => routes'[j].meta.from = "configured" \/ "routes" \in unsaved

\* Load is shared: between two changes of the table the routes that are as
\* good as each other are picked equally often, up to one, and no other is.
PicksAreShared ==
    LET best == IF InTurn THEN DOMAIN routes ELSE Cheapest
    IN  /\ \A i, j \in best : picks[routes[i].name] <= picks[routes[j].name] + 1
        /\ \A n \in RouteNames : picks[n] > 0 => \E i \in best : routes[i].name = n

\* A restart picks by the policy that was chosen last, unless its save failed.
PolicyStays == policy = config \/ "config" \in unsaved

\* All four, of every step.
RouterSafe ==
    [][MetadataFits' /\ PicksAreShared' /\ PolicyStays' /\ ConfiguredStays]_routerVars
=============================================================================
