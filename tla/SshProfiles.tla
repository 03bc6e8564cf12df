---------------------------- MODULE SshProfiles ----------------------------
(***************************************************************************)
(* The SSH endpoints of one chat session (action/ssh_vault.c), and the     *)
(* environments all sessions can name (api/api_rest.c), their passwords in *)
(* the vault, and the two that change them: requests of the API, which     *)
(* take turns, and the ssh tool of the session's run (action/tool_shell.c).*)
(* No lock is held between reading a file and writing it back, nor from it *)
(* to the vault.                                                           *)
(*                                                                         *)
(* A prompt that names an endpoint stages it: the file notes it as         *)
(* pending, and the vault keeps its password under a pending name until a  *)
(* login has succeeded.  The file is overwritten in place and may be left  *)
(* Torn, which reads as empty; so may the file of environments.  Which     *)
(* environment a session's endpoint was reached by, passwords a run without *)
(* a session keeps, the parser of prompts and the arguments of ssh are     *)
(* left out.                                                               *)
(***************************************************************************)
EXTENDS Integers, FiniteSets, Sequences, SequencesExt

CONSTANTS
    Keys, Environments,     \* endpoints, names of environments
    Good, Bad,              \* the password every endpoint accepts, and one it does not
    None, Torn,
    MaxRequests, MaxLogins, MaxFailures, MaxCrashes     \* bounds

Passwords == {Good, Bad}
Actors == {"api", "tool"}

VARIABLES
    file,       \* what the session's file has, or Torn
    saved,      \* vault: key |-> password of a login, or None
    pending,    \* vault: key |-> password not tried yet, or None
    actor,      \* what a request and the tool are doing
    requests, logins, failures, crashes,
    reached,    \* ghost: keys a login has succeeded for
    kept,       \* ghost: key |-> password a prompt was accepted with, to be tried
    forgotten,  \* ghost: keys forgotten since they were last staged or used
    undeleted,  \* ghost: passwords of forgotten keys whose deletion has failed
    environments,   \* environments.json: name |-> key or None, or Torn
    named,      \* vault: name |-> password, or None
    promised,   \* ghost: name |-> what a request was told is saved, or None
    revoked     \* ghost: names a request was told are deleted

namedVars == <<environments, named, promised, revoked>>
profilesVars == <<namedVars, file, saved, pending, actor, requests, logins, failures, crashes,
                  reached, kept, forgotten, undeleted>>

NoRoot == [profiles |-> <<>>, pendingKey |-> None, lastKey |-> None]
Idle == [pc |-> "idle", key |-> None, password |-> None, root |-> NoRoot, old |-> None,
         name |-> None]
NoNames == [n \in Environments |-> None]

Init ==
    /\ file = NoRoot
    /\ saved = [k \in Keys |-> None] /\ pending = [k \in Keys |-> None]
    /\ actor = [a \in Actors |-> Idle]
    /\ requests = 0 /\ logins = 0 /\ failures = 0 /\ crashes = 0
    /\ reached = {} /\ kept = [k \in Keys |-> None] /\ forgotten = {}
    /\ undeleted = {}
    /\ environments = NoNames /\ named = NoNames /\ promised = NoNames /\ revoked = {}

-----------------------------------------------------------------------------
\* The file

\* ssh_session_read
Root == IF file = Torn THEN NoRoot ELSE file

ProfilesOf(root, key) == {p \in ToSet(root.profiles) : p.key = key}
Verified(root, key) == \E p \in ProfilesOf(root, key) : p.verified

\* ssh_session_has_verified_profile
HasVerified(root) == root.lastKey # None /\ Verified(root, root.lastKey)

\* ssh_session_profile_get with no environment, None if there is no such profile.
Chosen(root) ==
    LET wanted == IF root.pendingKey # None THEN root.pendingKey
                  ELSE IF root.lastKey # None THEN root.lastKey
                  ELSE IF root.profiles # <<>> THEN Last(root.profiles).key ELSE None
    IN IF ProfilesOf(root, wanted) = {} THEN None
       ELSE CHOOSE p \in ProfilesOf(root, wanted) : TRUE

\* Mutated form: what is pending is dropped though it is for the same key.
ObsoleteAlways(root, key) == root.pendingKey

\* The key that was pending before, if it is another one.
Obsolete(root, key) ==
    IF root.pendingKey \in {None, key} THEN None ELSE root.pendingKey

\* ssh_session_profile_record_ex, pending: the profile goes to the end, and the
\* one that was pending goes unless it was verified once.
Staged(root, key) ==
    [profiles |->
        Append(SelectSeq(root.profiles,
                   LAMBDA p : /\ p.key # key
                              /\ p.key = Obsolete(root, key) => p.verified),
               [key |-> key, verified |-> Verified(root, key), pending |-> TRUE]),
     pendingKey |-> key, lastKey |-> root.lastKey]

\* The same, not pending: after a login.
Recorded(root, key) ==
    [profiles |-> Append(SelectSeq(root.profiles, LAMBDA p : p.key # key),
                         [key |-> key, verified |-> TRUE, pending |-> FALSE]),
     pendingKey |-> None, lastKey |-> key]

\* ssh_session_profile_discard_pending
Discarded(root, key) ==
    LET left == SelectSeq(root.profiles, LAMBDA p : p.key = key => p.verified)
    IN [root EXCEPT
            !.profiles = [i \in DOMAIN left |->
                             IF left[i].key = key THEN [left[i] EXCEPT !.pending = FALSE]
                             ELSE left[i]],
            !.pendingKey = None]

\* ssh_session_profile_forget: the last verified profile becomes the last used.
Without(root, key) ==
    LET left == SelectSeq(root.profiles, LAMBDA p : p.key # key)
        fit == SelectSeq(left, LAMBDA p : p.verified)
    IN [profiles |-> left,
        pendingKey |-> IF root.pendingKey = key THEN None ELSE root.pendingKey,
        lastKey |-> IF root.lastKey # key THEN root.lastKey
                    ELSE IF fit = <<>> THEN None ELSE Last(fit).key]

\* ssh_session_write of what the actor has made of the file, then pc; a failed
\* write leaves the old file or a torn one, and then goes to otherwise.
Write(a, pc, otherwise) ==
    \/ /\ file' = actor[a].root
       /\ actor' = [actor EXCEPT ![a].pc = pc]
       /\ UNCHANGED failures
    \/ /\ failures < MaxFailures /\ failures' = failures + 1
       /\ file' \in {file, Torn}
       /\ actor' = [actor EXCEPT ![a].pc = otherwise]

-----------------------------------------------------------------------------
At(a, pc) == actor[a].pc = pc
Go(a, pc) == actor' = [actor EXCEPT ![a].pc = pc]
Rest(a) == actor' = [actor EXCEPT ![a] = Idle]
Mine(a) == actor[a].key
Using(key) == {a \in Actors : ~At(a, "idle") /\ Mine(a) = key}

KeepVault == UNCHANGED <<saved, pending, reached, kept, forgotten, undeleted>>
KeepBounds == UNCHANGED <<requests, logins, crashes>>

\* ssh_vault_delete of a pending password; that it failed is not noticed.
Deletes(key) ==
    \/ pending' = [pending EXCEPT ![key] = None] /\ UNCHANGED failures
    \/ /\ pending[key] # None /\ failures < MaxFailures /\ failures' = failures + 1
       /\ UNCHANGED pending

\* ssh_session_prepare_prompt, of a request or of the run when it starts and
\* when it takes a message; by then a password has been replaced.
Prompt(a, key, password) ==
    /\ At(a, "idle") /\ requests < MaxRequests /\ requests' = requests + 1
    /\ a = "tool" => password = None
    /\ actor' = [actor EXCEPT ![a] =
                    [Idle EXCEPT !.pc = "stage", !.key = key, !.password = password,
                     !.root = Staged(Root, key), !.old = Obsolete(Root, key)]]
    /\ forgotten' = forgotten \ {key}
    /\ UNCHANGED <<file, saved, pending, logins, failures, crashes, reached, kept, undeleted>>

Stage(a) ==
    /\ At(a, "stage")
    /\ Write(a, IF actor[a].old # None THEN "dropOld" ELSE "put", "undo")
    /\ KeepVault /\ KeepBounds

DropOld(a) ==
    /\ At(a, "dropOld") /\ Go(a, "put")
    /\ Deletes(actor[a].old)
    /\ kept' = [kept EXCEPT ![actor[a].old] = IF actor[a].old = Mine(a) THEN @ ELSE None]
    /\ UNCHANGED <<file, saved, reached, forgotten, undeleted>> /\ KeepBounds

\* ssh_vault_put that fails leaves the password there was, if the file could not
\* be opened; else what was there is cut off, and then removed.
FailedPut(old) == {old, None}

Put(a) ==
    /\ At(a, "put")
    /\ \/ /\ actor[a].password = None /\ Rest(a)
          /\ UNCHANGED <<pending, failures, kept>>
       \/ /\ actor[a].password # None /\ Rest(a)
          /\ pending' = [pending EXCEPT ![Mine(a)] = actor[a].password]
          /\ kept' = [kept EXCEPT ![Mine(a)] =
                        IF Using(Mine(a)) = {a} THEN actor[a].password ELSE None]
          /\ UNCHANGED failures
       \/ /\ actor[a].password # None /\ Go(a, "undo")
          /\ failures < MaxFailures /\ failures' = failures + 1
          /\ \E p \in FailedPut(pending[Mine(a)]) :
                pending' = [pending EXCEPT ![Mine(a)] = p]
          /\ kept' = [kept EXCEPT ![Mine(a)] = None]
    /\ UNCHANGED <<file, saved, reached, forgotten, undeleted>> /\ KeepBounds

\* ssh_session_profile_discard_pending reads; it writes only if the key is the
\* pending one.
Undo(a, from, write, otherwise) ==
    /\ At(a, from)
    /\ IF Root.pendingKey = Mine(a)
       THEN actor' = [actor EXCEPT ![a].pc = write, ![a].root = Discarded(Root, Mine(a))]
       ELSE IF otherwise = "idle" THEN Rest(a) ELSE Go(a, otherwise)
    /\ UNCHANGED <<file, failures>> /\ KeepVault /\ KeepBounds

UndoStage(a) == Undo(a, "undo", "undoWrite", "idle")
UndoWrite(a) ==
    /\ At(a, "undoWrite") /\ Write(a, "end", "end")
    /\ KeepVault /\ KeepBounds

\* h_ssh_session, DELETE: only what the file lists can be forgotten.
Forget(key) ==
    /\ At("api", "idle") /\ requests < MaxRequests /\ requests' = requests + 1
    /\ ProfilesOf(Root, key) # {}
    /\ actor' = [actor EXCEPT !["api"] =
                    [Idle EXCEPT !.pc = "forget", !.key = key, !.root = Without(Root, key)]]
    /\ UNCHANGED <<file, logins, failures, crashes>> /\ KeepVault

ForgetWrite ==
    /\ At("api", "forget") /\ Write("api", "erase", "end")
    /\ KeepVault /\ KeepBounds

\* What the vault has under either name of the keys.
Secrets(keys) == {<<"saved", k>> : k \in {i \in keys : saved[i] # None}}
                 \union {<<"pending", k>> : k \in {i \in keys : pending[i] # None}}

(***************************************************************************)
(* Two deletions for each key, under the name of a login and the pending   *)
(* one.  Any may fail, which is not looked at: the request succeeds.       *)
(***************************************************************************)
Erased(keys) ==
    \E left \in SUBSET Secrets(keys) :
        /\ failures + Cardinality(left) <= MaxFailures
        /\ failures' = failures + Cardinality(left)
        /\ saved' = [k \in Keys |-> IF k \in keys /\ <<"saved", k>> \notin left
                                   THEN None ELSE saved[k]]
        /\ pending' = [k \in Keys |-> IF k \in keys /\ <<"pending", k>> \notin left
                                     THEN None ELSE pending[k]]
        /\ kept' = [k \in Keys |-> IF k \in keys THEN None ELSE kept[k]]
        /\ forgotten' = forgotten \union {k \in keys : Using(k) \subseteq {"api"}}
        /\ undeleted' = {e \in undeleted : e[2] \notin keys} \union left

Erase ==
    /\ At("api", "erase") /\ Rest("api")
    /\ Erased({Mine("api")})
    /\ UNCHANGED <<file, reached>> /\ KeepBounds

\* ssh_session_profiles_clear, when the session is cleared or deleted.
Clear ==
    /\ At("api", "idle") /\ requests < MaxRequests /\ requests' = requests + 1
    /\ Erased({p.key : p \in ToSet(Root.profiles)})
    /\ Go("api", "clear")
    /\ UNCHANGED <<file, logins, crashes, reached>>

ClearRemove ==
    /\ At("api", "clear") /\ Rest("api")
    /\ \/ file' = NoRoot /\ UNCHANGED failures
       \/ failures < MaxFailures /\ failures' = failures + 1 /\ UNCHANGED file
    /\ KeepVault /\ KeepBounds

End(a) ==
    /\ At(a, "end") /\ Rest(a)
    /\ UNCHANGED <<file, failures>> /\ KeepVault /\ KeepBounds

-----------------------------------------------------------------------------
\* Environments: the file is written first, then the vault.

\* ssh_profiles_read, ssh_profile_load
Listed == IF environments = Torn THEN NoNames ELSE environments

KeepProfiles ==
    UNCHANGED <<file, saved, pending, logins, crashes, reached, kept, forgotten, undeleted>>

Broken(name) == promised' = [promised EXCEPT ![name] = None]

\* ssh_profiles_save of the file with the name for the key; a write that fails
\* ends the request.
SaveEnvironments(pc, listed) ==
    \/ /\ environments' = listed /\ Go("api", pc) /\ UNCHANGED <<failures, promised>>
    \/ /\ failures < MaxFailures /\ failures' = failures + 1 /\ Rest("api")
       /\ \/ UNCHANGED <<environments, promised>>
          \/ environments' = Torn /\ promised' = NoNames

\* h_ssh_environments, POST. What the request holds when it is told all is
\* saved: with no password, the one there was stays.
Define(name, key, password) ==
    /\ At("api", "idle") /\ requests < MaxRequests /\ requests' = requests + 1
    /\ actor' = [actor EXCEPT !["api"] = [Idle EXCEPT !.pc = "define", !.key = key,
                                             !.password = password, !.name = name]]
    /\ Broken(name)
    /\ UNCHANGED <<environments, named, revoked, failures>> /\ KeepProfiles

Promise(name, password) ==
    promised' = [promised EXCEPT ![name] = [key |-> Mine("api"), password |-> password]]

DefineWrite ==
    /\ At("api", "define")
    /\ SaveEnvironments("putNamed", [Listed EXCEPT ![actor["api"].name] = Mine("api")])
    /\ UNCHANGED <<named, revoked, requests>> /\ KeepProfiles

PutNamed ==
    LET name == actor["api"].name
        password == actor["api"].password
    IN  /\ At("api", "putNamed") /\ Rest("api")
        /\ IF password = None
           THEN Promise(name, named[name]) /\ UNCHANGED <<named, revoked, failures>>
           ELSE /\ revoked' = revoked \ {name}
                /\ \/ /\ named' = [named EXCEPT ![name] = password]
                      /\ Promise(name, password) /\ UNCHANGED failures
                   \/ /\ failures < MaxFailures /\ failures' = failures + 1
                      /\ \E p \in FailedPut(named[name]) :
                            named' = [named EXCEPT ![name] = p]
                      /\ UNCHANGED promised
        /\ UNCHANGED <<environments, requests>> /\ KeepProfiles

\* h_ssh_environment_delete
Undefine(name) ==
    /\ At("api", "idle") /\ requests < MaxRequests /\ requests' = requests + 1
    /\ actor' = [actor EXCEPT !["api"] = [Idle EXCEPT !.pc = "undefine", !.name = name]]
    /\ Broken(name)
    /\ UNCHANGED <<environments, named, revoked, failures>> /\ KeepProfiles

UndefineWrite ==
    /\ At("api", "undefine")
    /\ SaveEnvironments("eraseNamed", [Listed EXCEPT ![actor["api"].name] = None])
    /\ UNCHANGED <<named, revoked, requests>> /\ KeepProfiles

EraseNamed ==
    /\ At("api", "eraseNamed") /\ Rest("api")
    /\ \/ /\ named' = [named EXCEPT ![actor["api"].name] = None]
          /\ revoked' = revoked \cup {actor["api"].name}
          /\ UNCHANGED failures
       \/ /\ failures < MaxFailures /\ failures' = failures + 1
          /\ UNCHANGED <<named, revoked>>
    /\ UNCHANGED <<environments, promised, requests>> /\ KeepProfiles

Environment ==
    \/ \E n \in Environments, k \in Keys, p \in Passwords \union {None} : Define(n, k, p)
    \/ \E n \in Environments : Undefine(n)
    \/ DefineWrite \/ PutNamed \/ UndefineWrite \/ EraseNamed

-----------------------------------------------------------------------------
\* The tool: ssh_exec

\* A pending endpoint wins over the one the model asks for.
Choose(key) ==
    /\ At("tool", "idle") /\ logins < MaxLogins /\ logins' = logins + 1
    /\ (Chosen(Root) # None /\ Chosen(Root).pending) => key = Chosen(Root).key
    /\ actor' = [actor EXCEPT !["tool"] = [Idle EXCEPT !.pc = "fetch", !.key = key]]
    /\ forgotten' = forgotten \ {key}
    /\ UNCHANGED <<file, saved, pending, requests, failures, crashes, reached, kept,
                   undeleted>>

\* The endpoint of an environment, if no endpoint is pending.
ChooseNamed(name) ==
    /\ Listed[name] # None
    /\ ~(Chosen(Root) # None /\ Chosen(Root).pending)
    /\ At("tool", "idle") /\ logins < MaxLogins /\ logins' = logins + 1
    /\ actor' = [actor EXCEPT !["tool"] =
                    [Idle EXCEPT !.pc = "fetch", !.key = Listed[name], !.name = name]]
    /\ forgotten' = forgotten \ {Listed[name]}
    /\ UNCHANGED <<file, saved, pending, requests, failures, crashes, reached, kept,
                   undeleted>>

\* ssh_named_password: that of the environment, if it still is for the key.
NamedPassword(name, key) ==
    IF name # None /\ Listed[name] = key THEN named[name] ELSE None

\* ssh_vault_get, in turn: of a password not tried yet, the environment's, and
\* the saved one.
Candidates(name, key) == <<pending[key], NamedPassword(name, key), saved[key]>>
FirstOf(secrets) ==
    LET there == SelectSeq(secrets, LAMBDA p : p # None)
    IN IF there = <<>> THEN None ELSE Head(there)

\* One that cannot be read is passed over.
Fetch ==
    LET key == Mine("tool")
        secrets == Candidates(actor["tool"].name, key)
    IN
    /\ At("tool", "fetch")
    /\ \E read \in {secrets} \union {[secrets EXCEPT ![i] = None] : i \in DOMAIN secrets} :
        /\ actor' = [actor EXCEPT !["tool"].pc = "login", !["tool"].password = FirstOf(read)]
        /\ failures' = failures + (IF read = secrets THEN 0 ELSE 1)
    /\ failures' <= MaxFailures
    /\ kept' = [kept EXCEPT ![key] = None]
    /\ UNCHANGED <<file, saved, pending, reached, forgotten, undeleted>> /\ KeepBounds

\* Without a password a key file may do; with a good one the host may be down.
Login(ok) ==
    /\ At("tool", "login")
    /\ ok => actor["tool"].password # Bad
    /\ reached' = IF ok THEN reached \union {Mine("tool")} ELSE reached
    /\ Go("tool", IF ~ok THEN "check"
                  ELSE IF actor["tool"].password # None THEN "save" ELSE "record")
    /\ UNCHANGED <<file, saved, pending, failures, kept, forgotten, undeleted>> /\ KeepBounds

SavePassword ==
    /\ At("tool", "save") /\ Go("tool", "record")
    /\ \/ /\ saved' = [saved EXCEPT ![Mine("tool")] = actor["tool"].password]
          /\ UNCHANGED failures
       \/ /\ failures < MaxFailures /\ failures' = failures + 1
          /\ \E p \in FailedPut(saved[Mine("tool")]) :
                saved' = [saved EXCEPT ![Mine("tool")] = p]
    /\ UNCHANGED <<file, pending, reached, kept, forgotten, undeleted>> /\ KeepBounds

Record ==
    /\ At("tool", "record")
    /\ actor' = [actor EXCEPT !["tool"].pc = "recordWrite",
                              !["tool"].root = Recorded(Root, Mine("tool"))]
    /\ UNCHANGED <<file, failures>> /\ KeepVault /\ KeepBounds

RecordWrite ==
    /\ At("tool", "recordWrite") /\ Write("tool", "drop", "drop")
    /\ KeepVault /\ KeepBounds

\* After a failed login what is pending goes only if the session has an
\* endpoint to fall back on.
Check ==
    /\ At("tool", "check")
    /\ IF HasVerified(Root) THEN Go("tool", "discard") ELSE Rest("tool")
    /\ UNCHANGED <<file, failures>> /\ KeepVault /\ KeepBounds

Discard == Undo("tool", "discard", "discardWrite", "drop")
DiscardWrite ==
    /\ At("tool", "discardWrite") /\ Write("tool", "drop", "drop")
    /\ KeepVault /\ KeepBounds

Drop ==
    /\ At("tool", "drop") /\ Rest("tool")
    /\ Deletes(Mine("tool"))
    /\ UNCHANGED <<file, saved, reached, kept, forgotten, undeleted>> /\ KeepBounds

-----------------------------------------------------------------------------
(***************************************************************************)
(* The process ends; a file or a password being written is cut off, which  *)
(* leaves a torn file, or none to read.                                    *)
(***************************************************************************)
Writing == {"stage", "undoWrite", "forget", "recordWrite", "discardWrite"}
Crash ==
    /\ crashes < MaxCrashes /\ crashes' = crashes + 1
    /\ actor' = [a \in Actors |-> Idle]
    /\ file' \in {file} \union
            (IF \E a \in Actors : actor[a].pc \in Writing THEN {Torn} ELSE {})
    /\ \E cut \in SUBSET Actors :
        /\ pending' = [k \in Keys |-> IF \E a \in cut : At(a, "put") /\ Mine(a) = k
                                            /\ actor[a].password # None
                                     THEN None ELSE pending[k]]
        /\ saved' = [k \in Keys |-> IF "tool" \in cut /\ At("tool", "save")
                                          /\ Mine("tool") = k
                                   THEN None ELSE saved[k]]
        /\ kept' = [k \in Keys |-> IF \E a \in cut : At(a, "put") /\ Mine(a) = k
                                            /\ actor[a].password # None
                                  THEN None ELSE kept[k]]
        /\ named' = [n \in Environments |-> IF /\ "api" \in cut /\ At("api", "putNamed")
                                               /\ actor["api"].password # None
                                               /\ actor["api"].name = n
                                            THEN None ELSE named[n]]
    /\ \/ UNCHANGED <<environments, promised>>
       \/ /\ actor["api"].pc \in {"define", "undefine"}
          /\ environments' = Torn /\ promised' = NoNames
    /\ UNCHANGED <<requests, logins, failures, reached, forgotten, undeleted, revoked>>

Endpoint ==
    \/ \E a \in Actors :
        \/ \E key \in Keys, password \in Passwords \union {None} : Prompt(a, key, password)
        \/ Stage(a) \/ DropOld(a) \/ Put(a) \/ UndoStage(a) \/ UndoWrite(a) \/ End(a)
    \/ \E key \in Keys : Forget(key) \/ Choose(key)
    \/ \E name \in Environments : ChooseNamed(name)
    \/ \E ok \in BOOLEAN : Login(ok)
    \/ ForgetWrite \/ Erase \/ Clear \/ ClearRemove
    \/ Fetch \/ SavePassword \/ Record \/ RecordWrite \/ Check
    \/ Discard \/ DiscardWrite \/ Drop

Next ==
    \/ Endpoint /\ UNCHANGED namedVars
    \/ Environment
    \/ Crash

Spec == Init /\ [][Next]_profilesVars
-----------------------------------------------------------------------------
WellFormed(root) ==
    /\ \A i, j \in DOMAIN root.profiles :
        i # j => root.profiles[i].key # root.profiles[j].key
    /\ root.lastKey # None => Verified(root, root.lastKey)
    /\ root.pendingKey # None => \E p \in ProfilesOf(root, root.pendingKey) : p.pending

\* However the two interleave, the last endpoint used is one that was logged in
\* to, and the pending one is there.
FileIsWellFormed == file # Torn => WellFormed(file)

\* An endpoint is called verified, and its password kept under its own name,
\* only after a login: what a user mistyped replaces nothing that worked.
SavedWasAccepted ==
    /\ \A k \in Keys : saved[k] \in {None, Good}
    /\ file # Torn => \A p \in ToSet(file.profiles) : p.verified => p.key \in reached

\* The password of a prompt that was accepted is there until it is fetched, or
\* another prompt or a request does away with it; one that arrives while the
\* tool is using the endpoint is excepted.
AcceptedIsKept == \A k \in Keys : kept[k] # None => pending[k] = kept[k]

\* No password is left of an endpoint that was forgotten while it was not in
\* use, until it is named again; except one for each deletion that failed
\* (ssh_session_profile_forget, ssh_session_profiles_clear).
ForgottenIsGone ==
    /\ Secrets(forgotten) \subseteq undeleted
    /\ Cardinality(undeleted) <= failures

\* An environment a request was told is saved has its endpoint and its password
\* until the next request for it, or a write that is cut off; of one it was told
\* is deleted no password is left for whoever takes the name again.
EnvironmentsAreKept ==
    /\ \A n \in Environments : promised[n] # None =>
          Listed[n] = promised[n].key /\ named[n] = promised[n].password
    /\ \A n \in revoked : named[n] = None

ProfilesSafe ==
    /\ FileIsWellFormed /\ SavedWasAccepted /\ AcceptedIsKept /\ ForgottenIsGone
    /\ EnvironmentsAreKept
=============================================================================
