------------------------------ MODULE Plugins ------------------------------
(***************************************************************************)
(* Skills, the plugins built from them, and the tools bound to those:      *)
(* action/skill.c, plugin_runtime/registry.c, the generator of plugins     *)
(* (plugin_intelligence/generator.c) and the requests and tools that use   *)
(* them.  Each registry has a lock of its own and a file, rewritten in     *)
(* place from a copy taken under the lock.  API requests take turns (the   *)
(* actor Api), lanes run beside them.                                      *)
(*                                                                         *)
(* An actor has a list of steps still to do; a step is what runs under one *)
(* lock, or one use of a file.  A body stands for all of a skill but its   *)
(* name: description, kind, text, capabilities.  A version 1.0.k is k.     *)
(* Nothing enables or disables a plugin, and nothing reads the script file *)
(* of a generated one but its smoke test, whose outcome changes nothing.   *)
(***************************************************************************)
EXTENDS Integers, FiniteSets, Sequences, SequencesExt

CONSTANTS
    Lanes, Api,
    Names, Demo,    \* of skills and plugins; the built-in skill, one of them
    Bodies, DemoBody, Python,   \* Python: the bodies run from a temporary file
    Tools,          \* names planners ask for that are no tools at first
    None, Torn,
    MaxChanges, MaxFailures, MaxCrashes     \* bounds

VARIABLES
    skills, skillFile,      \* name |-> body or None
    plugins, pluginFile,    \* sequences of [name, version]
    bound, toolFile,        \* tool |-> name of its skill, or None
    folder,                 \* name |-> body of a file a user has put there, or None
    actor, pyFile,
    changes, failures, crashes,
    loose,      \* ghost: names of skills that changed and were not copied since
    amiss,      \* ghost: files a write of which failed or met another
    excused,    \* ghost: names deleted, or registered when a write went amiss
    strayed     \* ghost: names whose version was read where the plugin was no more

pluginsVars == <<skills, skillFile, plugins, pluginFile, bound, toolFile, folder, actor,
                 pyFile, changes, failures, crashes, loose, amiss, excused, strayed>>

Actors == Lanes \union {Api}
Nothing == [n \in Names |-> None]
Unbound == [t \in Tools |-> None]
InFolder == {n \in Names : folder[n] # None}
Idle == [todo |-> <<>>, name |-> None, body |-> None, tool |-> None, version |-> 0,
         place |-> 0, moved |-> FALSE, left |-> {}, copy |-> None, ran |-> None, shared |-> FALSE]

\* The program starts with plugins of an earlier life, or none.
Init ==
    /\ \E known \in SUBSET Names : \E order \in SetToSeqs(known) :
        /\ plugins = [i \in DOMAIN order |-> [name |-> order[i], version |-> 0]]
        /\ skillFile = [n \in Names |-> IF n \in known THEN DemoBody ELSE None]
    /\ pluginFile = plugins
    /\ skills = [skillFile EXCEPT ![Demo] = DemoBody]
    /\ bound = Unbound /\ toolFile = Unbound
    /\ folder = Nothing /\ actor = [a \in Actors |-> Idle] /\ pyFile = None
    /\ changes = 0 /\ failures = 0 /\ crashes = 0
    /\ loose = {Demo} /\ amiss = {} /\ excused = {} /\ strayed = {}

-----------------------------------------------------------------------------
\* What an actor still has to do

At(a, s) == actor[a].todo # <<>> /\ Head(actor[a].todo) = s
Rest(a) == [actor[a] EXCEPT !.todo = Tail(@)]
Set(a, next) == actor' = [actor EXCEPT ![a] = next]
Step(a) == Set(a, Rest(a))
Stop(a) == Set(a, Idle)

KeepSkills == UNCHANGED <<skills, loose>>
KeepFiles == UNCHANGED <<skillFile, pluginFile, toolFile, failures, amiss>>
Others == UNCHANGED <<folder, pyFile, changes, crashes, strayed>>

Begin(a, todo, name, body) ==
    /\ actor[a] = Idle /\ changes < MaxChanges /\ changes' = changes + 1
    /\ Set(a, [Idle EXCEPT !.todo = todo, !.name = name, !.body = body,
                           !.left = IF Head(todo) = "refresh" THEN InFolder ELSE {}])
    /\ KeepSkills /\ KeepFiles
    /\ UNCHANGED <<plugins, bound, folder, pyFile, crashes, excused, strayed>>

\* The steps of the operations.
Save == <<"copy skills", "save skills">>
Delete == <<"drop">> \o Save
Install == <<"put">> \o Save
SaveBoth == <<"copy plugins", "save plugins">> \o Save
PublishPlugin == <<"add", "publish">> \o SaveBoth
DeletePlugin == <<"withdraw", "discard">> \o SaveBoth
Generate == <<"seek", "version", "register", "put">> \o SaveBoth
GenerateTool == Generate \o <<"bind", "read tools", "save tools">>
Manage == <<"refresh", "check">> \o Save
Run == <<"find", "write", "execute", "remove">>

\* h_skills_publish, h_skill_install and the last poll of a download; the
\* name and the kind are valid.
StartInstall(name, body) == Begin(Api, Install, name, body)
\* h_skill_delete
StartDelete(name) == Begin(Api, Delete, name, None)
\* h_plugins_publish, h_plugin_market_delete
StartPublish(name, body) == Begin(Api, PublishPlugin, name, body)
StartWithdraw(name) == Begin(Api, DeletePlugin, name, None)
\* h_plugin_generate: the model names the plugin, and its script passes review.
StartGenerate(name, body) == Begin(Api, Generate, name, body)
\* h_skills, h_skills_reload, and a planner that lists the skills: the folder
\* is listed, then each file in it read and registered.
StartRefresh(a) == Begin(a, <<"refresh">>, None, None)
\* skill_manage_exec
StartManage(l, name) == Begin(l, Manage, name, None)
\* skill_exec, h_skill_run
StartRun(a, name) == Begin(a, Run, name, None)

\* reasoning_run_ex: a planner asks for a tool that does not exist.
StartGenerateTool(l, tool, name, body) ==
    /\ bound[tool] = None
    /\ actor[l] = Idle /\ changes < MaxChanges /\ changes' = changes + 1
    /\ Set(l, [Idle EXCEPT !.todo = GenerateTool, !.name = name, !.body = body,
                           !.tool = tool])
    /\ KeepSkills /\ KeepFiles
    /\ UNCHANGED <<plugins, bound, folder, pyFile, crashes, excused, strayed>>

-----------------------------------------------------------------------------
\* The registry of skills

\* skill_register_ex that may replace.
Put(a) ==
    /\ At(a, "put") /\ Step(a)
    /\ skills' = [skills EXCEPT ![actor[a].name] = actor[a].body]
    /\ loose' = loose \union {actor[a].name}
    /\ KeepFiles /\ Others /\ UNCHANGED <<plugins, bound, excused>>

\* skill_register, as h_plugins_publish calls it: not over another.
Add(a) ==
    LET new == skills[actor[a].name] = None IN
    /\ At(a, "add") /\ Step(a)
    /\ skills' = IF new THEN [skills EXCEPT ![actor[a].name] = actor[a].body] ELSE skills
    /\ loose' = IF new THEN loose \union {actor[a].name} ELSE loose
    /\ KeepFiles /\ Others /\ UNCHANGED <<plugins, bound, excused>>

\* skill_unregister: a request for a skill that is not there ends; with a
\* plugin it need not be there.
Drop(a) ==
    LET name == actor[a].name IN
    /\ At(a, "drop") \/ At(a, "discard")
    /\ IF skills[name] = None /\ At(a, "drop") THEN Stop(a) ELSE Step(a)
    /\ skills' = [skills EXCEPT ![name] = None]
    /\ loose' = loose \union {name} /\ excused' = excused \union {name}
    /\ KeepFiles /\ Others /\ UNCHANGED <<plugins, bound>>

\* skill_registry_load_local: one file after the other, in no order; what a
\* file says is registered over what there is.
Refresh(a) ==
    /\ At(a, "refresh")
    /\ \/ actor[a].left = {} /\ Step(a) /\ KeepSkills
       \/ \E n \in actor[a].left :
            /\ Set(a, [actor[a] EXCEPT !.left = @ \ {n}])
            /\ skills' = IF folder[n] = None THEN skills
                         ELSE [skills EXCEPT ![n] = folder[n]]
            /\ loose' = IF skills' = skills THEN loose ELSE loose \union {n}
    /\ KeepFiles /\ Others /\ UNCHANGED <<plugins, bound, excused>>

\* The skill skill_manage was asked for is not there.
Check(a) ==
    /\ At(a, "check")
    /\ IF skills[actor[a].name] = None THEN Stop(a) ELSE Step(a)
    /\ KeepSkills /\ KeepFiles /\ Others /\ UNCHANGED <<plugins, bound, excused>>

\* skill_registry_persist, under the lock
CopySkills(a) ==
    /\ At(a, "copy skills")
    /\ Set(a, [Rest(a) EXCEPT !.copy = skills])
    /\ loose' = {}
    /\ KeepFiles /\ Others /\ UNCHANGED <<skills, plugins, bound, excused>>

-----------------------------------------------------------------------------
\* The files.  Two actors that write one file at a time may mix it up; a
\* write may fail, with the file cut off or never opened.

\* What becomes of a file when a writes content to it as its step s; now is
\* what a copy would be now.
Writes(a, s, file, content, now, was, becomes) ==
    LET meets == \E b \in Actors \ {a} : At(b, s) IN
    \/ /\ becomes = content
       /\ amiss' = IF meets THEN amiss \union {file}
                   ELSE IF content = now THEN amiss \ {file} ELSE amiss
       /\ UNCHANGED failures
    \/ /\ meets /\ becomes = Torn
       /\ amiss' = amiss \union {file} /\ UNCHANGED failures
    \/ /\ failures < MaxFailures /\ failures' = failures + 1
       /\ becomes \in {was, Torn} /\ amiss' = amiss \union {file}

\* Ends an actor's list if nothing is left in it.
Finish(a) == IF Len(actor[a].todo) = 1 THEN Stop(a)
             ELSE Set(a, [Rest(a) EXCEPT !.copy = None])

Registered == {n \in Names : skills[n] # None}

\* dump_file of the copy; only skill_manage looks at the result.
SaveSkills(a) ==
    /\ At(a, "save skills")
    /\ skillFile' \in {actor[a].copy, skillFile, Torn}
    /\ Writes(a, "save skills", "skills", actor[a].copy, skills, skillFile, skillFile')
    /\ excused' = IF "skills" \in amiss' THEN excused \union Registered ELSE excused
    /\ Finish(a) /\ KeepSkills /\ Others
    /\ UNCHANGED <<plugins, pluginFile, bound, toolFile>>

-----------------------------------------------------------------------------
\* The registry of plugins

Versions(name) == {i \in DOMAIN plugins : plugins[i].name = name}

\* plugin_registry_find: the one registered last.
LatestAt(name) == CHOOSE i \in Versions(name) : \A j \in Versions(name) : j <= i

\* "reject exact duplicate (same name+version)"
IsNew(name, version) ==
    \A i \in Versions(name) : plugins[i].version # version

\* plugin_generate_deps asks where the version before this one is.
Seek(a) ==
    LET name == actor[a].name
        there == Versions(name) # {}
    IN
    /\ At(a, "seek")
    /\ Set(a, [Rest(a) EXCEPT !.place = IF there THEN LatestAt(name) ELSE 0,
                             !.version = IF there THEN plugins[LatestAt(name)].version + 1
                                         ELSE 0])
    /\ KeepSkills /\ KeepFiles /\ Others /\ UNCHANGED <<plugins, bound, excused>>

(***************************************************************************)
(* It reads what is there, with no lock.  Once the array has moved that    *)
(* may be another plugin, or memory that was freed: any version comes of   *)
(* it, if the process survives.  One above those there can be stands for   *)
(* the others.                                                             *)
(***************************************************************************)
Version(a) ==
    LET me == actor[a] IN
    /\ At(a, "version")
    /\ \E v \in IF me.moved THEN 0 .. MaxChanges + 1 ELSE {me.version} :
        Set(a, [Rest(a) EXCEPT !.version = v, !.place = 0, !.moved = FALSE])
    /\ strayed' = IF me.moved THEN strayed \union {me.name} ELSE strayed
    /\ KeepSkills /\ KeepFiles
    /\ UNCHANGED <<plugins, bound, excused, folder, pyFile, changes, crashes>>

\* What becomes of the actors when a goes on as next and the plugins of places
\* are no more where they were.
Moves(a, next, places) ==
    actor' = [b \in Actors |->
                IF b = a THEN next
                ELSE IF actor[b].place \in places THEN [actor[b] EXCEPT !.moved = TRUE]
                ELSE actor[b]]

\* plugin_registry_register: a full array is enlarged, which may move it.  A
\* publication that is refused ends there; what a generator cannot register it
\* does not save either, and goes on.
Register(a) ==
    LET me == actor[a] IN
    /\ At(a, "register") \/ At(a, "publish")
    /\ IF IsNew(me.name, me.version)
       THEN /\ plugins' = Append(plugins, [name |-> me.name, version |-> me.version])
            /\ \E places \in {{}, DOMAIN plugins} : Moves(a, Rest(a), places)
       ELSE /\ IF At(a, "publish") THEN Stop(a)
               ELSE Set(a, [me EXCEPT !.todo =
                        SelectSeq(Tail(@), LAMBDA s : s \notin {"copy plugins", "save plugins"})])
            /\ UNCHANGED plugins
    /\ KeepSkills /\ KeepFiles /\ Others /\ UNCHANGED <<bound, excused>>

\* plugin_registry_unregister: all versions of a name; those behind move up.
Withdraw(a) ==
    LET name == actor[a].name
        behind == {i \in DOMAIN plugins : \E j \in Versions(name) : j <= i}
    IN
    /\ At(a, "withdraw")
    /\ IF Versions(name) = {} THEN Stop(a) ELSE Moves(a, Rest(a), behind)
    /\ plugins' = SelectSeq(plugins, LAMBDA p : p.name # name)
    /\ excused' = excused \union {name}
    /\ KeepSkills /\ KeepFiles /\ Others /\ UNCHANGED bound

\* plugin_registry_persist
CopyPlugins(a) ==
    /\ At(a, "copy plugins")
    /\ Set(a, [Rest(a) EXCEPT !.copy = plugins])
    /\ KeepSkills /\ KeepFiles /\ Others /\ UNCHANGED <<plugins, bound, excused>>

SavePlugins(a) ==
    /\ At(a, "save plugins")
    /\ pluginFile' \in {actor[a].copy, pluginFile, Torn}
    /\ Writes(a, "save plugins", "plugins", actor[a].copy, plugins, pluginFile, pluginFile')
    /\ Finish(a) /\ KeepSkills /\ Others
    /\ UNCHANGED <<plugins, skillFile, bound, toolFile, excused>>

-----------------------------------------------------------------------------
\* Tools bound to generated skills

\* tool_register_generated: not without the skill; a tool of that name that
\* is there by now stays.
Bind(a) ==
    LET me == actor[a] IN
    /\ At(a, "bind")
    /\ IF skills[me.name] = None THEN Stop(a) /\ UNCHANGED bound
       ELSE /\ Step(a)
            /\ bound' = IF bound[me.tool] # None THEN bound
                        ELSE [bound EXCEPT ![me.tool] = me.name]
    /\ KeepSkills /\ KeepFiles /\ Others /\ UNCHANGED <<plugins, excused>>

\* tool_generated_save_mapping reads the file and writes it with the binding.
ReadTools(a) ==
    LET old == IF toolFile = Torn THEN Unbound ELSE toolFile IN
    /\ At(a, "read tools")
    /\ Set(a, [Rest(a) EXCEPT !.copy = [old EXCEPT ![actor[a].tool] = actor[a].name]])
    /\ KeepSkills /\ KeepFiles /\ Others /\ UNCHANGED <<plugins, bound, excused>>

SaveTools(a) ==
    /\ At(a, "save tools")
    /\ toolFile' \in {actor[a].copy, toolFile, Torn}
    /\ Writes(a, "save tools", "tools", actor[a].copy, bound, toolFile, toolFile')
    /\ Finish(a) /\ KeepSkills /\ Others
    /\ UNCHANGED <<plugins, pluginFile, skillFile, bound, excused>>

-----------------------------------------------------------------------------
\* skill_execute.  A version stays valid when it is replaced or removed.

KeepRegistries == KeepSkills /\ KeepFiles /\ UNCHANGED <<plugins, bound, excused>>
Running(b) == \E s \in {"execute", "remove"} : At(b, s) /\ actor[b].body \in Python

Find(a) ==
    LET body == skills[actor[a].name] IN
    /\ At(a, "find")
    /\ IF body = None THEN Stop(a) ELSE Set(a, [Rest(a) EXCEPT !.body = body])
    /\ KeepRegistries /\ Others

\* The source of a python skill goes to a file with one name for all runs in
\* a workspace.
WriteSource(a) ==
    /\ At(a, "write")
    /\ IF actor[a].body \in Python
       THEN /\ pyFile' = actor[a].body
            /\ actor' = [b \in Actors |->
                    IF b = a THEN [Rest(a) EXCEPT !.shared = \E c \in Actors : Running(c)]
                    ELSE IF Running(b) THEN [actor[b] EXCEPT !.shared = TRUE]
                    ELSE actor[b]]
       ELSE Step(a) /\ UNCHANGED pyFile
    /\ KeepRegistries /\ UNCHANGED <<folder, changes, crashes, strayed>>

\* What is executed.
Source(a) == IF actor[a].body \in Python THEN pyFile ELSE actor[a].body

\* Unless its capabilities (caps_allow) or the sandbox (sandbox_forbidden) refuse it.
Execute(a, refused) ==
    /\ At(a, "execute")
    /\ Set(a, [Rest(a) EXCEPT !.ran = IF refused THEN None ELSE Source(a)])
    /\ KeepRegistries /\ Others

RemoveSource(a) ==
    /\ At(a, "remove") /\ Stop(a)
    /\ pyFile' = IF actor[a].body \in Python THEN None ELSE pyFile
    /\ KeepRegistries /\ UNCHANGED <<folder, changes, crashes, strayed>>

-----------------------------------------------------------------------------
\* A user puts a skill into the folder, or removes it.
Edit(name, body) ==
    /\ changes < MaxChanges /\ changes' = changes + 1
    /\ folder' = [folder EXCEPT ![name] = body]
    /\ KeepRegistries /\ UNCHANGED <<actor, pyFile, crashes, strayed>>

\* skill_registry_load: nothing, of a file that cannot be parsed.
Loaded(file) == IF file = Torn THEN Nothing ELSE file

\* plugin_registry_load
LoadedPlugins(file) == IF file = Torn THEN <<>> ELSE file

\* runtime_init binds again what has its skill.
Rebound(file, known) ==
    IF file = Torn THEN Unbound
    ELSE [t \in Tools |->
            IF file[t] = None THEN None ELSE IF known[file[t]] = None THEN None ELSE file[t]]

\* runtime_init: the built-in skill, then the file, which adds what is not
\* there, then the folder, which replaces.
Restarted(file) ==
    [n \in Names |-> IF folder[n] # None THEN folder[n]
                     ELSE IF n = Demo THEN DemoBody ELSE Loaded(file)[n]]

Crash ==
    /\ crashes < MaxCrashes /\ crashes' = crashes + 1
    /\ \E torn \in SUBSET {"skills", "plugins", "tools"} :
        /\ "skills" \in torn => \E a \in Actors : At(a, "save skills")
        /\ "plugins" \in torn => \E a \in Actors : At(a, "save plugins")
        /\ "tools" \in torn => \E a \in Actors : At(a, "save tools")
        /\ skillFile' = IF "skills" \in torn THEN Torn ELSE skillFile
        /\ pluginFile' = IF "plugins" \in torn THEN Torn ELSE pluginFile
        /\ toolFile' = IF "tools" \in torn THEN Torn ELSE toolFile
        /\ excused' = IF "skills" \in torn THEN Names ELSE excused
    /\ skills' = Restarted(skillFile')
    /\ plugins' = LoadedPlugins(pluginFile')
    /\ bound' = Rebound(toolFile', skills')
    /\ actor' = [a \in Actors |-> Idle]
    /\ loose' = {n \in Names : skills'[n] # Loaded(skillFile')[n]}
    /\ amiss' = {f \in {"plugins"} : pluginFile' = Torn}
                \union {f \in {"skills"} : skillFile' = Torn}
    /\ UNCHANGED <<folder, pyFile, changes, failures, strayed>>

Next ==
    \/ \E name \in Names :
        \/ StartDelete(name) \/ StartWithdraw(name)
        \/ \E a \in Actors : StartRun(a, name)
        \/ \E l \in Lanes : StartManage(l, name)
        \/ \E body \in Bodies :
            \/ StartInstall(name, body) \/ StartPublish(name, body)
            \/ StartGenerate(name, body)
            \/ \E l \in Lanes, tool \in Tools : StartGenerateTool(l, tool, name, body)
        \/ \E body \in Bodies \union {None} : Edit(name, body)
    \/ \E a \in Actors :
        \/ StartRefresh(a)
        \/ Put(a) \/ Add(a) \/ Drop(a) \/ Refresh(a) \/ Check(a)
        \/ CopySkills(a) \/ SaveSkills(a) \/ CopyPlugins(a) \/ SavePlugins(a)
        \/ Seek(a) \/ Version(a) \/ Register(a) \/ Withdraw(a)
        \/ Bind(a) \/ ReadTools(a) \/ SaveTools(a)
        \/ Find(a) \/ WriteSource(a) \/ RemoveSource(a)
        \/ \E refused \in BOOLEAN : Execute(a, refused)
    \/ Crash

Spec == Init /\ [][Next]_pluginsVars
-----------------------------------------------------------------------------
Saving(steps) == \E a \in Actors : \E i \in DOMAIN actor[a].todo : actor[a].todo[i] \in steps

\* "persist registries so the capability survives a restart" (generator.c):
\* once nobody is about to save, a restart has the skills there are, those
\* that were deleted stay away, and so it is with the plugins.  Not so of the
\* built-in skill, of skills from the folder, of one a refused publication
\* has left behind, and while a write has gone amiss.
RestartKeepsSkills ==
    ("skills" \notin amiss /\ ~Saving({"copy skills", "save skills"})) =>
        \A n \in Names \ (loose \union {Demo}) :
            folder[n] = None => Restarted(skillFile)[n] = skills[n]

RestartKeepsPlugins ==
    ("plugins" \notin amiss /\ ~Saving({"copy plugins", "save plugins"})) =>
        pluginFile = plugins

\* "a regenerated plugin gets its patch version bumped": the versions of a
\* name follow one another, whoever generates them; until it is withdrawn, or
\* the array has moved under a generator that was reading the version before
\* (plugin_registry_find).
VersionsFollow ==
    \A i, j \in DOMAIN plugins :
        /\ plugins[i].name \notin excused \union strayed
        /\ i < j /\ plugins[i].name = plugins[j].name
        /\ \A k \in i + 1 .. j - 1 : plugins[k].name # plugins[i].name
        => plugins[j].version = plugins[i].version + 1

\* A tool that is bound at the next start finds its skill there: the skill was
\* saved before the binding was, and is not gone since.
BoundSkillIsSaved ==
    toolFile # Torn =>
        \A t \in Tools : toolFile[t] # None =>
            toolFile[t] \in excused \/ Restarted(skillFile)[toolFile[t]] # None

\* A run executes the version it has found, although it was replaced or
\* deleted meanwhile; except python skills that run at one time.
RunsWhatItFound ==
    \A a \in Actors : actor[a].ran # None /\ ~actor[a].shared => actor[a].ran = actor[a].body

PluginsSafe ==
    /\ RestartKeepsSkills /\ RestartKeepsPlugins /\ VersionsFollow
    /\ BoundSkillIsSaved /\ RunsWhatItFound
=============================================================================
