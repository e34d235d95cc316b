------------------------------- MODULE Plugins -------------------------------
(***************************************************************************)
(* The plugin registry (src/plugins.cpp), its rows and the plugins.*        *)
(* methods (src/rpc/methods/plugins.cpp).  Install and Upgrade suspend      *)
(* twice, for the release and for its asset; every other request, and what  *)
(* follows the last suspension, runs on the io thread without a break.      *)
(*                                                                         *)
(* A file is what loading it can tell apart: whether it has an entry point, *)
(* whether its plugin.json is valid, and the slug in it.  Whether the Lua   *)
(* code of a plugin runs is a choice at every load.                         *)
(***************************************************************************)
EXTENDS Naturals

CONSTANTS
    LocalPaths,  \* the paths of plugins that users put there themselves
    ReleaseZip,  \* the path of the zip of the one GitHub repository
    NameSlug,    \* the slug that the file name of a path gives
    Contents,    \* what users put at a local path
    Release,     \* the content of the asset of every version
    Configs,
    Requests,    \* the install and upgrade requests in flight
    MaxId        \* bound on the ids of plugins

Paths == LocalPaths \cup {ReleaseZip}
Versions == DOMAIN Release
NoVersion == "local"
NoSlug == "none"
NoError == "none"
CoreSlug == "porla"
InvalidSlug == "?"
Absent == [kind |-> "absent", slug |-> NoSlug]

ASSUME PluginsAssumption ==
    /\ MaxId \in Nat /\ ReleaseZip \notin LocalPaths /\ NoVersion \notin Versions
    /\ \A c \in Contents \cup {Release[v] : v \in Versions} :
          c.kind \in {"absent", "noEntry", "badManifest", "plugin"}

VARIABLES
    files,  \* what is at each path
    reg,    \* rows, m_loads and m_plugins; an instance remembers what it was loaded from
    told,   \* what the plugin.* events say is loaded
    nextId,
    toLoad, \* the plugins that LoadAll has still to load
    req     \* the coroutine of each request

vars == <<files, reg, told, nextId, toLoad, req>>

-----------------------------------------------------------------------------
(* The registry, as functions of its state r and of the files f              *)

SlugOf(path, manifest) == IF manifest # NoSlug THEN manifest ELSE NameSlug[path]

IsValidSlug(slug) == slug # InvalidSlug

Manifest(r, i) == IF i \in DOMAIN r.loads THEN r.loads[i].manifest ELSE NoSlug

Slug(r, i) == SlugOf(r.rows[i].path, Manifest(r, i))

\* The plugins among ids, other than except, that have the slug; 0 is the core plugin.
SlugOwners(r, slug, except, ids) ==
    {i \in (DOMAIN r.rows \ {except}) \cap ids : Slug(r, i) = slug}
        \cup (IF slug = CoreSlug THEN {0} ELSE {})

Without(g, i) == [j \in DOMAIN g \ {i} |-> g[j]]

With(g, i, v) == [j \in DOMAIN g \cup {i} |-> IF j = i THEN v ELSE g[j]]

\* PluginSource::Load: a file or directory that is there has sources, which may be none.
HasSource(c) == c.kind # "absent"

\* PluginManifest::FromSource throws for a plugin.json it cannot use.
ManifestThrows(c) == c.kind = "badManifest"

\* The slug in plugin.json; an unreadable archive has none.
ManifestSlug(c) == IF c.kind = "plugin" THEN c.slug ELSE NoSlug

\* Lua::Plugin::Load: there is an entry point, and the chunk, the config and init run.
LuaLoads(c, i, bad) == c.kind # "noEntry" /\ i \notin bad

\* Load of plugin i; the Lua code of the plugins in bad throws.
Load(r, f, i, bad) ==
    LET row == r.rows[i]
        c == f[row.path]
        slug == SlugOf(row.path, ManifestSlug(c))
        readable == HasSource(c) /\ ~ManifestThrows(c)
        r1 == [r EXCEPT !.loads = With(@, i,
                 [manifest |-> ManifestSlug(c), slug |-> IF readable THEN slug ELSE NoSlug, error |-> "error"])]
        accepted == /\ readable /\ IsValidSlug(slug)
                    /\ SlugOwners(r1, slug, i, DOMAIN r.running) = {}
                    /\ LuaLoads(c, i, bad)
    IN  IF i \in DOMAIN r.running \/ i \notin DOMAIN r.rows THEN r
        ELSE IF accepted
        THEN [r1 EXCEPT !.loads[i].error = NoError,
                        !.running = With(@, i, [slug |-> slug, path |-> row.path, config |-> row.config])]
        ELSE r1

Unload(r, i) == [r EXCEPT !.running = Without(@, i)]

Reload(r, f, i, bad) == Load(Unload(r, i), f, i, bad)

\* The row is updated if it is still there; the plugin is reloaded.
UpdateRow(r, f, i, row, bad) ==
    LET rows == IF i \in DOMAIN r.rows THEN [r.rows EXCEPT ![i] = row] ELSE r.rows
    IN  Reload([r EXCEPT !.rows = rows], f, i, bad)

\* plugin.loaded and plugin.unloaded follow every change of m_plugins.
Becomes(r) == reg' = r /\ told' = DOMAIN r.running

InsertAndLoad(f, row, bad) ==
    /\ nextId <= MaxId
    /\ nextId' = nextId + 1
    /\ Becomes(Load([reg EXCEPT !.rows = With(@, nextId, row)], f, nextId, bad))

-----------------------------------------------------------------------------
(* The checks of the methods                                                  *)

FindByPath(path, except) == {i \in DOMAIN reg.rows \ {except} : reg.rows[i].path = path}

\* Mutant: the slug of another plugin is only refused while that plugin is loaded.
BugCheckPlugin(path, c, i) ==
    LET slug == SlugOf(path, ManifestSlug(c))
    IN  ~ManifestThrows(c) /\ IsValidSlug(slug) /\ SlugOwners(reg, slug, i, DOMAIN reg.running) = {}

\* plugin.json is valid if there is one, and the slug is valid and no other plugin's.
CheckPlugin(path, c, i) ==
    LET slug == SlugOf(path, ManifestSlug(c))
    IN  ~ManifestThrows(c) /\ IsValidSlug(slug) /\ SlugOwners(reg, slug, i, DOMAIN reg.rows) = {}

\* One plugin is loaded: its Lua code runs or throws.
RunsOrThrows == {{}, 1..MaxId}

-----------------------------------------------------------------------------
(* The requests that do not suspend                                           *)

AddPlugin(path, config, bad) ==
    /\ files[path] # Absent /\ FindByPath(path, 0) = {} /\ CheckPlugin(path, files[path], 0)
    /\ InsertAndLoad(files, [path |-> path, config |-> config, version |-> NoVersion], bad)
    /\ UNCHANGED <<files, req>>

\* The path is only checked when it is given; a given path may be the old one.
UpdatePlugin(i, path, config, bad) ==
    /\ i \in DOMAIN reg.rows
    /\ path # reg.rows[i].path => files[path] # Absent /\ FindByPath(path, i) = {}
    /\ CheckPlugin(path, files[path], i)
    /\ Becomes(UpdateRow(reg, files, i, [path |-> path, config |-> config, version |-> reg.rows[i].version], bad))
    /\ UNCHANGED <<files, nextId, req>>

ReloadPlugin(i, bad) ==
    /\ i \in DOMAIN reg.rows
    /\ Becomes(Reload(reg, files, i, bad))
    /\ UNCHANGED <<files, nextId, req>>

\* Mutant: the instance of a removed plugin goes on.
BugRemovePlugin(i) ==
    /\ i \in DOMAIN reg.rows
    /\ Becomes([reg EXCEPT !.rows = Without(@, i), !.loads = Without(@, i)])
    /\ UNCHANGED <<files, nextId, req>>

RemovePlugin(i) ==
    /\ i \in DOMAIN reg.rows
    /\ LET r == Unload(reg, i)
       IN  Becomes([r EXCEPT !.rows = Without(@, i), !.loads = Without(@, i)])
    /\ UNCHANGED <<files, nextId, req>>

-----------------------------------------------------------------------------
(* Install and Upgrade                                                        *)

Idle == [pc |-> "idle", id |-> 0, row |-> [path |-> ReleaseZip, config |-> NoVersion, version |-> NoVersion]]

Suspend(r, pc, i, row) == req' = [req EXCEPT ![r] = [pc |-> pc, id |-> i, row |-> row]]

Answer(r) == req' = [req EXCEPT ![r] = Idle]

\* The request for the release; the row that is written in the end is made from what
\* the request has here.
Install(r, version, config) ==
    /\ req[r].pc = "idle"
    /\ Suspend(r, "release", 0, [path |-> ReleaseZip, config |-> config, version |-> version])
    /\ UNCHANGED <<files, reg, told, nextId>>

Upgrade(r, i, version) ==
    /\ req[r].pc = "idle" /\ i \in DOMAIN reg.rows
    /\ reg.rows[i].version \notin {NoVersion, version}
    /\ Suspend(r, "release", i, [path |-> ReleaseZip, config |-> reg.rows[i].config, version |-> version])
    /\ UNCHANGED <<files, reg, told, nextId>>

\* The release is there and its zip is no other plugin's: the asset is fetched.
FetchAsset(r) ==
    /\ req[r].pc = "release" /\ FindByPath(ReleaseZip, req[r].id) = {}
    /\ Suspend(r, "asset", req[r].id, req[r].row)
    /\ UNCHANGED <<files, reg, told, nextId>>

\* A fetch fails, or the zip is another plugin's.
FetchFails(r) ==
    /\ req[r].pc # "idle"
    /\ Answer(r)
    /\ UNCHANGED <<files, reg, told, nextId>>

\* InstallDownload accepts the download, which has the name of the zip.
DownloadAccepted(r) ==
    LET c == Release[req[r].row.version]
    IN  HasSource(c) /\ c.kind # "noEntry" /\ CheckPlugin(ReleaseZip, c, req[r].id)

\* Mutant: the download is written over the zip before it is checked.
BugDownloadRefused(r) ==
    /\ req[r].pc = "asset" /\ ~DownloadAccepted(r)
    /\ files' = [files EXCEPT ![ReleaseZip] = Release[req[r].row.version]]
    /\ Answer(r)
    /\ UNCHANGED <<reg, told, nextId>>

\* The download is removed and nothing else changes.
DownloadRefused(r) ==
    /\ req[r].pc = "asset" /\ ~DownloadAccepted(r)
    /\ Answer(r)
    /\ UNCHANGED <<files, reg, told, nextId>>

\* The download replaces the zip, and the plugin is added or updated and reloaded.
FinishInstall(r, bad) ==
    LET row == req[r].row
        f == [files EXCEPT ![ReleaseZip] = Release[row.version]]
    IN  /\ req[r].pc = "asset" /\ req[r].id = 0 /\ DownloadAccepted(r)
        /\ files' = f
        /\ InsertAndLoad(f, row, bad)
        /\ Answer(r)

FinishUpgrade(r, bad) ==
    LET row == req[r].row
        f == [files EXCEPT ![ReleaseZip] = Release[row.version]]
    IN  /\ req[r].pc = "asset" /\ req[r].id # 0 /\ DownloadAccepted(r)
        /\ files' = f
        /\ Becomes(UpdateRow(reg, f, req[r].id, row, bad))
        /\ Answer(r)
        /\ UNCHANGED nextId

-----------------------------------------------------------------------------
(* What happens around the registry                                           *)

\* LoadAll, in the order of the ids; requests are served when it is done.
LoadNext(i, bad) ==
    /\ \A j \in toLoad : i <= j
    /\ Becomes(Load(reg, files, i, bad))
    /\ toLoad' = toLoad \ {i}
    /\ UNCHANGED <<files, nextId, req>>

\* A user writes, changes or deletes a local plugin.
EditFile(path, c) ==
    /\ path # ReleaseZip /\ files[path] # c
    /\ files' = [files EXCEPT ![path] = c]
    /\ UNCHANGED <<reg, told, nextId, toLoad, req>>

\* The process ends, its coroutines with it, and starts again.
Restart ==
    /\ Becomes([reg EXCEPT !.loads = <<>>, !.running = <<>>])
    /\ toLoad' = DOMAIN reg.rows
    /\ req' = [r \in Requests |-> Idle]
    /\ UNCHANGED <<files, nextId>>

\* Rows written by an earlier version: any local paths, with slugs that were not checked.
Init ==
    /\ files \in [Paths -> Contents] /\ files[ReleaseZip] = Absent
    /\ \E n \in 0..MaxId, config \in Configs :
       \E p \in [1..n -> LocalPaths] :
          /\ \A i, j \in 1..n : i # j => p[i] # p[j]
          /\ reg = [rows |-> [i \in 1..n |-> [path |-> p[i], config |-> config, version |-> NoVersion]],
                    loads |-> <<>>, running |-> <<>>]
          /\ nextId = n + 1 /\ toLoad = 1..n
    /\ told = {}
    /\ req = [r \in Requests |-> Idle]

\* What a request does, on the io thread.
Serve ==
    \/ \E path \in Paths, config \in Configs, bad \in RunsOrThrows : AddPlugin(path, config, bad)
    \/ \E i \in 1..MaxId, path \in Paths, config \in Configs, bad \in RunsOrThrows : UpdatePlugin(i, path, config, bad)
    \/ \E i \in 1..MaxId, bad \in RunsOrThrows : ReloadPlugin(i, bad)
    \/ \E i \in 1..MaxId : RemovePlugin(i)
    \/ \E r \in Requests, v \in Versions, config \in Configs : Install(r, v, config)
    \/ \E r \in Requests, i \in 1..MaxId, v \in Versions : Upgrade(r, i, v)
    \/ \E r \in Requests : FetchAsset(r) \/ FetchFails(r) \/ DownloadRefused(r)
    \/ \E r \in Requests, bad \in RunsOrThrows : FinishInstall(r, bad) \/ FinishUpgrade(r, bad)

Next ==
    \/ toLoad = {} /\ UNCHANGED toLoad /\ Serve
    \/ \E i \in toLoad, bad \in RunsOrThrows : LoadNext(i, bad)
    \/ \E path \in Paths, c \in Contents : EditFile(path, c)
    \/ Restart

Spec == Init /\ [][Next]_vars

-----------------------------------------------------------------------------
(* Properties                                                                 *)

\* The releases of the repository that are plugins have one name in their plugin.json, or none.
ReleasesKeepName ==
    \A v, w \in Versions :
        Release[v].kind = "plugin" /\ Release[w].kind = "plugin" => Release[v].slug = Release[w].slug

\* The shape of the registry (Plugins' members and its rows).
TypeOK ==
    /\ files \in [Paths -> Contents \cup {Release[v] : v \in Versions} \cup {Absent}]
    /\ DOMAIN reg.rows \subseteq 1..(nextId - 1) /\ nextId <= MaxId + 1 /\ toLoad \subseteq DOMAIN reg.rows
    /\ \A r \in Requests : req[r].pc \in {"idle", "release", "asset"}

\* Plugins::File and the x.<slug> methods find a plugin by its slug: of the plugins that
\* run, at most one has a slug and none has the slug of the core plugin, however the files
\* changed since they were loaded and whatever the order of the loads.
SlugUnique ==
    \A i, j \in DOMAIN reg.running :
        /\ reg.running[i].slug # CoreSlug
        /\ reg.running[i].slug = reg.running[j].slug => i = j
        /\ reg.loads[i].slug = reg.running[i].slug /\ Slug(reg, i) = reg.running[i].slug

\* plugins.add, update, install and upgrade refuse a path that another plugin uses; install
\* and upgrade suspend after that check, and only the slug is compared again.  It takes
\* ReleasesKeepName for that to be enough.
PathUnique ==
    \A i, j \in DOMAIN reg.rows : reg.rows[i].path = reg.rows[j].path => i = j

\* A plugin that runs is stored, runs the configuration and the path that are stored, has
\* no error and was announced by plugin.loaded; a stored plugin that does not run has the
\* error that plugins.get shows.
RunsWhatIsStored ==
    /\ told = DOMAIN reg.running
    /\ \A i \in DOMAIN reg.running :
          /\ i \in DOMAIN reg.rows
          /\ reg.running[i].config = reg.rows[i].config /\ reg.running[i].path = reg.rows[i].path
    /\ \A i \in DOMAIN reg.rows \ toLoad : reg.loads[i].error = NoError <=> i \in DOMAIN reg.running

\* "a failed or refused download never touches an installed zip" (WriteDownload) and "a
\* refused slug leaves the old version installed and loaded" (Upgrade): the zip only
\* changes together with the row that has its path, which then has its version.
ZipChangesWithRow ==
    [][files'[ReleaseZip] # files[ReleaseZip] =>
          \A i \in DOMAIN reg'.rows : reg'.rows[i].path = ReleaseZip => Release[reg'.rows[i].version] = files'[ReleaseZip]]_vars

\* The registry has one plugin for a slug and one for a path.
PluginsDistinct == TypeOK /\ SlugUnique /\ PathUnique
=============================================================================
