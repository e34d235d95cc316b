------------------------------- MODULE Records -------------------------------
(***************************************************************************)
(* What the program stores besides torrents: sessions, presets and          *)
(* key-value pairs (src/sessions/sessions.cpp, src/presets.cpp,             *)
(* src/keyvalue.cpp, their models and methods), the transactions they use   *)
(* (src/data/transaction.cpp), the migrations of the database               *)
(* (src/data/migrate.cpp) and the start of the program (src/main.cpp).      *)
(*                                                                         *)
(* A handler runs on the io thread without a break, but each of its         *)
(* statements, and its commit, may fail, and the process may die between    *)
(* any two of them.  Of a row the model keeps its name, its default flag    *)
(* and the session it refers to.  A subscriber that reads again what an     *)
(* event names stands for the plugins that follow these records.            *)
(***************************************************************************)
EXTENDS Naturals, FiniteSets, Sequences, SequencesExt

CONSTANTS
    RecordNames,   \* names of sessions and presets
    KvKeys,
    KvValues,
    TorrentIds,    \* torrents that users add
    Target,        \* the number of migrations
    SessionsAt,    \* the migration that creates the default session
    SeedAt,        \* the migration that makes ids AUTOINCREMENT
    MaxSessionId,  \* bound on the ids of sessions
    MaxPresetId,   \* bound on the ids of presets
    MaxHandlers,   \* bound on the handlers of a behaviour
    MaxQueued,     \* bound on the events that are queued when a handler starts
    MaxCrashes     \* bound on the crashes

ASSUME RecordsAssumption ==
    /\ {Target, SessionsAt, SeedAt} \subseteq Nat /\ 0 < SessionsAt /\ SessionsAt < SeedAt /\ SeedAt <= Target
    /\ {MaxSessionId, MaxPresetId, MaxHandlers, MaxQueued, MaxCrashes} \subseteq Nat
    /\ "default" \in RecordNames /\ "orphan" \notin TorrentIds /\ IsFiniteSet(KvKeys)

VARIABLES
    disk,         \* the committed database
    view,         \* the database as the io thread reads it
    work,         \* the handler that runs, or NoWork
    phase,        \* "down", "migrate", "load" or "serve"
    live,         \* m_sessions: id -> name and torrents that are tracked but not stored
    outstanding,  \* outstanding_sessions of Sessions::Load
    loading,      \* the sessions that load
    posted,       \* the events that wait for their delivery: what they are about
    mirror,       \* what the subscriber knows
    home,         \* history: the session that accepted a torrent
    handled,      \* the number of handlers so far
    crashes

recordVars == <<disk, view, work, phase, live, outstanding, loading, posted, mirror, home, handled, crashes>>

NoSession == 0
NoWork == [todo |-> <<>>, mode |-> "none", then |-> "nothing", id |-> 0, events |-> <<>>]
Nobody == [presets |-> <<>>, sessions |-> <<>>, kvs |-> <<>>]

Extend(f, i, v) == [j \in DOMAIN f \cup {i} |-> IF j = i THEN v ELSE f[j]]
Drop(f, S) == [j \in DOMAIN f \ S |-> f[j]]
Highest(S) == CHOOSE n \in S \cup {0} : \A m \in S \cup {0} : m <= n

\* A handler runs, with or without a transaction.
Busy == work.mode # "none"

\* is_default is 0 or 1.
Defaults(rows) == {i \in DOMAIN rows : rows[i].default = 1}

-----------------------------------------------------------------------------
(* Statements                                                                 *)

SetRow(d, table, i, row) == [d EXCEPT ![table] = Extend(@, i, row)]

\* AddAutoIncrementIds: the sequence starts above every id that is referenced.
Seed(d) ==
    Highest(DOMAIN d.sessions
            \cup {d.torrents[h] : h \in DOMAIN d.torrents}
            \cup {d.presets[i].session : i \in DOMAIN d.presets})

\* A preset without its session, if that is gone.
Unlinked(row, gone) == IF gone THEN [row EXCEPT !.session = NoSession] ELSE row

\* One of the migrations; the ones that change none of this model's data are alike.
Migration(d, m) ==
    LET e == [d EXCEPT !.applied = @ \cup {m}]
    IN  IF m = SessionsAt THEN SetRow(e, "sessions", 1, [name |-> "default", default |-> 1])
        ELSE IF m = SeedAt
        THEN [e EXCEPT !.seq = Seed(d), !.presetSeq = Highest(DOMAIN d.presets),
                       !.presets = [i \in DOMAIN @ |-> Unlinked(@[i], @[i].session \notin DOMAIN d.sessions)]]
        ELSE e

ClearSessions(d, i) == [d EXCEPT !.presets = [p \in DOMAIN @ |-> Unlinked(@[p], @[p].session = i)]]

ClearDefaults(rows) == [i \in DOMAIN rows |-> [rows[i] EXCEPT !.default = 0]]

\* What a statement does to the database d.
Statement(d, s) ==
    CASE s.op = "migration"       -> Migration(d, s.id)
      [] s.op = "user_version"    -> [d EXCEPT !.version = s.id]
      [] s.op = "insertSession"   -> [SetRow(d, "sessions", d.seq + 1, s.row) EXCEPT !.seq = @ + 1]
      [] s.op = "clearSessions"   -> ClearSessions(d, s.id)
      [] s.op = "removeSession"   -> [d EXCEPT !.sessions = Drop(@, {s.id})]
      [] s.op = "noDefault"       -> [d EXCEPT !.sessions = ClearDefaults(@)]
      [] s.op = "setDefault"      -> [d EXCEPT !.sessions[s.id].default = 1]
      [] s.op = "updateSession"   -> [d EXCEPT !.sessions[s.id].name = s.row.name]
      [] s.op = "insertPreset"    -> [SetRow(d, "presets", d.presetSeq + 1, s.row) EXCEPT !.presetSeq = @ + 1]
      [] s.op = "removePreset"    -> [d EXCEPT !.presets = Drop(@, {s.id})]
      [] s.op = "noDefaultPreset" -> [d EXCEPT !.presets = ClearDefaults(@)]
      [] s.op = "updatePreset"    -> SetRow(d, "presets", s.id, s.row)
      [] s.op = "setKey"          -> [d EXCEPT !.kvs = Extend(@, s.id, s.row)]

\* The UNIQUE constraints and indices of the tables.
Unique(rows) ==
    /\ Cardinality({rows[i].name : i \in DOMAIN rows}) = Cardinality(DOMAIN rows)
    /\ Cardinality(Defaults(rows)) <= 1

Constraints(d) == Unique(d.sessions) /\ Unique(d.presets)

Do(op, id, row) == [op |-> op, id |-> id, row |-> row]

-----------------------------------------------------------------------------
(* Handlers                                                                   *)

\* Mutant: every statement commits by itself.
BugTransaction(todo, then, id, events) ==
    [todo |-> todo, mode |-> "auto", then |-> then, id |-> id, events |-> events]

\* The statements of a Data::Transaction, and what follows when it has committed.
Transaction(todo, then, id, events) ==
    [todo |-> todo, mode |-> "tx", then |-> then, id |-> id, events |-> events]

\* Statements outside of a transaction.
Autocommit(todo, then, id, events) ==
    [todo |-> todo, mode |-> "auto", then |-> then, id |-> id, events |-> events]

Starts(w) ==
    /\ phase = "serve" /\ ~Busy
    /\ handled < MaxHandlers /\ Len(posted) <= MaxQueued
    /\ handled' = handled + 1
    /\ work' = w
    /\ UNCHANGED <<disk, view, phase, outstanding, loading, mirror, home, crashes>>

\* Sessions::Add: one statement, and then LoadById and Session::Start.
SessionsAdd(n) ==
    Autocommit(<<Do("insertSession", 0, [name |-> n, default |-> 0])>>, "load", view.seq + 1,
               <<<<"sessions", view.seq + 1>>>>)

\* sessions.add.
AddSession(n) ==
    /\ view.seq < MaxSessionId
    /\ Starts(SessionsAdd(n))
    /\ UNCHANGED <<live, posted>>

\* Mutant: only stored torrents are counted.
BugMayRemove(i) == view.sessions[i].default = 0 /\ \A h \in DOMAIN view.torrents : view.torrents[h] # i

\* sessions.remove refuses the default session, and one with torrents, stored or tracked.
MayRemove(i) ==
    /\ view.sessions[i].default = 0
    /\ \A h \in DOMAIN view.torrents : view.torrents[h] # i
    /\ i \in DOMAIN live => live[i].tracked = {}

\* Sessions::Remove: the session is unloaded first, whatever becomes of its row.
RemoveSession(i) ==
    /\ i \in DOMAIN view.sessions /\ MayRemove(i)
    /\ live' = Drop(live, {i})
    /\ posted' = IF i \in DOMAIN live THEN Append(posted, <<"sessions", i>>) ELSE posted
    /\ Starts(Transaction(<<Do("clearSessions", i, {}), Do("removeSession", i, {})>>, "nothing", i,
              SetToSeq({<<"presets", p>> : p \in {q \in DOMAIN view.presets : view.presets[q].session = i}})
                  \o <<<<"sessions", i>>>>))

\* Sessions::Update: a session becomes the default one, but does not stop being it.
SessionsUpdate(i, n, default) ==
    LET new == default = 1 /\ view.sessions[i].default = 0
    IN  Transaction((IF new THEN <<Do("noDefault", 0, {}), Do("setDefault", i, {})>> ELSE <<>>)
                        \o <<Do("updateSession", i, [name |-> n])>>,
                    "rename", i, IF i \in DOMAIN live THEN <<<<"sessions", i>>>> ELSE <<>>)

\* sessions.update.
UpdateSession(i, n, default) ==
    /\ i \in DOMAIN view.sessions
    /\ Starts(SessionsUpdate(i, n, default))
    /\ UNCHANGED <<live, posted>>

\* Presets::Add.
AddPreset(n) ==
    /\ view.presetSeq < MaxPresetId
    /\ Starts(Autocommit(<<Do("insertPreset", 0, [name |-> n, default |-> 0, session |-> NoSession])>>,
                         "nothing", 0, <<<<"presets", view.presetSeq + 1>>>>))
    /\ UNCHANGED <<live, posted>>

\* Presets::Remove.
RemovePreset(i) ==
    /\ i \in DOMAIN view.presets
    /\ Starts(Autocommit(<<Do("removePreset", i, {})>>, "nothing", i, <<<<"presets", i>>>>))
    /\ UNCHANGED <<live, posted>>

\* Mutant: the preset that was the default is not announced.
BugAlsoUpdated(i, default) == <<>>

\* Presets::Update publishes the change of the old default as well.
AlsoUpdated(i, default) ==
    IF default = 1 THEN SetToSeq({<<"presets", p>> : p \in Defaults(view.presets) \ {i}}) ELSE <<>>

\* Presets::Update.
PresetsUpdate(i, row) ==
    Transaction((IF row.default = 1 /\ Defaults(view.presets) \ {i} # {} THEN <<Do("noDefaultPreset", 0, {})>> ELSE <<>>)
                    \o <<Do("updatePreset", i, row)>>,
                "nothing", i, <<<<"presets", i>>>> \o AlsoUpdated(i, row.default))

\* presets.update; the session is not looked up.
UpdatePreset(i, n, default, s) ==
    /\ i \in DOMAIN view.presets
    /\ Starts(PresetsUpdate(i, [name |-> n, default |-> default, session |-> s]))
    /\ UNCHANGED <<live, posted>>

\* KeyValue::Set, with the values of some keys.
SetKeys(values) ==
    /\ LET keys == SetToSeq(DOMAIN values)
       IN  Starts(Transaction([n \in DOMAIN keys |-> Do("setKey", keys[n], values[keys[n]])], "nothing", 0,
                              [n \in DOMAIN keys |-> <<"kvs", keys[n]>>]))
    /\ UNCHANGED <<live, posted>>

\* Statement::Execute of the next statement.  Outside of a transaction it is committed at once.
Execute ==
    /\ Busy /\ work.todo # <<>>
    /\ Constraints(Statement(view, Head(work.todo)))
    /\ view' = Statement(view, Head(work.todo))
    /\ disk' = IF work.mode = "tx" THEN disk ELSE view'
    /\ work' = [work EXCEPT !.todo = Tail(@)]
    /\ UNCHANGED <<phase, live, outstanding, loading, posted, mirror, home, handled, crashes>>

\* The statement, or the COMMIT, fails: the handler throws and the transaction is rolled back.
\* A migration that fails ends the process.
Fail ==
    /\ Busy /\ (work.mode = "tx" \/ work.todo # <<>>)
    /\ view' = disk
    /\ work' = NoWork
    /\ phase' = IF phase = "migrate" THEN "down" ELSE phase
    /\ UNCHANGED <<disk, live, outstanding, loading, posted, mirror, home, handled, crashes>>

\* What follows a commit: LoadById and Session::Start, or Rename and SetTimers.
Followed ==
    CASE work.then = "load" -> Extend(live, work.id, [name |-> view.sessions[work.id].name, tracked |-> {}])
      [] work.then = "rename" /\ work.id \in DOMAIN live -> [live EXCEPT ![work.id].name = view.sessions[work.id].name]
      [] OTHER -> live

\* Transaction::Commit, the rest of the handler, and its events.
Commit ==
    /\ phase = "serve" /\ Busy /\ work.todo = <<>>
    /\ disk' = view
    /\ live' = Followed
    /\ posted' = posted \o work.events
    /\ work' = NoWork
    /\ UNCHANGED <<view, phase, outstanding, loading, mirror, home, handled, crashes>>

\* Events::Deliver: the subscriber reads what the event names.
Reread(f, g, k) == IF k \in DOMAIN g THEN Extend(f, k, g[k]) ELSE Drop(f, {k})

DeliverRecord ==
    /\ ~Busy /\ posted # <<>>
    /\ LET about == Head(posted)[1]
           now == [presets |-> view.presets, kvs |-> view.kvs, sessions |-> [i \in DOMAIN live |-> live[i].name]]
       IN  mirror' = [mirror EXCEPT ![about] = Reread(@, now[about], Head(posted)[2])]
    /\ posted' = Tail(posted)
    /\ UNCHANGED <<disk, view, work, phase, live, outstanding, loading, home, handled, crashes>>

-----------------------------------------------------------------------------
(* Torrents                                                                   *)

\* Torrents::Prepare: the session that the request names, or its preset, or the default
\* preset, or the default session.
Chosen(s, p) ==
    LET wants(q) == IF q \in DOMAIN view.presets THEN view.presets[q].session ELSE NoSession
        preset == {wants(p)} \ {NoSession}
        default == {wants(q) : q \in Defaults(view.presets)} \ {NoSession}
    IN  IF s # NoSession THEN {s}
        ELSE IF preset # {} THEN preset
        ELSE IF default # {} THEN default
        ELSE Defaults(view.sessions)

\* torrents.add, with Prepare and Add: the torrent is tracked, and stored later.  A preset
\* that is not there, or a session that is not loaded, is refused.
AddTorrent(h, s, p) ==
    /\ phase = "serve" /\ ~Busy
    /\ home[h] = NoSession /\ h \notin DOMAIN view.torrents
    /\ p # 0 => p \in DOMAIN view.presets
    /\ \E t \in Chosen(s, p) \cap DOMAIN view.sessions \cap DOMAIN live :
          /\ live' = [live EXCEPT ![t].tracked = @ \cup {h}]
          /\ home' = [home EXCEPT ![h] = t]
    /\ UNCHANGED <<disk, view, work, phase, outstanding, loading, posted, mirror, handled, crashes>>

\* The alert of the torrent is handled (module TorrentSession): its row is inserted.
StoreTorrent(i, h) ==
    /\ phase = "serve" /\ ~Busy
    /\ i \in DOMAIN live /\ h \in live[i].tracked /\ h \notin DOMAIN view.torrents
    /\ view' = [view EXCEPT !.torrents = Extend(@, h, i)]
    /\ disk' = view'
    /\ UNCHANGED <<work, phase, live, outstanding, loading, posted, mirror, home, handled, crashes>>

-----------------------------------------------------------------------------
(* The process                                                                *)

\* Mutant: the version is behind the migrations, and they run again.
BugToMigrate(v) == [n \in 1..Target - v |-> Do("migration", v + n, {})]

\* Migrate, in one transaction: the migrations that are missing and the new version.
ToMigrate(v) == Append([n \in 1..Target - v |-> Do("migration", v + n, {})], Do("user_version", Target, {}))

\* The process starts.  A database from a newer program is refused.
Boot ==
    /\ phase = "down" /\ disk.version <= Target
    /\ phase' = "migrate"
    /\ view' = disk
    /\ work' = IF disk.version = Target THEN NoWork ELSE Transaction(ToMigrate(disk.version), "nothing", 0, <<>>)
    /\ UNCHANGED <<disk, live, outstanding, loading, posted, mirror, home, handled, crashes>>

\* The migrations commit, or there were none; Sessions::Load loads every session.
LoadSessions ==
    /\ phase = "migrate" /\ work.todo = <<>>
    /\ disk' = view
    /\ work' = NoWork
    /\ phase' = "load"
    /\ live' = [i \in DOMAIN view.sessions |->
                   [name |-> view.sessions[i].name, tracked |-> {h \in DOMAIN view.torrents : view.torrents[h] = i}]]
    /\ loading' = DOMAIN view.sessions
    /\ outstanding' = Cardinality(DOMAIN view.sessions)
    /\ UNCHANGED <<view, posted, mirror, home, handled, crashes>>

\* single_session_loaded.  The last one starts the plugins, which read the records, and then
\* the HTTP server.
SessionLoaded(i) ==
    /\ i \in loading
    /\ loading' = loading \ {i}
    /\ outstanding' = outstanding - 1
    /\ IF outstanding' > 0
       THEN UNCHANGED <<phase, mirror>>
       ELSE /\ phase' = "serve"
            /\ mirror' = [presets |-> view.presets, kvs |-> view.kvs, sessions |-> [j \in DOMAIN live |-> live[j].name]]
    /\ UNCHANGED <<disk, view, work, live, posted, home, handled, crashes>>

\* The process dies.  A torrent that was not stored is gone.
Crash ==
    /\ phase # "down" /\ crashes < MaxCrashes
    /\ crashes' = crashes + 1
    /\ phase' = "down" /\ view' = disk /\ work' = NoWork
    /\ live' = <<>> /\ loading' = {} /\ outstanding' = 0 /\ posted' = <<>> /\ mirror' = Nobody
    /\ home' = [h \in DOMAIN home |-> IF h \in DOMAIN disk.torrents THEN home[h] ELSE NoSession]
    /\ UNCHANGED <<disk, handled>>

\* Databases of version v: an old one may have a torrent and a preset of a session that was removed.
OldDatabases(v) ==
    {[version |-> v, applied |-> 1..v, kvs |-> <<>>,
      sessions |-> IF v < SessionsAt THEN <<>> ELSE Extend(<<>>, 1, [name |-> "default", default |-> 1]),
      seq |-> IF v < SeedAt THEN 0 ELSE 2,
      presets |-> IF v >= SessionsAt /\ orphans
                  THEN Extend(<<>>, 1, [name |-> "default", default |-> 1, session |-> IF v < SeedAt THEN 2 ELSE NoSession])
                  ELSE <<>>,
      presetSeq |-> IF v < SeedAt THEN 0 ELSE 1,
      torrents |-> IF v >= SessionsAt /\ orphans THEN Extend(<<>>, "orphan", 2) ELSE <<>>] : orphans \in BOOLEAN}

RecordsInit ==
    /\ disk \in UNION {OldDatabases(v) : v \in 0..Target + 1}
    /\ view = disk /\ work = NoWork /\ phase = "down"
    /\ live = <<>> /\ outstanding = 0 /\ loading = {} /\ posted = <<>> /\ mirror = Nobody
    /\ home = [h \in TorrentIds \cup {"orphan"} |-> IF h = "orphan" THEN 2 ELSE NoSession]
    /\ handled = 0 /\ crashes = 0

Handler ==
    \/ \E n \in RecordNames : AddSession(n) \/ AddPreset(n)
    \/ \E i \in 1..MaxSessionId : RemoveSession(i)
    \/ \E i \in 1..MaxSessionId, n \in RecordNames, default \in {0, 1} : UpdateSession(i, n, default)
    \/ \E i \in 1..MaxPresetId : RemovePreset(i)
    \/ \E i \in 1..MaxPresetId, n \in RecordNames, default \in {0, 1}, s \in 0..MaxSessionId :
          UpdatePreset(i, n, default, s)
    \/ \E keys \in SUBSET KvKeys : \E values \in [keys -> KvValues] : SetKeys(values)

RecordsNext ==
    \/ Handler \/ Execute \/ Fail \/ Commit \/ DeliverRecord
    \/ \E h \in TorrentIds, s \in 0..MaxSessionId, p \in 0..MaxPresetId : AddTorrent(h, s, p)
    \/ \E i \in DOMAIN live, h \in TorrentIds : StoreTorrent(i, h)
    \/ Boot \/ LoadSessions \/ Crash
    \/ \E i \in loading : SessionLoaded(i)

RecordsSpec == RecordsInit /\ [][RecordsNext]_recordVars

-----------------------------------------------------------------------------
(* Properties                                                                 *)

\* Migrate: whenever a migration fails or the process dies, the version on disk is the number
\* of the migrations that were applied.  The HTTP server starts with the newest version and,
\* as Sessions::Load says ("When it hits zero, the callback is invoked"), when every session
\* has loaded.
SchemaWhole ==
    /\ disk.applied = 1..disk.version
    /\ phase = "serve" => disk.version = Target /\ loading = {}

\* Sessions::Update, "moving the default and updating the row must fail together", and
\* sessions.remove: there is always exactly one default session, on disk too.
OneDefaultSession ==
    \A d \in {disk} \cup (IF Busy THEN {} ELSE {view}) :
        SessionsAt \in d.applied => Cardinality(Defaults(d.sessions)) = 1

\* A subscriber that reads what the events name knows all of it when they are delivered: each
\* change of presets, of key-value pairs and of loaded sessions is announced, also the ones
\* that follow from another (ClearSessions, a default that moves), whatever failed before.
MirrorAgrees ==
    phase = "serve" /\ ~Busy /\ posted = <<>> =>
        /\ mirror.presets = view.presets /\ mirror.kvs = view.kvs
        /\ mirror.sessions = [i \in DOMAIN live |-> view.sessions[i].name]

\* A torrent that a session accepted stays with a session that is there, until the process
\* dies before it is stored; and one whose session was removed long ago is not adopted by a
\* new session ("an id that was deleted but is still used by torrent rows or presets is never
\* handed out again").
TorrentsStayHome ==
    /\ \A h \in TorrentIds : home[h] # NoSession =>
          /\ home[h] \in DOMAIN disk.sessions
          /\ phase = "serve" => home[h] \in DOMAIN live /\ h \in live[home[h]].tracked
          /\ h \in DOMAIN disk.torrents => disk.torrents[h] = home[h]
    /\ "orphan" \in DOMAIN disk.torrents => 2 \notin DOMAIN disk.sessions
=============================================================================
