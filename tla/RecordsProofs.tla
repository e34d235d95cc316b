--------------------------- MODULE RecordsProofs ---------------------------
(***************************************************************************)
(* The stored records, for any names, keys, torrents and migrations: the    *)
(* schema is whole, there is one default session, torrents keep their       *)
(* session, and each change is announced to who follows the records,        *)
(* wherever a statement fails or the process dies.                          *)
(***************************************************************************)
EXTENDS Records, FiniteSetTheorems, SequenceTheorems, TLAPS

-----------------------------------------------------------------------------
(* Statements                                                                 *)

\* The shape of a database.
IsDb(d) ==
    d = [version |-> d.version, applied |-> d.applied, kvs |-> d.kvs, sessions |-> d.sessions, seq |-> d.seq,
         presets |-> d.presets, presetSeq |-> d.presetSeq, torrents |-> d.torrents]

\* The shape of the rows of sessions.
IsRows(rows) ==
    /\ rows = [i \in DOMAIN rows |-> rows[i]]
    /\ \A i \in DOMAIN rows : rows[i] = [name |-> rows[i].name, default |-> rows[i].default]

\* The tables of sessions and torrents and the schema are the same.
SameSessions(d, e) ==
    /\ e.version = d.version /\ e.applied = d.applied
    /\ e.sessions = d.sessions /\ e.seq = d.seq /\ e.torrents = d.torrents

\* What changes no session.
OtherOps == {"insertPreset", "removePreset", "noDefaultPreset", "updatePreset", "setKey", "clearSessions"}

LEMMA OtherStatements ==
    ASSUME NEW d, IsDb(d), NEW s, s.op \in OtherOps
    PROVE  IsDb(Statement(d, s)) /\ SameSessions(d, Statement(d, s))
<1> USE DEF SameSessions
<1>1. CASE s.op = "insertPreset"
  BY <1>1 DEF IsDb, Statement, SetRow
<1>2. CASE s.op = "removePreset"
  BY <1>2 DEF IsDb, Statement
<1>3. CASE s.op = "noDefaultPreset"
  BY <1>3 DEF IsDb, Statement
<1>4. CASE s.op = "updatePreset"
  BY <1>4 DEF IsDb, Statement, SetRow
<1>5. CASE s.op = "setKey"
  BY <1>5 DEF IsDb, Statement
<1>6. CASE s.op = "clearSessions"
  BY <1>6 DEF IsDb, Statement, ClearSessions
<1> QED BY <1>1, <1>2, <1>3, <1>4, <1>5, <1>6 DEF OtherOps

\* The statements on sessions; each leaves the rest alone.
LEMMA InsertSessionDoes ==
    ASSUME NEW d, IsDb(d), IsRows(d.sessions), NEW n, d.seq \in Nat, d.seq + 1 \notin DOMAIN d.sessions,
           NEW e, e = Statement(d, Do("insertSession", 0, [name |-> n, default |-> 0]))
    PROVE  /\ IsDb(e) /\ IsRows(e.sessions) /\ e.version = d.version /\ e.applied = d.applied /\ e.torrents = d.torrents
           /\ e.seq = d.seq + 1 /\ DOMAIN e.sessions = DOMAIN d.sessions \cup {d.seq + 1}
           /\ Defaults(e.sessions) = Defaults(d.sessions)
<1>1. e = [SetRow(d, "sessions", d.seq + 1, [name |-> n, default |-> 0]) EXCEPT !.seq = @ + 1]
  BY DEF Statement, Do
<1>2. /\ IsDb(e) /\ e.version = d.version /\ e.applied = d.applied /\ e.torrents = d.torrents
      /\ e.seq = d.seq + 1 /\ e.sessions = Extend(d.sessions, d.seq + 1, [name |-> n, default |-> 0])
  BY <1>1 DEF IsDb, SetRow
<1>3. IsRows(e.sessions) /\ DOMAIN e.sessions = DOMAIN d.sessions \cup {d.seq + 1}
  BY <1>2 DEF IsRows, Extend
<1>4. Defaults(e.sessions) = Defaults(d.sessions)
  BY <1>2 DEF Defaults, Extend
<1> QED BY <1>2, <1>3, <1>4

LEMMA RemoveSessionDoes ==
    ASSUME NEW d, IsDb(d), IsRows(d.sessions), NEW i,
           NEW e, e = Statement(d, Do("removeSession", i, {}))
    PROVE  /\ IsDb(e) /\ IsRows(e.sessions) /\ e.version = d.version /\ e.applied = d.applied /\ e.torrents = d.torrents
           /\ e.seq = d.seq /\ DOMAIN e.sessions = DOMAIN d.sessions \ {i}
           /\ Defaults(e.sessions) = Defaults(d.sessions) \ {i}
<1>1. e = [d EXCEPT !.sessions = Drop(@, {i})]
  BY DEF Statement, Do
<1>2. /\ IsDb(e) /\ e.version = d.version /\ e.applied = d.applied /\ e.torrents = d.torrents
      /\ e.seq = d.seq /\ e.sessions = Drop(d.sessions, {i})
  BY <1>1 DEF IsDb
<1>3. IsRows(e.sessions) /\ DOMAIN e.sessions = DOMAIN d.sessions \ {i}
  BY <1>2 DEF IsRows, Drop
<1>4. Defaults(e.sessions) = Defaults(d.sessions) \ {i}
  BY <1>2 DEF Defaults, Drop
<1> QED BY <1>2, <1>3, <1>4

LEMMA NoDefaultDoes ==
    ASSUME NEW d, IsDb(d), IsRows(d.sessions),
           NEW e, e = Statement(d, Do("noDefault", 0, {}))
    PROVE  /\ IsDb(e) /\ IsRows(e.sessions) /\ e.version = d.version /\ e.applied = d.applied /\ e.torrents = d.torrents
           /\ e.seq = d.seq /\ DOMAIN e.sessions = DOMAIN d.sessions /\ Defaults(e.sessions) = {}
<1>1. e = [d EXCEPT !.sessions = ClearDefaults(@)]
  BY DEF Statement, Do
<1>2. /\ IsDb(e) /\ e.version = d.version /\ e.applied = d.applied /\ e.torrents = d.torrents
      /\ e.seq = d.seq /\ e.sessions = ClearDefaults(d.sessions)
  BY <1>1 DEF IsDb
<1>3. DOMAIN e.sessions = DOMAIN d.sessions /\ e.sessions = [i \in DOMAIN e.sessions |-> e.sessions[i]]
  BY <1>2 DEF ClearDefaults
<1>4. \A i \in DOMAIN d.sessions : e.sessions[i] = [name |-> d.sessions[i].name, default |-> 0]
  <2> SUFFICES ASSUME NEW i \in DOMAIN d.sessions PROVE e.sessions[i] = [name |-> d.sessions[i].name, default |-> 0]
    OBVIOUS
  <2>1. e.sessions[i] = [d.sessions[i] EXCEPT !.default = 0]
    BY <1>2 DEF ClearDefaults
  <2>2. d.sessions[i] = [name |-> d.sessions[i].name, default |-> d.sessions[i].default]
    BY DEF IsRows
  <2> QED BY <2>1, <2>2
<1>5. \A j \in DOMAIN d.sessions :
          /\ e.sessions[j].default = (0)
          /\ e.sessions[j] = [name |-> e.sessions[j].name, default |-> e.sessions[j].default]
  <2> TAKE j \in DOMAIN d.sessions
  <2> DEFINE r == e.sessions[j]
  <2>1. \E n : r = [name |-> n, default |-> (0)]
    BY <1>4
  <2> HIDE DEF r
  <2>2. r.default = (0) /\ r = [name |-> r.name, default |-> r.default]
    BY <2>1
  <2> QED BY <2>2 DEF r
<1>6. IsRows(e.sessions)
  BY <1>3, <1>5 DEF IsRows
<1>7. Defaults(e.sessions) = {}
  <2>0. 0 # 1
    OBVIOUS
  <2>1. \A j \in DOMAIN e.sessions : e.sessions[j].default # 1
    BY <1>3, <1>5, <2>0, Zenon
  <2> QED BY <2>1 DEF Defaults
<1> QED BY <1>2, <1>3, <1>6, <1>7

LEMMA SetDefaultDoes ==
    ASSUME NEW d, IsDb(d), IsRows(d.sessions), NEW i \in DOMAIN d.sessions,
           NEW e, e = Statement(d, Do("setDefault", i, {}))
    PROVE  /\ IsDb(e) /\ IsRows(e.sessions) /\ e.version = d.version /\ e.applied = d.applied /\ e.torrents = d.torrents
           /\ e.seq = d.seq /\ DOMAIN e.sessions = DOMAIN d.sessions
           /\ Defaults(e.sessions) = Defaults(d.sessions) \cup {i}
<1>1. e = [d EXCEPT !.sessions[i].default = 1]
  BY DEF Statement, Do
<1>2. /\ IsDb(e) /\ e.version = d.version /\ e.applied = d.applied /\ e.torrents = d.torrents
      /\ e.seq = d.seq /\ e.sessions = [d.sessions EXCEPT ![i].default = 1]
  BY <1>1 DEF IsDb
<1>3. DOMAIN e.sessions = DOMAIN d.sessions /\ e.sessions = [j \in DOMAIN e.sessions |-> e.sessions[j]]
  BY <1>2
<1>4. \A j \in DOMAIN d.sessions :
          e.sessions[j] = [name |-> d.sessions[j].name, default |-> IF j = i THEN 1 ELSE d.sessions[j].default]
  BY <1>2 DEF IsRows
<1>5. \A j \in DOMAIN d.sessions :
          /\ e.sessions[j].default = (IF j = i THEN 1 ELSE d.sessions[j].default)
          /\ e.sessions[j] = [name |-> e.sessions[j].name, default |-> e.sessions[j].default]
  <2> TAKE j \in DOMAIN d.sessions
  <2> DEFINE r == e.sessions[j]
  <2>1. \E n : r = [name |-> n, default |-> (IF j = i THEN 1 ELSE d.sessions[j].default)]
    BY <1>4
  <2> HIDE DEF r
  <2>2. r.default = (IF j = i THEN 1 ELSE d.sessions[j].default) /\ r = [name |-> r.name, default |-> r.default]
    BY <2>1
  <2> QED BY <2>2 DEF r
<1>6. IsRows(e.sessions)
  BY <1>3, <1>5 DEF IsRows
<1>7. Defaults(e.sessions) = Defaults(d.sessions) \cup {i}
  BY <1>3, <1>5 DEF Defaults
<1> QED BY <1>2, <1>3, <1>6, <1>7

LEMMA UpdateSessionDoes ==
    ASSUME NEW d, IsDb(d), IsRows(d.sessions), NEW i \in DOMAIN d.sessions, NEW n,
           NEW e, e = Statement(d, Do("updateSession", i, [name |-> n]))
    PROVE  /\ IsDb(e) /\ IsRows(e.sessions) /\ e.version = d.version /\ e.applied = d.applied /\ e.torrents = d.torrents
           /\ e.seq = d.seq /\ DOMAIN e.sessions = DOMAIN d.sessions
           /\ Defaults(e.sessions) = Defaults(d.sessions)
<1>1. e = [d EXCEPT !.sessions[i].name = n]
  BY DEF Statement, Do
<1>2. /\ IsDb(e) /\ e.version = d.version /\ e.applied = d.applied /\ e.torrents = d.torrents
      /\ e.seq = d.seq /\ e.sessions = [d.sessions EXCEPT ![i].name = n]
  BY <1>1 DEF IsDb
<1>3. DOMAIN e.sessions = DOMAIN d.sessions /\ e.sessions = [j \in DOMAIN e.sessions |-> e.sessions[j]]
  BY <1>2
<1>4. \A j \in DOMAIN d.sessions :
          e.sessions[j] = [name |-> IF j = i THEN n ELSE d.sessions[j].name, default |-> d.sessions[j].default]
  BY <1>2 DEF IsRows
<1>5. \A j \in DOMAIN d.sessions :
          /\ e.sessions[j].default = (d.sessions[j].default)
          /\ e.sessions[j] = [name |-> e.sessions[j].name, default |-> e.sessions[j].default]
  <2> TAKE j \in DOMAIN d.sessions
  <2> DEFINE r == e.sessions[j]
  <2>1. \E x : r = [name |-> x, default |-> (d.sessions[j].default)]
    BY <1>4
  <2> HIDE DEF r
  <2>2. r.default = (d.sessions[j].default) /\ r = [name |-> r.name, default |-> r.default]
    BY <2>1
  <2> QED BY <2>2 DEF r
<1>6. IsRows(e.sessions)
  BY <1>3, <1>5 DEF IsRows
<1>7. Defaults(e.sessions) = Defaults(d.sessions)
  BY <1>3, <1>5 DEF Defaults
<1> QED BY <1>2, <1>3, <1>6, <1>7

-----------------------------------------------------------------------------
(* Migrations                                                                 *)

One(d) == \E x : Defaults(d.sessions) = {x}

\* A database after n migrations: before ids are AUTOINCREMENT it is one that an old program
\* left, afterwards the sequence is above every session and above the session of the orphan.
DbOK(d, n) ==
    /\ IsDb(d) /\ n \in Nat /\ d.applied = 1..n
    /\ IsRows(d.sessions)
    /\ n < SessionsAt => DOMAIN d.sessions = {}
    /\ n < SeedAt => /\ DOMAIN d.sessions \subseteq {1}
                     /\ \A h \in DOMAIN d.torrents : d.torrents[h] = 2
                     /\ \A i \in DOMAIN d.presets : d.presets[i].session = 2
    /\ SeedAt <= n => /\ d.seq \in Nat /\ DOMAIN d.sessions \subseteq 1..d.seq
                      /\ "orphan" \in DOMAIN d.torrents => 2 <= d.seq
    /\ "orphan" \in DOMAIN d.torrents => 2 \notin DOMAIN d.sessions

\* The largest of some small ids.
LEMMA HighestIs ==
    ASSUME NEW S, S \subseteq {1, 2}
    PROVE  Highest(S) \in Nat /\ \A m \in S : m <= Highest(S)
<1>1. \E n \in S \cup {0} : \A m \in S \cup {0} : m <= n
  <2>1. CASE 2 \in S
    BY <2>1
  <2>2. CASE 2 \notin S /\ 1 \in S
    BY <2>2
  <2>3. CASE 2 \notin S /\ 1 \notin S
    BY <2>3
  <2> QED BY <2>1, <2>2, <2>3
<1>2. Highest(S) \in S \cup {0} /\ \A m \in S \cup {0} : m <= Highest(S)
  BY <1>1 DEF Highest
<1>3. Highest(S) \in {0, 1, 2}
  BY <1>2, Zenon
<1>4. \A m \in S : m <= Highest(S)
  BY <1>2, Zenon
<1>5. \A x : x \in {0, 1, 2} => x \in Nat
  OBVIOUS
<1> QED BY <1>3, <1>4, <1>5, Zenon

\* The migration after n of them.
LEMMA MigrationDoes ==
    ASSUME NEW d, NEW n, DbOK(d, n), n >= SessionsAt => One(d), n < Target,
           NEW e, e = Statement(d, Do("migration", n + 1, {}))
    PROVE  /\ DbOK(e, n + 1) /\ (n + 1 >= SessionsAt => One(e))
           /\ e.version = d.version /\ e.torrents = d.torrents /\ DOMAIN d.sessions \subseteq DOMAIN e.sessions
<1> USE RecordsAssumption DEF RecordsAssumption
<1>0. e = Migration(d, n + 1)
  BY DEF Statement, Do
<1>1. /\ IsDb(d) /\ n \in Nat /\ d.applied = 1..n /\ IsRows(d.sessions)
      /\ SessionsAt \in Nat /\ SeedAt \in Nat /\ 1..n \cup {n + 1} = 1..n + 1
  BY DEF DbOK
<1>2. CASE n + 1 = SessionsAt
  <2>1. e = SetRow([d EXCEPT !.applied = @ \cup {n + 1}], "sessions", 1, [name |-> "default", default |-> 1])
    BY <1>0, <1>2 DEF Migration
  <2>2. /\ IsDb(e) /\ e.version = d.version /\ e.applied = d.applied \cup {n + 1} /\ e.torrents = d.torrents
        /\ e.presets = d.presets /\ e.sessions = Extend(d.sessions, 1, [name |-> "default", default |-> 1])
    BY <1>1, <2>1 DEF IsDb, SetRow
  <2>3. DOMAIN d.sessions = {}
    BY <1>2 DEF DbOK
  <2>4. IsRows(e.sessions) /\ DOMAIN e.sessions = {1} /\ Defaults(e.sessions) = {1}
    BY <2>2, <2>3 DEF Extend, IsRows, Defaults
  <2>5. n < SeedAt /\ n + 1 < SeedAt /\ ~(SeedAt <= n + 1) /\ ~(n + 1 < SessionsAt) /\ n + 1 \in Nat
    BY <1>1, <1>2
  <2>6. One(e)
    BY <2>4 DEF One
  <2>7. /\ \A h \in DOMAIN e.torrents : e.torrents[h] = 2
        /\ \A i \in DOMAIN e.presets : e.presets[i].session = 2
    BY <2>2, <2>5 DEF DbOK
  <2>8. e.applied = 1..n + 1 /\ 2 \notin DOMAIN e.sessions
    <3>1. e.applied = 1..n + 1
      BY <1>1, <2>2
    <3> QED BY <3>1, <2>4
  <2>9. DbOK(e, n + 1)
    BY <2>2, <2>4, <2>5, <2>7, <2>8 DEF DbOK
  <2> QED BY <2>2, <2>3, <2>6, <2>9
<1>3. CASE n + 1 # SessionsAt /\ n + 1 = SeedAt
  <2> DEFINE all == DOMAIN d.sessions \cup {d.torrents[h] : h \in DOMAIN d.torrents}
                        \cup {d.presets[i].session : i \in DOMAIN d.presets}
  <2>1. /\ IsDb(e) /\ e.version = d.version /\ e.applied = d.applied \cup {n + 1} /\ e.torrents = d.torrents
        /\ e.sessions = d.sessions /\ e.seq = Seed(d)
    BY <1>0, <1>1, <1>3 DEF IsDb, Migration
  <2>2. /\ DOMAIN d.sessions \subseteq {1} /\ \A h \in DOMAIN d.torrents : d.torrents[h] = 2
        /\ \A i \in DOMAIN d.presets : d.presets[i].session = 2
    BY <1>1, <1>3 DEF DbOK
  <2>3. all \subseteq {1, 2}
    BY <2>2
  <2>4. e.seq = Highest(all)
    BY <2>1 DEF Seed
  <2>5. e.seq \in Nat /\ \A m \in all : m <= e.seq
    <3> HIDE DEF all
    <3> QED BY <2>3, <2>4, HighestIs
  <2>6. DOMAIN e.sessions \subseteq 1..e.seq
    BY <2>1, <2>2, <2>5
  <2>7. "orphan" \in DOMAIN e.torrents => 2 <= e.seq
    <3> HAVE "orphan" \in DOMAIN e.torrents
    <3>1. 2 \in all
      BY <2>1, <2>2
    <3> QED BY <3>1, <2>5
  <2>8. One(e)
    <3>1. n >= SessionsAt
      BY <1>1, <1>3
    <3> QED BY <3>1, <2>1 DEF One
  <2> HIDE DEF all
  <2>9. "orphan" \in DOMAIN e.torrents => 2 \notin DOMAIN e.sessions
    BY <2>1 DEF DbOK
  <2>10. ~(n + 1 < SeedAt) /\ ~(n + 1 < SessionsAt) /\ n + 1 \in Nat
    BY <1>1, <1>3
  <2>11. e.applied = 1..n + 1 /\ IsRows(e.sessions)
    BY <1>1, <2>1
  <2>12. DbOK(e, n + 1)
    BY <2>1, <2>5, <2>6, <2>7, <2>9, <2>10, <2>11 DEF DbOK
  <2> QED BY <2>1, <2>8, <2>12
<1>4. CASE n + 1 # SessionsAt /\ n + 1 # SeedAt
  <2>1. e = [d EXCEPT !.applied = @ \cup {n + 1}]
    BY <1>0, <1>4 DEF Migration
  <2>2. /\ IsDb(e) /\ e.version = d.version /\ e.applied = d.applied \cup {n + 1} /\ e.torrents = d.torrents
        /\ e.sessions = d.sessions /\ e.seq = d.seq /\ e.presets = d.presets
    BY <1>1, <2>1 DEF IsDb
  <2>3. n + 1 >= SessionsAt => One(e)
    <3>1. n + 1 >= SessionsAt => n >= SessionsAt
      BY <1>1, <1>4
    <3> QED BY <3>1, <2>2 DEF One
  <2>4. /\ n + 1 \in Nat /\ (n + 1 < SessionsAt => n < SessionsAt)
        /\ (n + 1 < SeedAt => n < SeedAt) /\ (SeedAt <= n + 1 => SeedAt <= n)
    BY <1>1, <1>4
  <2>5. e.applied = 1..n + 1
    BY <1>1, <2>2
  <2>6. DbOK(e, n + 1)
    BY <2>2, <2>4, <2>5 DEF DbOK
  <2> QED BY <2>2, <2>3, <2>6
<1> QED BY <1>2, <1>3, <1>4

LEMMA VersionDoes ==
    ASSUME NEW d, NEW n, DbOK(d, n), NEW v, NEW e, e = Statement(d, Do("user_version", v, {}))
    PROVE  /\ DbOK(e, n) /\ e.version = v /\ e.sessions = d.sessions /\ e.torrents = d.torrents
<1>1. e = [d EXCEPT !.version = v]
  BY DEF Statement, Do
<1>2. /\ IsDb(e) /\ e.version = v /\ e.applied = d.applied /\ e.torrents = d.torrents
      /\ e.sessions = d.sessions /\ e.seq = d.seq /\ e.presets = d.presets
  BY <1>1 DEF IsDb, DbOK
<1> QED BY <1>2 DEF DbOK

-----------------------------------------------------------------------------
(* The inductive invariant                                                    *)

\* Of the migrations, n are done: what Migrate has still to execute.
MigrationsLeft(n) ==
    [j \in 1..Target - n + 1 |-> IF j <= Target - n THEN Do("migration", n + j, {}) ELSE Do("user_version", Target, {})]

Migrating ==
    \/ work = NoWork /\ view = disk /\ disk.version = Target
    \/ /\ work.mode = "tx" /\ DOMAIN disk.sessions \subseteq DOMAIN view.sessions
       /\ \/ \E n \in 0..Target : /\ work.todo = MigrationsLeft(n) /\ DbOK(view, n)
                                  /\ n >= SessionsAt => One(view)
          \/ work.todo = <<>> /\ view.version = Target /\ DbOK(view, Target) /\ One(view)

\* The handlers that are under way, by what they have still to do.  A session that is added has a
\* new id, and one that is removed or moved from was unloaded before; only between two statements of
\* an update there is no default session.
Adding ==
    /\ work.mode = "auto" /\ work.then = "load" /\ view = disk /\ One(view) /\ work.id \notin DOMAIN live
    /\ \/ \E n : work.todo = <<Do("insertSession", 0, [name |-> n, default |-> 0])>> /\ work.id = view.seq + 1
       \/ work.todo = <<>> /\ work.id \in DOMAIN view.sessions

Removing ==
    /\ work.mode = "tx" /\ work.then = "nothing" /\ One(view)
    /\ \E i : /\ i \notin DOMAIN live
              /\ \/ /\ i \notin Defaults(view.sessions)
                    /\ work.todo \in {<<Do("clearSessions", i, {}), Do("removeSession", i, {})>>, <<Do("removeSession", i, {})>>}
                 \/ work.todo = <<>>

Updating ==
    /\ work.mode = "tx" /\ work.then = "rename"
    /\ \E i \in DOMAIN view.sessions : \E n :
          LET update == Do("updateSession", i, [name |-> n])
              set == Do("setDefault", i, {})
          IN  \/ One(view) /\ work.todo \in {<<Do("noDefault", 0, {}), set, update>>, <<update>>, <<>>}
              \/ Defaults(view.sessions) = {} /\ work.todo = <<set, update>>

Others ==
    /\ work.mode \in {"tx", "auto"} /\ work.then = "nothing" /\ One(view) /\ (work.mode = "auto" => view = disk)
    /\ \E S : work.todo \in Seq(S) /\ \A s \in S : s.op \in OtherOps

Serving ==
    /\ DbOK(view, Target) /\ view.version = Target
    /\ \/ work = NoWork /\ view = disk
       \/ Adding \/ Removing \/ Updating \/ Others

DiskOK == DbOK(disk, disk.version) /\ (disk.version >= SessionsAt => One(disk))

PhaseOK ==
    \/ phase = "down" /\ loading = {} /\ work = NoWork /\ view = disk
    \/ phase = "migrate" /\ loading = {} /\ disk.version <= Target /\ Migrating
    \/ /\ phase = "load" /\ disk.version = Target /\ work = NoWork /\ view = disk
       /\ IsFiniteSet(loading) /\ outstanding = Cardinality(loading)
    \/ phase = "serve" /\ disk.version = Target /\ loading = {} /\ Serving

WorkOK ==
    work = [todo |-> work.todo, mode |-> work.mode, then |-> work.then, id |-> work.id, events |-> work.events]

Loaded == phase \in {"load", "serve"}

LiveOK ==
    /\ live = [i \in DOMAIN live |-> live[i]]
    /\ \A i \in DOMAIN live : live[i] = [name |-> live[i].name, tracked |-> live[i].tracked]
    /\ Loaded => DOMAIN live \subseteq DOMAIN disk.sessions /\ DOMAIN live \subseteq DOMAIN view.sessions

HomeOf(h) ==
    /\ h \in DOMAIN disk.torrents => disk.torrents[h] = home[h]
    /\ home[h] # NoSession => home[h] \in DOMAIN disk.sessions /\ home[h] \in DOMAIN view.sessions
    /\ Loaded => /\ home[h] # NoSession => home[h] \in DOMAIN live /\ h \in live[home[h]].tracked
                 /\ \A i \in DOMAIN live : h \in live[i].tracked => home[h] = i
    /\ ~Loaded /\ home[h] # NoSession => h \in DOMAIN disk.torrents

\* The torrents that a session has or that are stored for it are the ones it accepted.  Before
\* the sessions are loaded only stored torrents have a home.
HomeOK ==
    /\ view.torrents = disk.torrents /\ disk.torrents = [h \in DOMAIN disk.torrents |-> disk.torrents[h]]
    /\ home = [h \in DOMAIN home |-> home[h]] /\ TorrentIds \subseteq DOMAIN home
    /\ \A h \in TorrentIds : HomeOf(h)

RecordsInv == DiskOK /\ PhaseOK /\ WorkOK /\ LiveOK /\ HomeOK

\* The invariant implies the properties.
LEMMA InvIsEnough ==
    ASSUME RecordsInv
    PROVE  SchemaWhole /\ OneDefaultSession /\ TorrentsStayHome
<1> USE RecordsAssumption DEF RecordsAssumption, RecordsInv
<1>1. disk.applied = 1..disk.version /\ disk.version \in Nat
  BY DEF DiskOK, DbOK
<1>2. SchemaWhole
  BY <1>1 DEF SchemaWhole, PhaseOK
<1>3. TorrentsStayHome
  BY DEF TorrentsStayHome, HomeOK, HomeOf, DiskOK, DbOK, Loaded
<1>4. SessionsAt \in disk.applied => Cardinality(Defaults(disk.sessions)) = 1
  <2>1. SessionsAt \in disk.applied => disk.version >= SessionsAt
    BY <1>1
  <2>2. SessionsAt \in disk.applied => One(disk)
    BY <2>1 DEF DiskOK
  <2> QED BY <2>2, FS_Singleton DEF One
<1>5. ~Busy => view = disk
  BY DEF Busy, PhaseOK, Migrating, Serving, Adding, Removing, Updating, Others
<1>6. OneDefaultSession
  BY <1>4, <1>5 DEF OneDefaultSession
<1> QED BY <1>2, <1>3, <1>6

LEMMA RecordsInitInv == RecordsInit => RecordsInv
<1> SUFFICES ASSUME RecordsInit PROVE RecordsInv
  OBVIOUS
<1> USE RecordsAssumption DEF RecordsAssumption
<1>1. PICK v \in 0..Target + 1 : disk \in OldDatabases(v)
  BY DEF RecordsInit
<1>2. PICK orphans \in BOOLEAN : disk =
         [version |-> v, applied |-> 1..v, kvs |-> <<>>,
          sessions |-> IF v < SessionsAt THEN <<>> ELSE Extend(<<>>, 1, [name |-> "default", default |-> 1]),
          seq |-> IF v < SeedAt THEN 0 ELSE 2,
          presets |-> IF v >= SessionsAt /\ orphans
                      THEN Extend(<<>>, 1, [name |-> "default", default |-> 1, session |-> IF v < SeedAt THEN 2 ELSE NoSession])
                      ELSE <<>>,
          presetSeq |-> IF v < SeedAt THEN 0 ELSE 1,
          torrents |-> IF v >= SessionsAt /\ orphans THEN Extend(<<>>, "orphan", 2) ELSE <<>>]
  BY <1>1 DEF OldDatabases
<1>3. v \in Nat /\ IsDb(disk) /\ disk.version = v /\ disk.applied = 1..v
  BY <1>2 DEF IsDb
<1>4. /\ v < SessionsAt => disk.sessions = <<>>
      /\ v >= SessionsAt => disk.sessions = Extend(<<>>, 1, [name |-> "default", default |-> 1])
      /\ v < SeedAt => disk.seq = 0
      /\ v >= SeedAt => disk.seq = 2
  BY <1>2, <1>3
<1>5. /\ disk.torrents = <<>> \/ disk.torrents = Extend(<<>>, "orphan", 2)
      /\ disk.presets = <<>>
            \/ disk.presets = Extend(<<>>, 1, [name |-> "default", default |-> 1, session |-> IF v < SeedAt THEN 2 ELSE NoSession])
  BY <1>2
<1>6. /\ DOMAIN disk.torrents \subseteq {"orphan"} /\ \A h \in DOMAIN disk.torrents : disk.torrents[h] = 2
      /\ disk.torrents = [h \in DOMAIN disk.torrents |-> disk.torrents[h]]
  BY <1>5 DEF Extend
<1>7. v < SeedAt => \A i \in DOMAIN disk.presets : disk.presets[i].session = 2
  BY <1>5 DEF Extend
<1>8. /\ DOMAIN disk.sessions \subseteq {1} /\ IsRows(disk.sessions)
      /\ v < SessionsAt => DOMAIN disk.sessions = {}
      /\ v >= SessionsAt => Defaults(disk.sessions) = {1}
  <2>1. CASE v < SessionsAt
    BY <1>3, <1>4, <2>1 DEF IsRows
  <2>2. CASE v >= SessionsAt
    <3>1. disk.sessions = Extend(<<>>, 1, [name |-> "default", default |-> 1])
      BY <1>4, <2>2
    <3>2. DOMAIN disk.sessions = {1} /\ IsRows(disk.sessions) /\ Defaults(disk.sessions) = {1}
      BY <3>1 DEF Extend, IsRows, Defaults
    <3>3. ~(v < SessionsAt)
      BY <1>3, <2>2
    <3> QED BY <3>2, <3>3
  <2> QED BY <1>3, <2>1, <2>2
<1>9. v >= SeedAt => disk.seq \in Nat /\ DOMAIN disk.sessions \subseteq 1..disk.seq /\ 2 <= disk.seq
  BY <1>4, <1>8
<1>10. 2 \notin DOMAIN disk.sessions
  BY <1>8
<1>11. DiskOK
  <2>1. DbOK(disk, v)
    BY <1>3, <1>6, <1>7, <1>8, <1>9, <1>10 DEF DbOK
  <2> QED BY <1>3, <1>8, <2>1 DEF DiskOK, One
<1>12. PhaseOK /\ WorkOK /\ LiveOK /\ view = disk /\ ~Loaded
  BY DEF RecordsInit, PhaseOK, WorkOK, NoWork, LiveOK, Loaded
<1>13. home = [h \in DOMAIN home |-> home[h]] /\ TorrentIds \subseteq DOMAIN home /\ \A h \in TorrentIds : home[h] = NoSession
  BY DEF RecordsInit
<1>14. HomeOK
  BY <1>6, <1>12, <1>13 DEF HomeOK, HomeOf
<1> QED BY <1>11, <1>12, <1>14 DEF RecordsInv

\* Between two handlers.
LEMMA AtRest ==
    ASSUME RecordsInv, phase = "serve", ~Busy
    PROVE  work = NoWork /\ view = disk /\ DbOK(view, Target) /\ view.version = Target /\ One(view) /\ loading = {}
<1> USE RecordsAssumption DEF RecordsAssumption
<1>1. disk.version = Target /\ loading = {} /\ Serving
  BY DEF RecordsInv, PhaseOK
<1>2. work = NoWork /\ view = disk
  BY <1>1 DEF Serving, Busy, Adding, Removing, Updating, Others
<1>3. Target >= SessionsAt
  OBVIOUS
<1> QED BY <1>1, <1>2, <1>3 DEF Serving, RecordsInv, DiskOK

\* A handler begins.
LEMMA StartsKeeps ==
    ASSUME RecordsInv, NEW w, Starts(w), WorkOK', Adding' \/ Removing' \/ Updating' \/ Others',
           live' = live \/ \E i : live' = Drop(live, {i}) /\ \A h \in TorrentIds : home[h] # i
    PROVE  RecordsInv'
<1>1. /\ phase = "serve" /\ ~Busy /\ work' = w
      /\ disk' = disk /\ view' = view /\ phase' = phase /\ loading' = loading /\ home' = home
  BY DEF Starts
<1>2. work = NoWork /\ view = disk /\ DbOK(view, Target) /\ view.version = Target /\ One(view) /\ loading = {}
  BY <1>1, AtRest
<1>3. DiskOK'
  BY <1>1 DEF RecordsInv, DiskOK, One, DbOK
<1>4. PhaseOK'
  BY <1>1, <1>2 DEF PhaseOK, Serving, DbOK
<1>5. CASE live' = live
  BY <1>1, <1>3, <1>4, <1>5 DEF RecordsInv, LiveOK, HomeOK, HomeOf, Loaded
<1>6. CASE live' # live
  <2>1. PICK i : live' = Drop(live, {i}) /\ \A h \in TorrentIds : home[h] # i
    BY <1>6
  <2>2. /\ DOMAIN live' = DOMAIN live \ {i} /\ live' = [j \in DOMAIN live' |-> live'[j]]
        /\ \A j \in DOMAIN live' : live'[j] = live[j]
    BY <2>1 DEF Drop
  <2>3. LiveOK'
    BY <1>1, <2>2 DEF RecordsInv, LiveOK, Loaded
  <2>4. HomeOK'
    <3> SUFFICES ASSUME NEW h \in TorrentIds PROVE HomeOf(h)'
      BY <1>1 DEF RecordsInv, HomeOK
    <3>1. HomeOf(h) /\ home[h] # i /\ Loaded
      BY <1>1, <2>1 DEF RecordsInv, HomeOK, Loaded
    <3> QED BY <1>1, <2>2, <3>1 DEF HomeOf, Loaded
  <2> QED BY <1>3, <1>4, <2>3, <2>4 DEF RecordsInv
<1> QED BY <1>5, <1>6

\* SetToSeq of a finite set.
LEMMA SetToSeqIs ==
    ASSUME NEW S, IsFiniteSet(S)
    PROVE  /\ Cardinality(S) \in Nat /\ SetToSeq(S) \in [1..Cardinality(S) -> S]
           /\ \A x \in S : \E n \in 1..Cardinality(S) : SetToSeq(S)[n] = x
<1> DEFINE N == Cardinality(S)
<1>1. N \in Nat /\ ExistsBijection(1..N, S)
  BY FS_CardinalityType
<1> HIDE DEF N
<1>2. PICK f : f \in Bijection(1..N, S)
  BY <1>1, Zenon DEF ExistsBijection
<1>3. f \in [1..N -> S] /\ IsInjective(f)
  BY <1>2, Zenon DEF Bijection, Injection
<1>4. SetToSeq(S) \in [1..N -> S] /\ IsInjective(SetToSeq(S))
  BY <1>3, Zenon DEF SetToSeq, N
<1>5. SetToSeq(S) \in Injection(1..N, S)
  BY <1>4, Zenon DEF Injection
<1>6. IsFiniteSet(1..N) /\ Cardinality(1..N) = N
  BY <1>1, FS_Interval
<1>7. SetToSeq(S) \in Surjection(1..N, S)
  BY <1>5, <1>6, FS_Injection DEF N
<1>8. \A x \in S : \E n \in 1..N : SetToSeq(S)[n] = x
  BY <1>7, Zenon DEF Surjection
<1> QED BY <1>1, <1>4, <1>8 DEF N

\* A list of one statement after a list of two, and after none.
LEMMA ThreeStatements ==
    ASSUME NEW a, NEW b, NEW c
    PROVE  <<a, b>> \o <<c>> = <<a, b, c>> /\ <<>> \o <<c>> = <<c>>
<1> DEFINE S == {a, b, c}
           s == <<a, b>>
           t == <<c>>
           u == <<a, b, c>>
<1>1. /\ s \in Seq(S) /\ t \in Seq(S) /\ u \in Seq(S) /\ Len(s) = 2 /\ Len(t) = 1 /\ Len(u) = 3
      /\ s[1] = a /\ s[2] = b /\ t[1] = c /\ u[1] = a /\ u[2] = b /\ u[3] = c
  OBVIOUS
<1> HIDE DEF S, s, t, u
<1>2. /\ s \o t \in Seq(S) /\ Len(s \o t) = Len(s) + Len(t)
      /\ \A i \in 1..Len(s) + Len(t) : (s \o t)[i] = IF i <= Len(s) THEN s[i] ELSE t[i - Len(s)]
  BY <1>1, ConcatProperties
<1>3. Len(s \o t) = 3 /\ (s \o t)[1] = a /\ (s \o t)[2] = b /\ (s \o t)[3] = c
  BY <1>1, <1>2
<1>4. \A i \in 1..Len(u) : u[i] = (s \o t)[i]
  BY <1>1, <1>3
<1>5. s \o t = u
  BY <1>1, <1>2, <1>3, <1>4, SeqEqual
<1>6. <<>> \o t = t
  BY <1>1, ConcatEmptySeq
<1> QED BY <1>5, <1>6 DEF s, t, u

LEMMA HandlerKeeps == RecordsInv /\ Handler => RecordsInv'
<1> SUFFICES ASSUME RecordsInv, Handler PROVE RecordsInv'
  OBVIOUS
<1> USE RecordsAssumption DEF RecordsAssumption
<1>1. ASSUME NEW n \in RecordNames, AddSession(n) PROVE RecordsInv'
  <2>1. Starts(SessionsAdd(n)) /\ live' = live /\ phase = "serve" /\ ~Busy /\ disk' = disk /\ view' = view
    BY <1>1 DEF AddSession, Starts
  <2>2. view = disk /\ DbOK(view, Target) /\ One(view)
    BY <2>1, AtRest
  <2>3. work' = [todo |-> <<Do("insertSession", 0, [name |-> n, default |-> 0])>>, mode |-> "auto", then |-> "load",
                 id |-> view.seq + 1, events |-> <<<<"sessions", view.seq + 1>>>>]
    BY <2>1 DEF Starts, SessionsAdd, Autocommit
  <2>4. view.seq + 1 \notin DOMAIN live
    <3>1. view.seq \in Nat /\ DOMAIN view.sessions \subseteq 1..view.seq
      BY <2>2 DEF DbOK
    <3>2. DOMAIN live \subseteq DOMAIN view.sessions
      BY <2>1 DEF RecordsInv, LiveOK, Loaded
    <3> QED BY <3>1, <3>2
  <2>5. WorkOK' /\ Adding'
    BY <2>1, <2>2, <2>3, <2>4 DEF WorkOK, Adding, One
  <2> QED BY <2>1, <2>5, StartsKeeps
<1>2. ASSUME NEW n \in RecordNames, AddPreset(n) PROVE RecordsInv'
  <2> DEFINE s == Do("insertPreset", 0, [name |-> n, default |-> 0, session |-> NoSession])
  <2>1. PICK events : Starts(Autocommit(<<s>>, "nothing", 0, events)) /\ live' = live
    BY <1>2 DEF AddPreset
  <2>2. phase = "serve" /\ ~Busy /\ disk' = disk /\ view' = view
    BY <2>1 DEF Starts
  <2>3. view = disk /\ One(view)
    BY <2>2, AtRest
  <2>4. work' = [todo |-> <<s>>, mode |-> "auto", then |-> "nothing", id |-> 0, events |-> events]
    BY <2>1 DEF Starts, Autocommit
  <2>5. s.op \in OtherOps
    BY DEF Do, OtherOps
  <2> HIDE DEF s
  <2>6. <<s>> \in Seq({s})
    OBVIOUS
  <2>7. WorkOK' /\ Others'
    BY <2>2, <2>3, <2>4, <2>5, <2>6 DEF WorkOK, Others, One
  <2> QED BY <2>1, <2>7, StartsKeeps
<1>3. ASSUME NEW i \in 1..MaxPresetId, RemovePreset(i) PROVE RecordsInv'
  <2> DEFINE s == Do("removePreset", i, {})
  <2>1. PICK events : Starts(Autocommit(<<s>>, "nothing", i, events)) /\ live' = live
    BY <1>3 DEF RemovePreset
  <2>2. phase = "serve" /\ ~Busy /\ disk' = disk /\ view' = view
    BY <2>1 DEF Starts
  <2>3. view = disk /\ One(view)
    BY <2>2, AtRest
  <2>4. work' = [todo |-> <<s>>, mode |-> "auto", then |-> "nothing", id |-> i, events |-> events]
    BY <2>1 DEF Starts, Autocommit
  <2>5. s.op \in OtherOps
    BY DEF Do, OtherOps
  <2> HIDE DEF s
  <2>6. <<s>> \in Seq({s})
    OBVIOUS
  <2>7. WorkOK' /\ Others'
    BY <2>2, <2>3, <2>4, <2>5, <2>6 DEF WorkOK, Others, One
  <2> QED BY <2>1, <2>7, StartsKeeps
<1>4. ASSUME NEW i \in 1..MaxPresetId, NEW row, Starts(PresetsUpdate(i, row)), live' = live PROVE RecordsInv'
  <2> DEFINE a == Do("noDefaultPreset", 0, {})
             b == Do("updatePreset", i, row)
             todo == (IF row.default = 1 /\ Defaults(view.presets) \ {i} # {} THEN <<a>> ELSE <<>>) \o <<b>>
  <2>1. PICK events : Starts(Transaction(todo, "nothing", i, events))
    BY <1>4 DEF PresetsUpdate
  <2>2. a.op \in OtherOps /\ b.op \in OtherOps
    BY DEF Do, OtherOps
  <2> HIDE DEF a, b
  <2>3. todo \in Seq({a, b})
    <3> DEFINE front == IF row.default = 1 /\ Defaults(view.presets) \ {i} # {} THEN <<a>> ELSE <<>>
    <3>1. front \in {<<a>>, <<>>}
      BY Zenon
    <3>2. <<a>> \in Seq({a, b}) /\ <<>> \in Seq({a, b}) /\ <<b>> \in Seq({a, b})
      OBVIOUS
    <3>3. todo = front \o <<b>>
      OBVIOUS
    <3> HIDE DEF front, todo
    <3> QED BY <3>1, <3>2, <3>3, ConcatProperties
  <2> HIDE DEF todo
  <2>4. phase = "serve" /\ ~Busy /\ disk' = disk /\ view' = view
    BY <2>1 DEF Starts
  <2>5. view = disk /\ One(view)
    BY <2>4, AtRest
  <2>6. work' = [todo |-> todo, mode |-> "tx", then |-> "nothing", id |-> i, events |-> events]
    BY <2>1 DEF Starts, Transaction
  <2>7. WorkOK' /\ Others'
    BY <2>2, <2>3, <2>4, <2>5, <2>6 DEF WorkOK, Others, One
  <2> QED BY <1>4, <2>1, <2>7, StartsKeeps
<1>5. ASSUME NEW keys \in SUBSET KvKeys, NEW values \in [keys -> KvValues], SetKeys(values) PROVE RecordsInv'
  <2> DEFINE order == SetToSeq(keys)
             todo == [n \in DOMAIN order |-> Do("setKey", order[n], values[order[n]])]
  <2>1. PICK events : Starts(Transaction(todo, "nothing", 0, events)) /\ live' = live
    BY <1>5 DEF SetKeys
  <2>2. IsFiniteSet(keys)
    BY FS_Subset
  <2>3. Cardinality(keys) \in Nat /\ DOMAIN order = 1..Cardinality(keys)
    BY <2>2, SetToSeqIs
  <2> DEFINE S == {todo[n] : n \in DOMAIN order}
  <2>4. \A s \in S : s.op \in OtherOps
    <3>1. \A k, v : Do("setKey", k, v).op \in OtherOps
      BY DEF Do, OtherOps
    <3> HIDE DEF order
    <3> QED BY <3>1
  <2>5. todo \in Seq(S)
    <3> HIDE DEF order
    <3>1. todo \in [1..Cardinality(keys) -> S]
      BY <2>3
    <3> HIDE DEF todo, S
    <3> QED BY <2>3, <3>1
  <2> HIDE DEF todo, S, order
  <2>6. phase = "serve" /\ ~Busy /\ disk' = disk /\ view' = view
    BY <2>1 DEF Starts
  <2>7. view = disk /\ One(view)
    BY <2>6, AtRest
  <2>8. work' = [todo |-> todo, mode |-> "tx", then |-> "nothing", id |-> 0, events |-> events]
    BY <2>1 DEF Starts, Transaction
  <2>9. WorkOK' /\ Others'
    BY <2>4, <2>5, <2>6, <2>7, <2>8 DEF WorkOK, Others, One
  <2> QED BY <2>1, <2>9, StartsKeeps
<1>6. ASSUME NEW i \in 1..MaxSessionId, RemoveSession(i) PROVE RecordsInv'
  <2> DEFINE a == Do("clearSessions", i, {})
             b == Do("removeSession", i, {})
  <2>1. PICK events : Starts(Transaction(<<a, b>>, "nothing", i, events))
    BY <1>6 DEF RemoveSession
  <2>2. phase = "serve" /\ ~Busy /\ disk' = disk /\ view' = view
    BY <2>1 DEF Starts
  <2>3. view = disk /\ One(view)
    BY <2>2, AtRest
  <2>4. work' = [todo |-> <<a, b>>, mode |-> "tx", then |-> "nothing", id |-> i, events |-> events]
    BY <2>1 DEF Starts, Transaction
  <2>5. live' = Drop(live, {i}) /\ MayRemove(i)
    BY <1>6 DEF RemoveSession
  <2>6. i \notin DOMAIN live' /\ i \notin Defaults(view.sessions)
    BY <2>5 DEF Drop, MayRemove, Defaults
  <2>7. ASSUME NEW h \in TorrentIds PROVE home[h] # i
    <3>1. HomeOf(h) /\ Loaded
      BY <2>2 DEF RecordsInv, HomeOK, Loaded
    <3> QED BY <3>1, <2>5 DEF HomeOf, MayRemove, NoSession
  <2>8. WorkOK' /\ Removing'
    BY <2>2, <2>3, <2>4, <2>6 DEF WorkOK, Removing, One
  <2> QED BY <2>1, <2>5, <2>7, <2>8, StartsKeeps
<1>7. ASSUME NEW i \in 1..MaxSessionId, NEW n \in RecordNames, NEW default \in {0, 1}, UpdateSession(i, n, default)
      PROVE  RecordsInv'
  <2> DEFINE a == Do("noDefault", 0, {})
             b == Do("setDefault", i, {})
             c == Do("updateSession", i, [name |-> n])
             new == default = 1 /\ view.sessions[i].default = 0
             todo == (IF new THEN <<a, b>> ELSE <<>>) \o <<c>>
  <2>1. PICK events : Starts(Transaction(todo, "rename", i, events)) /\ live' = live /\ i \in DOMAIN view.sessions
    BY <1>7 DEF UpdateSession, SessionsUpdate
  <2>2. phase = "serve" /\ ~Busy /\ disk' = disk /\ view' = view
    BY <2>1 DEF Starts
  <2>3. view = disk /\ One(view)
    BY <2>2, AtRest
  <2>4. todo \in {<<a, b, c>>, <<c>>}
    <3> HIDE DEF a, b, c, new
    <3>1. <<a, b>> \o <<c>> = <<a, b, c>> /\ <<>> \o <<c>> = <<c>>
      BY ThreeStatements
    <3> QED BY <3>1
  <2> HIDE DEF todo, new
  <2>5. work' = [todo |-> todo, mode |-> "tx", then |-> "rename", id |-> i, events |-> events]
    BY <2>1 DEF Starts, Transaction
  <2>6. WorkOK' /\ Updating'
    BY <2>1, <2>2, <2>3, <2>4, <2>5 DEF WorkOK, Updating, One
  <2> QED BY <2>1, <2>6, StartsKeeps
<1>8. ASSUME NEW i \in 1..MaxPresetId, NEW n \in RecordNames, NEW default \in {0, 1}, NEW s \in 0..MaxSessionId,
             UpdatePreset(i, n, default, s)
      PROVE  RecordsInv'
  BY <1>8, <1>4 DEF UpdatePreset
<1> QED BY <1>1, <1>2, <1>3, <1>5, <1>6, <1>7, <1>8 DEF Handler

-----------------------------------------------------------------------------
(* A statement of a handler                                                   *)

\* What is left of a handler after a statement.
LEMMA NextStatement ==
    ASSUME WorkOK, work' = [work EXCEPT !.todo = Tail(@)]
    PROVE  /\ WorkOK' /\ work'.todo = Tail(work.todo)
           /\ work'.mode = work.mode /\ work'.then = work.then /\ work'.id = work.id
BY DEF WorkOK

\* A statement of a handler changes the records in a way that is part of the handler.
LEMMA ServeStep ==
    ASSUME RecordsInv, phase = "serve", Serving', WorkOK', DOMAIN live \subseteq DOMAIN view'.sessions,
           view'.torrents = view.torrents, disk' = disk \/ (disk' = view' /\ One(view)'),
           phase' = phase, live' = live, loading' = loading, home' = home
    PROVE  RecordsInv'
<1> USE RecordsAssumption DEF RecordsAssumption
<1>1. disk.version = Target /\ loading = {} /\ view.torrents = disk.torrents /\ DOMAIN live \subseteq DOMAIN disk.sessions
  BY DEF RecordsInv, PhaseOK, HomeOK, LiveOK, Loaded
<1>2. DbOK(view', Target) /\ view'.version = Target
  BY DEF Serving
<1>3. disk'.version = Target /\ DOMAIN live \subseteq DOMAIN disk'.sessions /\ disk'.torrents = disk.torrents
  BY <1>1, <1>2
<1>4. DiskOK'
  <2>1. CASE disk' = disk
    BY <2>1 DEF RecordsInv, DiskOK, One
  <2>2. CASE disk' = view' /\ One(view)'
    BY <1>2, <2>2 DEF DiskOK, One
  <2> QED BY <2>1, <2>2
<1>5. PhaseOK'
  BY <1>1, <1>3 DEF PhaseOK
<1>6. LiveOK'
  BY <1>3 DEF RecordsInv, LiveOK
<1>7. HomeOK'
  <2> SUFFICES ASSUME NEW h \in TorrentIds PROVE HomeOf(h)'
    BY <1>1, <1>3 DEF RecordsInv, HomeOK
  <2>1. HomeOf(h) /\ Loaded /\ Loaded'
    BY DEF RecordsInv, HomeOK, Loaded
  <2> QED BY <1>3, <2>1 DEF HomeOf
<1> QED BY <1>4, <1>5, <1>6, <1>7 DEF RecordsInv

\* A database of the newest version in which only sessions changed.
LEMMA NewestDb ==
    ASSUME NEW d, DbOK(d, Target), NEW e, IsDb(e), IsRows(e.sessions), e.applied = d.applied, e.torrents = d.torrents,
           e.seq = d.seq, DOMAIN e.sessions \subseteq DOMAIN d.sessions
    PROVE  DbOK(e, Target)
<1> USE RecordsAssumption DEF RecordsAssumption
<1>1. ~(Target < SessionsAt) /\ ~(Target < SeedAt) /\ SeedAt <= Target
  OBVIOUS
<1> QED BY <1>1 DEF DbOK

LEMMA AddingExecutes ==
    ASSUME RecordsInv, phase = "serve", Execute, Adding
    PROVE  RecordsInv'
<1> USE RecordsAssumption DEF RecordsAssumption
<1>1. /\ work.todo # <<>> /\ view' = Statement(view, Head(work.todo)) /\ disk' = (IF work.mode = "tx" THEN disk ELSE view')
      /\ phase' = phase /\ live' = live /\ loading' = loading /\ home' = home /\ work' = [work EXCEPT !.todo = Tail(@)]
  BY DEF Execute
<1>2. DbOK(view, Target) /\ view.version = Target /\ WorkOK
  BY DEF RecordsInv, PhaseOK, Serving
<1>3. PICK n : work.todo = <<Do("insertSession", 0, [name |-> n, default |-> 0])>> /\ work.id = view.seq + 1
  BY <1>1 DEF Adding
<1>4. Head(work.todo) = Do("insertSession", 0, [name |-> n, default |-> 0]) /\ Tail(work.todo) = <<>>
  BY <1>3
<1>5. /\ IsDb(view) /\ IsRows(view.sessions) /\ view.seq \in Nat /\ DOMAIN view.sessions \subseteq 1..view.seq
      /\ "orphan" \in DOMAIN view.torrents => 2 <= view.seq /\ 2 \notin DOMAIN view.sessions
  BY <1>2 DEF DbOK
<1>6. view.seq + 1 \notin DOMAIN view.sessions
  BY <1>5
<1>7. /\ IsDb(view') /\ IsRows(view'.sessions) /\ view'.version = view.version /\ view'.applied = view.applied
      /\ view'.torrents = view.torrents /\ view'.seq = view.seq + 1
      /\ DOMAIN view'.sessions = DOMAIN view.sessions \cup {view.seq + 1}
      /\ Defaults(view'.sessions) = Defaults(view.sessions)
  BY <1>1, <1>4, <1>5, <1>6, InsertSessionDoes
<1>8. /\ view'.seq \in Nat /\ DOMAIN view'.sessions \subseteq 1..view'.seq
      /\ "orphan" \in DOMAIN view'.torrents => 2 <= view'.seq /\ 2 \notin DOMAIN view'.sessions
  BY <1>5, <1>7
<1>9. ~(Target < SessionsAt) /\ ~(Target < SeedAt) /\ Target \in Nat /\ view'.applied = 1..Target
  BY <1>2, <1>7 DEF DbOK
<1>10. DbOK(view', Target)
  BY <1>7, <1>8, <1>9 DEF DbOK
<1>11. One(view)'
  BY <1>7 DEF One, Adding
<1>12. /\ WorkOK' /\ work'.todo = <<>> /\ work'.mode = "auto" /\ work'.then = "load" /\ work'.id = work.id
       /\ disk' = view'
  BY <1>1, <1>2, <1>4, NextStatement DEF Adding
<1>13. Adding'
  BY <1>1, <1>3, <1>7, <1>11, <1>12 DEF Adding
<1>14. Serving'
  BY <1>2, <1>7, <1>10, <1>13 DEF Serving
<1>15. DOMAIN live \subseteq DOMAIN view'.sessions
  BY <1>7 DEF RecordsInv, LiveOK, Loaded
<1> QED BY <1>1, <1>7, <1>11, <1>12, <1>14, <1>15, ServeStep

LEMMA RemovingExecutes ==
    ASSUME RecordsInv, phase = "serve", Execute, Removing
    PROVE  RecordsInv'
<1> USE RecordsAssumption DEF RecordsAssumption
<1>1. /\ work.todo # <<>> /\ view' = Statement(view, Head(work.todo)) /\ disk' = (IF work.mode = "tx" THEN disk ELSE view')
      /\ phase' = phase /\ live' = live /\ loading' = loading /\ home' = home /\ work' = [work EXCEPT !.todo = Tail(@)]
  BY DEF Execute
<1>2. DbOK(view, Target) /\ view.version = Target /\ WorkOK /\ IsDb(view) /\ IsRows(view.sessions)
  BY DEF RecordsInv, PhaseOK, Serving, DbOK
<1>3. DOMAIN live \subseteq DOMAIN view.sessions
  BY DEF RecordsInv, LiveOK, Loaded
<1>4. PICK i : /\ i \notin DOMAIN live /\ i \notin Defaults(view.sessions)
               /\ work.todo \in {<<Do("clearSessions", i, {}), Do("removeSession", i, {})>>, <<Do("removeSession", i, {})>>}
  BY <1>1 DEF Removing
<1>5. /\ WorkOK' /\ work'.todo = Tail(work.todo) /\ work'.mode = "tx" /\ work'.then = "nothing" /\ disk' = disk
  BY <1>1, <1>2, NextStatement DEF Removing
<1>6. CASE work.todo = <<Do("clearSessions", i, {}), Do("removeSession", i, {})>>
  <2>1. Head(work.todo) = Do("clearSessions", i, {}) /\ work'.todo = <<Do("removeSession", i, {})>>
    <3> DEFINE a == Do("clearSessions", i, {})
               b == Do("removeSession", i, {})
    <3> HIDE DEF a, b
    <3>1. Head(<<a, b>>) = a /\ Tail(<<a, b>>) = <<b>>
      OBVIOUS
    <3> QED BY <1>5, <1>6, <3>1 DEF a, b
  <2>2. Do("clearSessions", i, {}).op \in OtherOps
    BY DEF Do, OtherOps
  <2>3. IsDb(view') /\ SameSessions(view, view')
    BY <1>1, <1>2, <2>1, <2>2, OtherStatements
  <2>4. DbOK(view', Target) /\ view'.version = Target /\ One(view)'
    BY <1>2, <2>3, NewestDb DEF SameSessions, One, Removing
  <2>5. Serving'
    BY <1>1, <1>4, <1>5, <2>1, <2>3, <2>4 DEF Serving, Removing, SameSessions
  <2> QED BY <1>1, <1>3, <1>5, <2>3, <2>5, ServeStep DEF SameSessions
<1>7. CASE work.todo = <<Do("removeSession", i, {})>>
  <2>1. Head(work.todo) = Do("removeSession", i, {}) /\ work'.todo = <<>>
    BY <1>5, <1>7
  <2>2. /\ IsDb(view') /\ IsRows(view'.sessions) /\ view'.version = view.version /\ view'.applied = view.applied
        /\ view'.torrents = view.torrents /\ view'.seq = view.seq /\ DOMAIN view'.sessions = DOMAIN view.sessions \ {i}
        /\ Defaults(view'.sessions) = Defaults(view.sessions) \ {i}
    <3>1. view' = Statement(view, Do("removeSession", i, {}))
      BY <1>1, <2>1
    <3>2. IsDb(view) /\ IsRows(view.sessions)
      BY <1>2
    <3> QED BY ONLY <3>1, <3>2, RemoveSessionDoes
  <2>3. DbOK(view', Target) /\ view'.version = Target
    BY <1>2, <2>2, NewestDb
  <2>4. One(view)'
    BY <1>4, <2>2 DEF One, Removing
  <2>5. Serving'
    BY <1>1, <1>4, <1>5, <2>1, <2>3, <2>4 DEF Serving, Removing
  <2>6. DOMAIN live \subseteq DOMAIN view'.sessions
    BY <1>3, <1>4, <2>2
  <2> QED BY <1>1, <1>5, <2>2, <2>5, <2>6, ServeStep
<1> QED BY <1>4, <1>6, <1>7

LEMMA UpdatingExecutes ==
    ASSUME RecordsInv, phase = "serve", Execute, Updating
    PROVE  RecordsInv'
<1> USE RecordsAssumption DEF RecordsAssumption
<1>1. /\ work.todo # <<>> /\ view' = Statement(view, Head(work.todo)) /\ disk' = (IF work.mode = "tx" THEN disk ELSE view')
      /\ phase' = phase /\ live' = live /\ loading' = loading /\ home' = home /\ work' = [work EXCEPT !.todo = Tail(@)]
  BY DEF Execute
<1>2. DbOK(view, Target) /\ view.version = Target /\ WorkOK /\ IsDb(view) /\ IsRows(view.sessions)
  BY DEF RecordsInv, PhaseOK, Serving, DbOK
<1>3. DOMAIN live \subseteq DOMAIN view.sessions
  BY DEF RecordsInv, LiveOK, Loaded
<1>4. PICK i \in DOMAIN view.sessions :
         \E n : LET update == Do("updateSession", i, [name |-> n])
                   set == Do("setDefault", i, {})
               IN  \/ One(view) /\ work.todo \in {<<Do("noDefault", 0, {}), set, update>>, <<update>>, <<>>}
                   \/ Defaults(view.sessions) = {} /\ work.todo = <<set, update>>
  BY DEF Updating
<1>5. PICK n : LET update == Do("updateSession", i, [name |-> n])
                   set == Do("setDefault", i, {})
               IN  \/ One(view) /\ work.todo \in {<<Do("noDefault", 0, {}), set, update>>, <<update>>, <<>>}
                   \/ Defaults(view.sessions) = {} /\ work.todo = <<set, update>>
  BY <1>4
<1> DEFINE update == Do("updateSession", i, [name |-> n])
           set == Do("setDefault", i, {})
           no == Do("noDefault", 0, {})
<1>6. \/ One(view) /\ work.todo \in {<<no, set, update>>, <<update>>}
      \/ Defaults(view.sessions) = {} /\ work.todo = <<set, update>>
  BY <1>1, <1>5
<1> HIDE DEF update, set, no
<1>7. /\ WorkOK' /\ work'.todo = Tail(work.todo) /\ work'.mode = "tx" /\ work'.then = "rename" /\ disk' = disk
  BY <1>1, <1>2, NextStatement DEF Updating
<1>8. ASSUME DOMAIN view'.sessions = DOMAIN view.sessions, IsDb(view'), IsRows(view'.sessions), view'.version = view.version,
             view'.applied = view.applied, view'.torrents = view.torrents, view'.seq = view.seq, Updating'
      PROVE  RecordsInv'
  <2>1. DbOK(view', Target) /\ view'.version = Target
    BY <1>2, <1>8, NewestDb
  <2>2. Serving'
    BY <1>8, <2>1 DEF Serving
  <2> QED BY <1>1, <1>3, <1>7, <1>8, <2>2, ServeStep
<1>9. ASSUME \/ One(view)' /\ work'.todo \in {<<no, set, update>>, <<update>>, <<>>}
             \/ Defaults(view'.sessions) = {} /\ work'.todo = <<set, update>>,
             DOMAIN view'.sessions = DOMAIN view.sessions
      PROVE  Updating'
  BY <1>7, <1>9 DEF Updating, One, update, set, no
<1>10. CASE One(view) /\ work.todo = <<no, set, update>>
  <2>1. Head(work.todo) = no /\ work'.todo = <<set, update>>
    BY <1>7, <1>10
  <2>2. /\ IsDb(view') /\ IsRows(view'.sessions) /\ view'.version = view.version /\ view'.applied = view.applied
        /\ view'.torrents = view.torrents /\ view'.seq = view.seq /\ DOMAIN view'.sessions = DOMAIN view.sessions
        /\ Defaults(view'.sessions) = {}
    BY <1>1, <1>2, <2>1, NoDefaultDoes DEF no
  <2> QED BY <1>8, <1>9, <2>1, <2>2
<1>11. CASE Defaults(view.sessions) = {} /\ work.todo = <<set, update>>
  <2>1. Head(work.todo) = set /\ work'.todo = <<update>>
    BY <1>7, <1>11
  <2>2. /\ IsDb(view') /\ IsRows(view'.sessions) /\ view'.version = view.version /\ view'.applied = view.applied
        /\ view'.torrents = view.torrents /\ view'.seq = view.seq /\ DOMAIN view'.sessions = DOMAIN view.sessions
        /\ Defaults(view'.sessions) = Defaults(view.sessions) \cup {i}
    <3>1. view' = Statement(view, Do("setDefault", i, {}))
      BY <1>1, <2>1 DEF set
    <3> QED BY <1>2, <3>1, SetDefaultDoes, Zenon
  <2>3. One(view)'
    BY <1>11, <2>2 DEF One
  <2> QED BY <1>8, <1>9, <2>1, <2>2, <2>3
<1>12. CASE One(view) /\ work.todo = <<update>>
  <2>1. Head(work.todo) = update /\ work'.todo = <<>>
    BY <1>7, <1>12
  <2>2. /\ IsDb(view') /\ IsRows(view'.sessions) /\ view'.version = view.version /\ view'.applied = view.applied
        /\ view'.torrents = view.torrents /\ view'.seq = view.seq /\ DOMAIN view'.sessions = DOMAIN view.sessions
        /\ Defaults(view'.sessions) = Defaults(view.sessions)
    BY <1>1, <1>2, <2>1, UpdateSessionDoes DEF update
  <2>3. One(view)'
    BY <1>12, <2>2 DEF One
  <2> QED BY <1>8, <1>9, <2>1, <2>2, <2>3
<1> QED BY <1>6, <1>10, <1>11, <1>12

LEMMA OthersExecute ==
    ASSUME RecordsInv, phase = "serve", Execute, Others
    PROVE  RecordsInv'
<1> USE RecordsAssumption DEF RecordsAssumption
<1>1. /\ work.todo # <<>> /\ view' = Statement(view, Head(work.todo)) /\ disk' = (IF work.mode = "tx" THEN disk ELSE view')
      /\ phase' = phase /\ live' = live /\ loading' = loading /\ home' = home /\ work' = [work EXCEPT !.todo = Tail(@)]
  BY DEF Execute
<1>2. DbOK(view, Target) /\ view.version = Target /\ WorkOK /\ IsDb(view) /\ IsRows(view.sessions)
  BY DEF RecordsInv, PhaseOK, Serving, DbOK
<1>3. DOMAIN live \subseteq DOMAIN view.sessions
  BY DEF RecordsInv, LiveOK, Loaded
<1>4. PICK S : work.todo \in Seq(S) /\ \A s \in S : s.op \in OtherOps
  BY DEF Others
<1>5. Head(work.todo) \in S /\ Tail(work.todo) \in Seq(S)
  BY <1>1, <1>4, HeadTailProperties
<1>6. IsDb(view') /\ SameSessions(view, view')
  BY <1>1, <1>2, <1>4, <1>5, OtherStatements
<1>7. DbOK(view', Target) /\ view'.version = Target /\ One(view)'
  BY <1>2, <1>6, NewestDb DEF SameSessions, One, Others
<1>8. /\ WorkOK' /\ work'.todo = Tail(work.todo) /\ work'.mode = work.mode /\ work'.then = "nothing"
      /\ (disk' = disk \/ disk' = view') /\ (work.mode = "auto" => disk' = view')
  BY <1>1, <1>2, NextStatement DEF Others
<1>9. Others'
  BY <1>4, <1>5, <1>7, <1>8 DEF Others
<1>10. Serving'
  BY <1>7, <1>9 DEF Serving
<1> QED BY <1>1, <1>3, <1>6, <1>7, <1>8, <1>10, ServeStep DEF SameSessions

-----------------------------------------------------------------------------
(* Migrate                                                                    *)

\* A function from 1..N is a sequence of length N.
LEMMA IsSequence ==
    ASSUME NEW S, NEW N \in Nat, NEW f \in [1..N -> S]
    PROVE  f \in Seq(S) /\ Len(f) = N
<1>1. f \in Seq(S)
  OBVIOUS
<1>2. DOMAIN f = 1..Len(f) /\ Len(f) \in Nat /\ DOMAIN f = 1..N
  BY <1>1, LenProperties
<1>3. N \in 1..Len(f) \/ N = 0
  BY <1>2
<1>4. Len(f) \in 1..N \/ Len(f) = 0
  BY <1>2
<1> QED BY <1>1, <1>2, <1>3, <1>4

\* What Migrate executes, one migration after the other and the version at the end.
LEMMA MigrationsStep ==
    ASSUME NEW n \in 0..Target
    PROVE  /\ MigrationsLeft(n) # <<>>
           /\ n < Target => /\ Head(MigrationsLeft(n)) = Do("migration", n + 1, {})
                            /\ Tail(MigrationsLeft(n)) = MigrationsLeft(n + 1)
           /\ n = Target => /\ Head(MigrationsLeft(n)) = Do("user_version", Target, {})
                            /\ Tail(MigrationsLeft(n)) = <<>>
<1> USE RecordsAssumption DEF RecordsAssumption
<1> DEFINE m(k) == Do("migration", k, {})
           v == Do("user_version", Target, {})
           S == {v} \cup {m(k) : k \in Nat}
<1>1. n \in Nat /\ Target \in Nat /\ Target - n \in Nat
  OBVIOUS
<1> HIDE DEF m, v
<1>2. ASSUME NEW k \in Nat, k <= Target
      PROVE  /\ MigrationsLeft(k) = [j \in 1..Target - k + 1 |-> IF j <= Target - k THEN m(k + j) ELSE v]
             /\ MigrationsLeft(k) \in Seq(S) /\ Len(MigrationsLeft(k)) = Target - k + 1
  <2>1. MigrationsLeft(k) = [j \in 1..Target - k + 1 |-> IF j <= Target - k THEN m(k + j) ELSE v]
    BY DEF MigrationsLeft, m, v
  <2>2. Target - k + 1 \in Nat /\ \A j \in 1..Target - k + 1 : k + j \in Nat
    BY <1>2
  <2>3. MigrationsLeft(k) \in [1..Target - k + 1 -> S]
    BY <2>1, <2>2
  <2> HIDE DEF S
  <2>4. MigrationsLeft(k) \in Seq(S) /\ Len(MigrationsLeft(k)) = Target - k + 1
    BY <2>2, <2>3, IsSequence, Zenon
  <2> QED BY <2>1, <2>4
<1> HIDE DEF S
<1> DEFINE s == MigrationsLeft(n)
<1>3. n <= Target
  OBVIOUS
<1>4. s = [j \in 1..Target - n + 1 |-> IF j <= Target - n THEN m(n + j) ELSE v]
  BY <1>3, <1>1, <1>2, Zenon
<1>5. s \in Seq(S) /\ Len(s) = Target - n + 1
  BY <1>3, <1>1, <1>2, Zenon
<1> HIDE DEF s
<1>6. Len(s) >= 1 /\ s # <<>>
  <2>1. Len(s) >= 1
    BY <1>1, <1>5
  <2> QED BY <2>1, EmptySeq
<1>7. Head(s) = s[1] /\ Tail(s) \in Seq(S) /\ Len(Tail(s)) = Len(s) - 1 /\ \A i \in 1..Len(Tail(s)) : Tail(s)[i] = s[i + 1]
  BY <1>5, <1>6, HeadTailProperties
<1>8. CASE n < Target
  <2>1. Head(s) = m(n + 1)
    BY <1>1, <1>4, <1>7, <1>8
  <2> DEFINE t == MigrationsLeft(n + 1)
  <2>2. n + 1 \in Nat /\ n + 1 <= Target /\ Target - (n + 1) = Target - n - 1
    BY <1>1, <1>8
  <2>3. t = [j \in 1..Target - (n + 1) + 1 |-> IF j <= Target - (n + 1) THEN m(n + 1 + j) ELSE v]
    BY <1>2, <2>2, Zenon
  <2>4. t \in Seq(S) /\ Len(t) = Target - (n + 1) + 1
    BY <1>2, <2>2, Zenon
  <2> HIDE DEF t
  <2>5. Len(Tail(s)) = Len(t) /\ Len(t) = Target - n
    BY <1>1, <1>5, <1>7, <2>2, <2>4
  <2>6. ASSUME NEW i \in 1..Len(Tail(s)) PROVE Tail(s)[i] = t[i]
    <3>1. /\ i \in 1..Target - n /\ i + 1 \in 1..Target - n + 1 /\ n + (i + 1) = n + 1 + i
          /\ i + 1 <= Target - n <=> i <= Target - (n + 1)
          /\ Target - (n + 1) + 1 = Target - n
      BY <1>1, <2>2, <2>5
    <3>2. Tail(s)[i] = s[i + 1]
      BY <1>7
    <3>3. s[i + 1] = IF i + 1 <= Target - n THEN m(n + (i + 1)) ELSE v
      BY <1>4, <3>1
    <3>4. t[i] = IF i <= Target - (n + 1) THEN m(n + 1 + i) ELSE v
      BY <2>3, <3>1
    <3> QED BY <3>1, <3>2, <3>3, <3>4
  <2>7. Tail(s) = t
    BY <1>7, <2>4, <2>5, <2>6, SeqEqual
  <2> QED BY <1>1, <1>6, <1>8, <2>1, <2>7 DEF s, t, m
<1>9. CASE n = Target
  <2>1. Head(s) = v
    BY <1>1, <1>4, <1>7, <1>9
  <2>2. Len(Tail(s)) = 0
    <3> DEFINE l == Len(s)
               t == Len(Tail(s))
    <3>1. l = Target - n + 1
      BY <1>5
    <3>2. t = l - 1
      BY <1>7
    <3> HIDE DEF l, t
    <3>3. t = 0
      BY <1>1, <1>9, <3>1, <3>2
    <3> QED BY ONLY <3>3 DEF t
  <2>3. Tail(s) = <<>>
    BY <1>7, <2>2, EmptySeq
  <2> QED BY <1>1, <1>6, <1>9, <2>1, <2>3 DEF s, v
<1> QED BY <1>8, <1>9

\* Boot begins with every migration that is missing.
LEMMA ToMigrateIs ==
    ASSUME NEW n \in 0..Target
    PROVE  ToMigrate(n) = MigrationsLeft(n)
<1> USE RecordsAssumption DEF RecordsAssumption
<1> DEFINE m(k) == Do("migration", k, {})
           v == Do("user_version", Target, {})
           S == {v} \cup {m(k) : k \in Nat}
           s == [j \in 1..Target - n |-> m(n + j)]
           t == [j \in 1..Target - n + 1 |-> IF j <= Target - n THEN m(n + j) ELSE v]
<1>1. n \in Nat /\ Target \in Nat /\ Target - n \in Nat /\ Target - n + 1 \in Nat /\ \A j \in 1..Target - n + 1 : n + j \in Nat
  OBVIOUS
<1>2. ToMigrate(n) = Append(s, v) /\ MigrationsLeft(n) = t
  BY DEF ToMigrate, MigrationsLeft
<1> HIDE DEF m, v
<1>3. s \in [1..Target - n -> S] /\ t \in [1..Target - n + 1 -> S] /\ v \in S
  BY <1>1
<1>4. /\ \A j \in 1..Target - n : s[j] = t[j]
      /\ t[Target - n + 1] = v
  BY <1>1
<1> HIDE DEF S, s, t
<1>5. s \in Seq(S) /\ t \in Seq(S) /\ Len(s) = Target - n /\ Len(t) = Target - n + 1
  BY <1>1, <1>3, IsSequence, Zenon
<1>6. /\ Append(s, v) \in Seq(S) /\ Len(Append(s, v)) = Len(s) + 1
      /\ \A i \in 1..Len(s) : Append(s, v)[i] = s[i]
      /\ Append(s, v)[Len(s) + 1] = v
  <2>1. s \in Seq(S) /\ v \in S
    BY <1>3, <1>5
  <2> QED BY ONLY <2>1, AppendProperties
<1>7. ASSUME NEW i \in 1..Len(t) PROVE Append(s, v)[i] = t[i]
  <2> DEFINE u == Append(s, v)
  <2>1. (\A j \in 1..Target - n : u[j] = s[j]) /\ u[Target - n + 1] = v
    BY <1>5, <1>6
  <2> HIDE DEF u
  <2>2. i \in 1..Target - n \/ i = Target - n + 1
    BY <1>1, <1>5
  <2> QED BY <1>4, <2>1, <2>2 DEF u
<1>8. Append(s, v) = t
  BY <1>5, <1>6, <1>7, SeqEqual
<1> QED BY <1>2, <1>8

\* A step before the sessions are loaded.
LEMMA EarlyStep ==
    ASSUME RecordsInv, ~Loaded, ~Loaded', PhaseOK', WorkOK',
           view'.torrents = disk.torrents, DOMAIN disk.sessions \subseteq DOMAIN view'.sessions,
           disk' = disk, live' = live, home' = home
    PROVE  RecordsInv'
<1>1. DiskOK'
  BY DEF RecordsInv, DiskOK, One
<1>2. LiveOK'
  BY DEF RecordsInv, LiveOK
<1>3. HomeOK'
  <2> SUFFICES ASSUME NEW h \in TorrentIds PROVE HomeOf(h)'
    BY DEF RecordsInv, HomeOK
  <2>1. HomeOf(h)
    BY DEF RecordsInv, HomeOK
  <2> QED BY <2>1 DEF HomeOf
<1> QED BY <1>1, <1>2, <1>3 DEF RecordsInv

\* Migrate executes a migration, or writes the version.
LEMMA MigratingExecutes ==
    ASSUME RecordsInv, phase = "migrate", Execute
    PROVE  RecordsInv'
<1> USE RecordsAssumption DEF RecordsAssumption
<1>1. /\ Busy /\ work.todo # <<>> /\ view' = Statement(view, Head(work.todo)) /\ disk' = (IF work.mode = "tx" THEN disk ELSE view')
      /\ phase' = phase /\ live' = live /\ loading' = loading /\ home' = home /\ work' = [work EXCEPT !.todo = Tail(@)]
  BY DEF Execute
<1>2. loading = {} /\ disk.version <= Target /\ Migrating /\ WorkOK /\ work # NoWork /\ view.torrents = disk.torrents
  BY <1>1 DEF RecordsInv, PhaseOK, HomeOK, Busy, NoWork
<1>3. work.mode = "tx" /\ DOMAIN disk.sessions \subseteq DOMAIN view.sessions
  BY <1>2 DEF Migrating
<1>4. PICK n \in 0..Target : work.todo = MigrationsLeft(n) /\ DbOK(view, n) /\ (n >= SessionsAt => One(view))
  BY <1>1, <1>2 DEF Migrating
<1>5. WorkOK' /\ work'.todo = Tail(work.todo) /\ work'.mode = "tx" /\ disk' = disk
  BY <1>1, <1>2, <1>3, NextStatement
<1>6. ~Loaded /\ ~Loaded'
  BY <1>1 DEF Loaded
<1>7. CASE n < Target
  <2>1. Head(work.todo) = Do("migration", n + 1, {}) /\ work'.todo = MigrationsLeft(n + 1) /\ n + 1 \in 0..Target
    BY <1>4, <1>5, <1>7, MigrationsStep
  <2>2. view' = Statement(view, Do("migration", n + 1, {}))
    BY <1>1, <2>1
  <2>3. /\ DbOK(view', n + 1) /\ (n + 1 >= SessionsAt => One(view'))
        /\ view'.torrents = view.torrents /\ DOMAIN view.sessions \subseteq DOMAIN view'.sessions
    BY <1>4, <1>7, <2>2, MigrationDoes
  <2>4. DOMAIN disk.sessions \subseteq DOMAIN view'.sessions
    BY <1>3, <2>3
  <2>5. Migrating'
    BY <1>5, <2>1, <2>3, <2>4 DEF Migrating, One
  <2>6. PhaseOK'
    BY <1>1, <1>2, <1>5, <2>5 DEF PhaseOK
  <2> QED BY <1>1, <1>2, <1>5, <1>6, <2>3, <2>4, <2>6, EarlyStep
<1>8. CASE n = Target
  <2>1. Head(work.todo) = Do("user_version", Target, {}) /\ work'.todo = <<>>
    BY <1>4, <1>5, <1>8, MigrationsStep
  <2>2. view' = Statement(view, Do("user_version", Target, {})) /\ One(view)
    BY <1>1, <1>4, <1>8, <2>1
  <2>3. DbOK(view', Target) /\ view'.version = Target /\ view'.sessions = view.sessions /\ view'.torrents = view.torrents
    BY <1>4, <1>8, <2>2, VersionDoes
  <2>4. Migrating'
    BY <1>3, <1>5, <2>1, <2>2, <2>3 DEF Migrating, One
  <2>5. PhaseOK'
    BY <1>1, <1>2, <1>5, <2>4 DEF PhaseOK
  <2> QED BY <1>1, <1>2, <1>3, <1>5, <1>6, <2>3, <2>5, EarlyStep
<1> QED BY <1>7, <1>8

LEMMA ExecuteKeeps == RecordsInv /\ Execute => RecordsInv'
<1> SUFFICES ASSUME RecordsInv, Execute PROVE RecordsInv'
  OBVIOUS
<1>1. Busy /\ work # NoWork
  BY DEF Execute, Busy, NoWork
<1>2. phase = "migrate" \/ (phase = "serve" /\ (Adding \/ Removing \/ Updating \/ Others))
  BY <1>1 DEF RecordsInv, PhaseOK, Serving
<1> QED BY <1>2, MigratingExecutes, AddingExecutes, RemovingExecutes, UpdatingExecutes, OthersExecute

\* A statement or a commit fails: the handler leaves no trace in the database.
LEMMA FailKeeps == RecordsInv /\ Fail => RecordsInv'
<1> SUFFICES ASSUME RecordsInv, Fail PROVE RecordsInv'
  OBVIOUS
<1>1. /\ Busy /\ work # NoWork /\ view' = disk /\ work' = NoWork /\ disk' = disk
      /\ phase' = (IF phase = "migrate" THEN "down" ELSE phase) /\ live' = live /\ loading' = loading /\ home' = home
  BY DEF Fail, Busy, NoWork
<1>2. WorkOK' /\ view.torrents = disk.torrents
  BY <1>1 DEF WorkOK, NoWork, RecordsInv, HomeOK
<1>3. CASE phase = "migrate"
  <2>1. ~Loaded /\ ~Loaded' /\ PhaseOK'
    BY <1>1, <1>3 DEF Loaded, RecordsInv, PhaseOK
  <2> QED BY <1>1, <1>2, <2>1, EarlyStep
<1>4. CASE phase = "serve"
  <2>1. disk.version = Target /\ DbOK(disk, Target) /\ DOMAIN live \subseteq DOMAIN disk.sessions /\ phase' = phase
    BY <1>1, <1>4 DEF RecordsInv, PhaseOK, DiskOK, LiveOK, Loaded
  <2>2. Serving'
    BY <1>1, <2>1 DEF Serving
  <2> QED BY <1>1, <1>2, <1>4, <2>1, <2>2, ServeStep
<1> QED BY <1>1, <1>3, <1>4 DEF RecordsInv, PhaseOK

\* The process starts.
LEMMA BootKeeps == RecordsInv /\ Boot => RecordsInv'
<1> SUFFICES ASSUME RecordsInv, Boot PROVE RecordsInv'
  OBVIOUS
<1> USE RecordsAssumption DEF RecordsAssumption
<1>1. /\ phase = "down" /\ disk.version <= Target /\ phase' = "migrate" /\ view' = disk /\ disk' = disk
      /\ work' = (IF disk.version = Target THEN NoWork ELSE Transaction(ToMigrate(disk.version), "nothing", 0, <<>>))
      /\ live' = live /\ loading' = loading /\ home' = home
  BY DEF Boot
<1>2. loading = {} /\ DiskOK /\ disk.version \in 0..Target
  BY <1>1 DEF RecordsInv, PhaseOK, DiskOK, DbOK
<1>3. ~Loaded /\ ~Loaded' /\ WorkOK'
  BY <1>1 DEF Loaded, WorkOK, NoWork, Transaction
<1>4. CASE disk.version = Target
  <2>1. Migrating'
    BY <1>1, <1>4 DEF Migrating
  <2>2. PhaseOK'
    BY <1>1, <1>2, <2>1 DEF PhaseOK
  <2> QED BY <1>1, <1>3, <2>2, EarlyStep
<1>5. CASE disk.version # Target
  <2>1. work'.todo = MigrationsLeft(disk.version) /\ work'.mode = "tx"
    BY <1>1, <1>2, <1>5, ToMigrateIs DEF Transaction
  <2>2. Migrating'
    BY <1>1, <1>2, <2>1 DEF Migrating, DiskOK, One
  <2>3. PhaseOK'
    BY <1>1, <1>2, <2>2 DEF PhaseOK
  <2> QED BY <1>1, <1>3, <2>3, EarlyStep
<1> QED BY <1>4, <1>5

-----------------------------------------------------------------------------
(* The other steps                                                            *)

\* The rest of a handler loads a new session or renames one, and moves no torrent.
LEMMA FollowedIs ==
    ASSUME RecordsInv, phase = "serve", Busy, work.todo = <<>>, live' = Followed
    PROVE  /\ live' = [i \in DOMAIN live' |-> live'[i]] /\ DOMAIN live \subseteq DOMAIN live'
           /\ DOMAIN live' \subseteq DOMAIN view.sessions
           /\ \A i \in DOMAIN live' : live'[i] = [name |-> live'[i].name, tracked |-> live'[i].tracked]
           /\ \A i \in DOMAIN live' : live'[i].tracked = IF i \in DOMAIN live THEN live[i].tracked ELSE {}
<1>1. LiveOK /\ DOMAIN live \subseteq DOMAIN view.sessions /\ work # NoWork /\ Serving
  BY DEF RecordsInv, LiveOK, Loaded, Busy, NoWork, PhaseOK
<1>2. CASE work.then = "load"
  <2>1. work.id \notin DOMAIN live /\ work.id \in DOMAIN view.sessions
    BY <1>1, <1>2 DEF Serving, Adding, Removing, Updating, Others, Do
  <2> DEFINE nm == view.sessions[work.id].name
             k == work.id
  <2>2. live' = Extend(live, k, [name |-> nm, tracked |-> {}])
    BY <1>2 DEF Followed
  <2> HIDE DEF nm, k
  <2>3. /\ DOMAIN live' = DOMAIN live \cup {k} /\ live' = [i \in DOMAIN live' |-> live'[i]]
        /\ live'[k] = [name |-> nm, tracked |-> {}] /\ k \notin DOMAIN live
        /\ \A i \in DOMAIN live : live'[i] = live[i]
    BY <2>1, <2>2 DEF Extend, k
  <2>4. live'[k] = [name |-> live'[k].name, tracked |-> live'[k].tracked] /\ live'[k].tracked = {}
    <3> DEFINE r == live'[k]
    <3>1. r = [name |-> nm, tracked |-> {}]
      BY <2>3
    <3> HIDE DEF r
    <3>2. r = [name |-> r.name, tracked |-> r.tracked] /\ r.tracked = {}
      BY <3>1
    <3> QED BY <3>2 DEF r
  <2>5. DOMAIN live' \subseteq DOMAIN view.sessions
    BY <1>1, <2>1, <2>3 DEF k
  <2>6. \A i \in DOMAIN live : live[i] = [name |-> live[i].name, tracked |-> live[i].tracked]
    BY <1>1 DEF LiveOK
  <2> QED BY <2>3, <2>4, <2>5, <2>6
<1>3. CASE work.then = "rename" /\ work.id \in DOMAIN live
  <2> DEFINE nm == view.sessions[work.id].name
             k == work.id
  <2>1. live' = [live EXCEPT ![k].name = nm] /\ k \in DOMAIN live
    BY <1>3 DEF Followed
  <2> HIDE DEF nm, k
  <2>2. DOMAIN live' = DOMAIN live /\ live' = [i \in DOMAIN live' |-> live'[i]]
    BY <2>1
  <2>3. ASSUME NEW i \in DOMAIN live
        PROVE  \E x : live'[i] = [name |-> x, tracked |-> live[i].tracked]
    <3>1. live[i] = [name |-> live[i].name, tracked |-> live[i].tracked]
      BY <1>1 DEF LiveOK
    <3>2. live'[i] = IF i = k THEN [live[i] EXCEPT !.name = nm] ELSE live[i]
      BY <2>1
    <3> QED BY <3>1, <3>2
  <2>4. ASSUME NEW i \in DOMAIN live
        PROVE  live'[i] = [name |-> live'[i].name, tracked |-> live'[i].tracked] /\ live'[i].tracked = live[i].tracked
    <3> DEFINE r == live'[i]
               q == live[i].tracked
    <3>1. \E x : r = [name |-> x, tracked |-> q]
      BY <2>3
    <3> HIDE DEF r, q
    <3>2. r = [name |-> r.name, tracked |-> r.tracked] /\ r.tracked = q
      BY <3>1
    <3> QED BY <3>2 DEF r, q
  <2> QED BY <1>1, <2>2, <2>4
<1>4. CASE live' = live
  BY <1>1, <1>4 DEF LiveOK
<1>5. work.then = "load" \/ (work.then = "rename" /\ work.id \in DOMAIN live) \/ live' = live
  BY DEF Followed
<1> QED BY <1>2, <1>3, <1>4, <1>5

LEMMA CommitKeeps == RecordsInv /\ Commit => RecordsInv'
<1> SUFFICES ASSUME RecordsInv, Commit PROVE RecordsInv'
  OBVIOUS
<1> USE RecordsAssumption DEF RecordsAssumption
<1>1. /\ phase = "serve" /\ Busy /\ work.todo = <<>> /\ disk' = view /\ live' = Followed /\ work' = NoWork
      /\ view' = view /\ phase' = phase /\ loading' = loading /\ home' = home
  BY DEF Commit
<1>2. DbOK(view, Target) /\ view.version = Target /\ loading = {} /\ Serving /\ work # NoWork
  BY <1>1 DEF RecordsInv, PhaseOK, Serving, Busy, NoWork
<1>3. One(view)
  <2>1. ASSUME NEW x, NEW y PROVE <<x>> # <<>> /\ <<x, y>> # <<>>
    OBVIOUS
  <2> QED BY <1>1, <1>2, <2>1 DEF Serving, Adding, Removing, Updating, Others
<1>4. DiskOK'
  BY <1>1, <1>2, <1>3 DEF DiskOK, One
<1>5. PhaseOK'
  BY <1>1, <1>2 DEF PhaseOK, Serving
<1>6. WorkOK'
  BY <1>1 DEF WorkOK, NoWork
<1>7. /\ live' = [i \in DOMAIN live' |-> live'[i]] /\ DOMAIN live \subseteq DOMAIN live'
      /\ DOMAIN live' \subseteq DOMAIN view.sessions
      /\ \A i \in DOMAIN live' : live'[i] = [name |-> live'[i].name, tracked |-> live'[i].tracked]
      /\ \A i \in DOMAIN live' : live'[i].tracked = IF i \in DOMAIN live THEN live[i].tracked ELSE {}
  BY <1>1, FollowedIs
<1>8. LiveOK'
  BY <1>1, <1>7 DEF LiveOK
<1>9. HomeOK'
  <2> SUFFICES ASSUME NEW h \in TorrentIds PROVE HomeOf(h)'
    BY <1>1 DEF RecordsInv, HomeOK
  <2>1. HomeOf(h) /\ Loaded /\ Loaded' /\ view.torrents = disk.torrents
    BY <1>1 DEF RecordsInv, HomeOK, Loaded
  <2> QED BY <1>1, <1>7, <2>1 DEF HomeOf
<1> QED BY <1>4, <1>5, <1>6, <1>8, <1>9 DEF RecordsInv

\* The subscriber, the counters and the bounds are no part of the invariant.
LEMMA SameKeeps ==
    ASSUME RecordsInv, UNCHANGED <<disk, view, work, phase, live, outstanding, loading, home>>
    PROVE  RecordsInv'
<1>1. DiskOK'
  BY DEF RecordsInv, DiskOK, One
<1>2. Busy' = Busy /\ Adding' = Adding /\ Removing' = Removing /\ Updating' = Updating /\ Others' = Others /\ Migrating' = Migrating
  BY DEF Busy, Adding, Removing, Updating, Others, Migrating, One
<1>3. PhaseOK'
  BY <1>2 DEF RecordsInv, PhaseOK, Serving
<1>4. WorkOK' /\ LiveOK'
  BY DEF RecordsInv, WorkOK, LiveOK, Loaded
<1>5. HomeOK'
  <2> SUFFICES ASSUME NEW h \in TorrentIds PROVE HomeOf(h)'
    BY DEF RecordsInv, HomeOK
  <2>1. HomeOf(h)
    BY DEF RecordsInv, HomeOK
  <2> QED BY <2>1 DEF HomeOf, Loaded
<1> QED BY <1>1, <1>3, <1>4, <1>5 DEF RecordsInv

\* A torrent is added to a session that is loaded.
LEMMA AddTorrentKeeps ==
    ASSUME RecordsInv, NEW h \in TorrentIds, NEW s, NEW p, AddTorrent(h, s, p)
    PROVE  RecordsInv'
<1>1. /\ phase = "serve" /\ ~Busy /\ home[h] = NoSession /\ h \notin DOMAIN view.torrents
      /\ disk' = disk /\ view' = view /\ work' = work /\ phase' = phase /\ loading' = loading
  BY DEF AddTorrent
<1>2. PICK t \in DOMAIN view.sessions \cap DOMAIN live :
          live' = [live EXCEPT ![t].tracked = @ \cup {h}] /\ home' = [home EXCEPT ![h] = t]
  BY DEF AddTorrent
<1>3. work = NoWork /\ view = disk /\ DbOK(view, Target) /\ view.version = Target /\ One(view) /\ loading = {}
  BY <1>1, AtRest
<1>4. DiskOK' /\ PhaseOK' /\ WorkOK'
  BY <1>1, <1>3 DEF RecordsInv, DiskOK, One, PhaseOK, Serving, WorkOK
<1>5. LiveOK /\ DOMAIN live \subseteq DOMAIN view.sessions /\ NoSession \notin DOMAIN view.sessions
  <2>1. DOMAIN view.sessions \subseteq 1..view.seq /\ view.seq \in Nat
    BY <1>3, RecordsAssumption DEF DbOK, RecordsAssumption
  <2> QED BY <1>1, <2>1 DEF RecordsInv, LiveOK, Loaded, NoSession
<1>6. /\ DOMAIN live' = DOMAIN live /\ live' = [i \in DOMAIN live' |-> live'[i]]
      /\ \A i \in DOMAIN live :
            live'[i] = [name |-> live[i].name, tracked |-> IF i = t THEN live[i].tracked \cup {h} ELSE live[i].tracked]
  <2>1. DOMAIN live' = DOMAIN live /\ live' = [i \in DOMAIN live' |-> live'[i]]
    BY <1>2
  <2>2. ASSUME NEW i \in DOMAIN live
        PROVE  live'[i] = [name |-> live[i].name, tracked |-> IF i = t THEN live[i].tracked \cup {h} ELSE live[i].tracked]
    <3> DEFINE nm == live[i].name
               tr == live[i].tracked
    <3>1. live[i] = [name |-> nm, tracked |-> tr]
      BY <1>5 DEF LiveOK
    <3>2. live'[i] = IF i = t THEN [live[i] EXCEPT !.tracked = live[i].tracked \cup {h}] ELSE live[i]
      BY <1>2
    <3> HIDE DEF nm, tr
    <3>3. live'[i] = [name |-> nm, tracked |-> IF i = t THEN tr \cup {h} ELSE tr]
      BY <3>1, <3>2 DEF tr
    <3> QED BY <3>3 DEF nm, tr
  <2> QED BY <2>1, <2>2
<1>7. \A i \in DOMAIN live : /\ live'[i] = [name |-> live'[i].name, tracked |-> live'[i].tracked]
                             /\ live'[i].tracked = IF i = t THEN live[i].tracked \cup {h} ELSE live[i].tracked
  <2> TAKE i \in DOMAIN live
  <2> DEFINE r == live'[i]
             q == IF i = t THEN live[i].tracked \cup {h} ELSE live[i].tracked
  <2>1. \E x : r = [name |-> x, tracked |-> q]
    BY <1>6
  <2> HIDE DEF r, q
  <2>2. r = [name |-> r.name, tracked |-> r.tracked] /\ r.tracked = q
    BY <2>1
  <2> QED BY <2>2 DEF r, q
<1>8. LiveOK'
  BY <1>1, <1>5, <1>6, <1>7 DEF LiveOK, Loaded
<1>9. HomeOK'
  <2>1. home' = [g \in DOMAIN home' |-> home'[g]] /\ DOMAIN home' = DOMAIN home /\ HomeOK
    BY <1>2 DEF RecordsInv, HomeOK
  <2> SUFFICES ASSUME NEW g \in TorrentIds PROVE HomeOf(g)'
    BY <1>1, <2>1 DEF HomeOK
  <2>2. HomeOf(g) /\ HomeOf(h) /\ Loaded /\ Loaded' /\ home'[g] = (IF g = h THEN t ELSE home[g])
    BY <1>1, <1>2, <2>1 DEF HomeOK, Loaded
  <2>3. CASE g = h
    <3>1. \A i \in DOMAIN live : h \notin live[i].tracked
      BY <1>1, <1>5, <2>2 DEF HomeOf
    <3> QED BY <1>1, <1>2, <1>3, <1>6, <1>7, <2>2, <2>3, <3>1 DEF HomeOf
  <2>4. CASE g # h
    <3>1. \A i \in DOMAIN live : g \in live'[i].tracked <=> g \in live[i].tracked
      BY <1>7, <2>4
    <3> QED BY <1>1, <1>6, <2>2, <2>4, <3>1 DEF HomeOf
  <2> QED BY <2>3, <2>4
<1> QED BY <1>4, <1>8, <1>9 DEF RecordsInv

\* The row of a torrent is inserted for the session that accepted it.
LEMMA StoreTorrentKeeps ==
    ASSUME RecordsInv, NEW i \in DOMAIN live, NEW h \in TorrentIds, StoreTorrent(i, h)
    PROVE  RecordsInv'
<1> USE RecordsAssumption DEF RecordsAssumption
<1>1. /\ phase = "serve" /\ ~Busy /\ h \in live[i].tracked /\ disk' = view'
      /\ view' = [view EXCEPT !.torrents = Extend(@, h, i)]
      /\ work' = work /\ phase' = phase /\ live' = live /\ loading' = loading /\ home' = home
  BY DEF StoreTorrent
<1>2. work = NoWork /\ view = disk /\ DbOK(view, Target) /\ view.version = Target /\ One(view) /\ loading = {}
  BY <1>1, AtRest
<1>3. /\ IsDb(view') /\ view'.version = view.version /\ view'.applied = view.applied /\ view'.sessions = view.sessions
      /\ view'.seq = view.seq /\ view'.torrents = Extend(view.torrents, h, i)
  BY <1>1, <1>2 DEF DbOK, IsDb
<1>4. /\ DOMAIN view'.torrents = DOMAIN view.torrents \cup {h} /\ view'.torrents[h] = i
      /\ view'.torrents = [g \in DOMAIN view'.torrents |-> view'.torrents[g]]
      /\ \A g \in DOMAIN view.torrents : g # h => view'.torrents[g] = view.torrents[g]
  BY <1>3 DEF Extend
<1>5. "orphan" \in DOMAIN view'.torrents => "orphan" \in DOMAIN view.torrents
  BY <1>4
<1>6. ~(Target < SessionsAt) /\ ~(Target < SeedAt) /\ SeedAt <= Target
  OBVIOUS
<1>7. DbOK(view', Target)
  BY <1>2, <1>3, <1>5, <1>6 DEF DbOK
<1>8. DiskOK' /\ PhaseOK' /\ WorkOK'
  BY <1>1, <1>2, <1>3, <1>7 DEF RecordsInv, DiskOK, One, PhaseOK, Serving, WorkOK
<1>9. LiveOK'
  BY <1>1, <1>2, <1>3 DEF RecordsInv, LiveOK, Loaded
<1>10. HomeOK'
  <2> SUFFICES ASSUME NEW g \in TorrentIds PROVE HomeOf(g)'
    BY <1>1, <1>4 DEF RecordsInv, HomeOK
  <2>1. HomeOf(g) /\ HomeOf(h) /\ Loaded /\ Loaded'
    BY <1>1 DEF RecordsInv, HomeOK, Loaded
  <2>2. home[h] = i
    BY <1>1, <2>1 DEF HomeOf
  <2> QED BY <1>1, <1>2, <1>3, <1>4, <2>1, <2>2 DEF HomeOf
<1> QED BY <1>8, <1>9, <1>10 DEF RecordsInv

\* The migrations commit and the sessions are loaded, with the torrents that are stored.
LEMMA LoadSessionsKeeps == RecordsInv /\ LoadSessions => RecordsInv'
<1> SUFFICES ASSUME RecordsInv, LoadSessions PROVE RecordsInv'
  OBVIOUS
<1> USE RecordsAssumption DEF RecordsAssumption
<1>1. /\ phase = "migrate" /\ work.todo = <<>> /\ disk' = view /\ work' = NoWork /\ phase' = "load"
      /\ loading' = DOMAIN view.sessions /\ outstanding' = Cardinality(DOMAIN view.sessions)
      /\ view' = view /\ home' = home
  BY DEF LoadSessions
<1>2. live' = [i \in DOMAIN view.sessions |->
                   [name |-> view.sessions[i].name, tracked |-> {h \in DOMAIN view.torrents : view.torrents[h] = i}]]
  BY DEF LoadSessions
<1>3. Migrating /\ view.torrents = disk.torrents
  BY <1>1 DEF RecordsInv, PhaseOK, HomeOK
<1>4. view.version = Target /\ DbOK(view, Target) /\ One(view) /\ DOMAIN disk.sessions \subseteq DOMAIN view.sessions
  <2>1. CASE view = disk /\ disk.version = Target
    BY <2>1 DEF RecordsInv, DiskOK
  <2>2. CASE ~(view = disk /\ disk.version = Target)
    <3>1. \A n \in 0..Target : MigrationsLeft(n) # <<>>
      BY MigrationsStep
    <3> QED BY <1>1, <1>3, <2>2, <3>1 DEF Migrating
  <2> QED BY <2>1, <2>2
<1>5. DiskOK'
  BY <1>1, <1>4 DEF DiskOK, One
<1>6. IsFiniteSet(DOMAIN view.sessions)
  <2>1. view.seq \in Nat /\ DOMAIN view.sessions \subseteq 1..view.seq
    BY <1>4 DEF DbOK
  <2>2. 1 \in Int /\ view.seq \in Int
    BY <2>1
  <2>3. IsFiniteSet(1..view.seq)
    BY ONLY <2>2, FS_Interval
  <2> QED BY <2>1, <2>3, FS_Subset
<1>7. PhaseOK' /\ WorkOK'
  BY <1>1, <1>4, <1>6 DEF PhaseOK, WorkOK, NoWork
<1>8. DOMAIN live' = DOMAIN view.sessions /\ live' = [i \in DOMAIN live' |-> live'[i]]
  BY <1>2
<1>9. \A i \in DOMAIN live' : /\ live'[i] = [name |-> live'[i].name, tracked |-> live'[i].tracked]
                              /\ live'[i].tracked = {h \in DOMAIN view.torrents : view.torrents[h] = i}
  <2> TAKE i \in DOMAIN live'
  <2> DEFINE r == live'[i]
             q == {h \in DOMAIN view.torrents : view.torrents[h] = i}
  <2>1. \E x : r = [name |-> x, tracked |-> q]
    BY <1>2
  <2> HIDE DEF r, q
  <2>2. r = [name |-> r.name, tracked |-> r.tracked] /\ r.tracked = q
    BY <2>1
  <2> QED BY <2>2 DEF r, q
<1>10. LiveOK'
  BY <1>1, <1>8, <1>9 DEF LiveOK
<1>11. HomeOK'
  <2> SUFFICES ASSUME NEW h \in TorrentIds PROVE HomeOf(h)'
    BY <1>1, <1>3 DEF RecordsInv, HomeOK
  <2>1. HomeOf(h) /\ ~Loaded /\ Loaded'
    BY <1>1 DEF RecordsInv, HomeOK, Loaded
  <2>2. h \in DOMAIN view.torrents => view.torrents[h] = home[h]
    BY <1>3, <2>1 DEF HomeOf
  <2>3. home[h] # NoSession => home[h] \in DOMAIN view.sessions /\ h \in DOMAIN view.torrents
    BY <1>3, <1>4, <2>1 DEF HomeOf
  <2>4. home[h] # NoSession => home[h] \in DOMAIN live' /\ h \in live'[home[h]].tracked
    BY <1>8, <1>9, <2>2, <2>3
  <2>5. \A i \in DOMAIN live' : h \in live'[i].tracked => home[h] = i
    BY <1>9, <2>2
  <2> QED BY <1>1, <2>1, <2>2, <2>3, <2>4, <2>5 DEF HomeOf
<1> QED BY <1>5, <1>7, <1>10, <1>11 DEF RecordsInv

\* A session has loaded; with the last one the count is zero.
LEMMA SessionLoadedKeeps ==
    ASSUME RecordsInv, NEW i \in loading, SessionLoaded(i)
    PROVE  RecordsInv'
<1> USE RecordsAssumption DEF RecordsAssumption
<1>1. /\ loading' = loading \ {i} /\ outstanding' = outstanding - 1
      /\ disk' = disk /\ view' = view /\ work' = work /\ live' = live /\ home' = home
      /\ outstanding' > 0 => phase' = phase
      /\ ~(outstanding' > 0) => phase' = "serve"
  BY DEF SessionLoaded
<1>2. /\ phase = "load" /\ disk.version = Target /\ work = NoWork /\ view = disk
      /\ IsFiniteSet(loading) /\ outstanding = Cardinality(loading)
  BY DEF RecordsInv, PhaseOK
<1>3. IsFiniteSet(loading') /\ outstanding' = Cardinality(loading') /\ outstanding' \in Nat
  <2>1. IsFiniteSet(loading \ {i}) /\ Cardinality(loading \ {i}) = Cardinality(loading) - 1
    <3>1. IsFiniteSet(loading) /\ i \in loading
      BY <1>2
    <3> DEFINE left == loading \ {i}
    <3>2. IsFiniteSet(left) /\ Cardinality(left) = IF i \in loading THEN Cardinality(loading) - 1 ELSE Cardinality(loading)
      BY ONLY <3>1, FS_RemoveElement, Zenon
    <3> HIDE DEF left
    <3>3. IsFiniteSet(left) /\ Cardinality(left) = Cardinality(loading) - 1
      BY <3>1, <3>2
    <3> QED BY <3>3 DEF left
  <2>2. Cardinality(loading \ {i}) \in Nat
    BY <2>1, FS_CardinalityType
  <2> QED BY <1>1, <1>2, <2>1, <2>2
<1>4. Loaded /\ Loaded'
  BY <1>1, <1>2 DEF Loaded
<1>5. DbOK(disk, Target)
  BY <1>2 DEF RecordsInv, DiskOK
<1>6. PhaseOK'
  <2>1. CASE outstanding' > 0
    BY <1>1, <1>2, <1>3, <2>1 DEF PhaseOK
  <2>2. CASE ~(outstanding' > 0)
    <3>1. outstanding' = 0
      BY <1>3, <2>2
    <3>2. loading' = {}
      BY <1>3, <3>1, FS_EmptySet
    <3> QED BY <1>1, <1>2, <1>5, <2>2, <3>2 DEF PhaseOK, Serving
  <2> QED BY <2>1, <2>2
<1>7. DiskOK' /\ WorkOK' /\ LiveOK'
  BY <1>1, <1>2, <1>4 DEF RecordsInv, DiskOK, One, WorkOK, LiveOK
<1>8. HomeOK'
  <2> SUFFICES ASSUME NEW h \in TorrentIds PROVE HomeOf(h)'
    BY <1>1 DEF RecordsInv, HomeOK
  <2>1. HomeOf(h)
    BY DEF RecordsInv, HomeOK
  <2> QED BY <1>1, <1>4, <2>1 DEF HomeOf
<1> QED BY <1>6, <1>7, <1>8 DEF RecordsInv

LEMMA CrashKeeps == RecordsInv /\ Crash => RecordsInv'
<1> SUFFICES ASSUME RecordsInv, Crash PROVE RecordsInv'
  OBVIOUS
<1>1. phase' = "down" /\ view' = disk /\ work' = NoWork /\ live' = <<>> /\ loading' = {} /\ disk' = disk
  BY DEF Crash
<1>2. home' = [h \in DOMAIN home |-> IF h \in DOMAIN disk.torrents THEN home[h] ELSE NoSession]
  BY DEF Crash
<1>3. DiskOK' /\ PhaseOK' /\ WorkOK' /\ ~Loaded'
  BY <1>1 DEF RecordsInv, DiskOK, One, PhaseOK, WorkOK, NoWork, Loaded
<1>4. LiveOK'
  BY <1>1, <1>3 DEF LiveOK
<1>5. HomeOK'
  <2>1. DOMAIN home' = DOMAIN home /\ home' = [h \in DOMAIN home' |-> home'[h]] /\ HomeOK
    BY <1>2 DEF RecordsInv
  <2> SUFFICES ASSUME NEW h \in TorrentIds PROVE HomeOf(h)'
    BY <1>1, <2>1 DEF HomeOK
  <2>2. HomeOf(h) /\ home'[h] = (IF h \in DOMAIN disk.torrents THEN home[h] ELSE NoSession)
    BY <1>2, <2>1 DEF HomeOK
  <2> QED BY <1>1, <1>3, <2>2 DEF HomeOf
<1> QED BY <1>3, <1>4, <1>5 DEF RecordsInv

LEMMA RecordsStep == RecordsInv /\ [RecordsNext]_recordVars => RecordsInv'
<1> SUFFICES ASSUME RecordsInv, [RecordsNext]_recordVars PROVE RecordsInv'
  OBVIOUS
<1>1. CASE UNCHANGED recordVars
  BY <1>1, SameKeeps DEF recordVars
<1>2. CASE Handler
  BY <1>2, HandlerKeeps
<1>3. CASE Execute \/ Fail \/ Commit
  BY <1>3, ExecuteKeeps, FailKeeps, CommitKeeps
<1>4. CASE DeliverRecord
  BY <1>4, SameKeeps DEF DeliverRecord
<1>5. ASSUME NEW h \in TorrentIds, NEW s \in 0..MaxSessionId, NEW p \in 0..MaxPresetId, AddTorrent(h, s, p)
      PROVE  RecordsInv'
  BY <1>5, AddTorrentKeeps
<1>6. ASSUME NEW i \in DOMAIN live, NEW h \in TorrentIds, StoreTorrent(i, h) PROVE RecordsInv'
  BY <1>6, StoreTorrentKeeps
<1>7. CASE Boot \/ LoadSessions \/ Crash
  BY <1>7, BootKeeps, LoadSessionsKeeps, CrashKeeps
<1>8. ASSUME NEW i \in loading, SessionLoaded(i) PROVE RecordsInv'
  BY <1>8, SessionLoadedKeeps
<1> QED BY <1>1, <1>2, <1>3, <1>4, <1>5, <1>6, <1>7, <1>8 DEF RecordsNext

-----------------------------------------------------------------------------
(* What the subscriber knows                                                  *)

\* What a queue of events is about.
Told(q) == {q[n] : n \in DOMAIN q}

IsQueue(q) == q \in Seq(Told(q)) /\ \A e \in Told(q) : e = <<e[1], e[2]>> /\ e[1] \in {"presets", "kvs", "sessions"}

\* Two tables are the same, except for what the events E are about.
Agree(f, g, table, E) ==
    \A k \in DOMAIN f \cup DOMAIN g : (k \in DOMAIN f /\ k \in DOMAIN g /\ f[k] = g[k]) \/ <<table, k>> \in E

IsPreset(r) == r = [name |-> r.name, default |-> r.default, session |-> r.session] /\ r.default \in {0, 1}

\* The shape of presets and key-value pairs.
TablesOK(d) ==
    /\ IsFiniteSet(DOMAIN d.presets) /\ d.presets = [p \in DOMAIN d.presets |-> d.presets[p]]
    /\ \A p \in DOMAIN d.presets : IsPreset(d.presets[p])
    /\ d.kvs = [k \in DOMAIN d.kvs |-> d.kvs[k]]

\* The statements that depend on other rows come first.
FirstOps == {"insertPreset", "noDefaultPreset", "clearSessions"}

SessionOps == {"insertSession", "removeSession", "noDefault", "setDefault", "updateSession"}

\* The events E name every preset and pair that the statement s changes in d.
Announced(d, s, E) ==
    /\ s.op \in OtherOps \cup SessionOps
    /\ s.op = "insertPreset" => <<"presets", d.presetSeq + 1>> \in E /\ IsPreset(s.row)
    /\ s.op \in {"removePreset", "updatePreset"} => <<"presets", s.id>> \in E
    /\ s.op = "updatePreset" => IsPreset(s.row)
    /\ s.op = "noDefaultPreset" => \A p \in Defaults(d.presets) : <<"presets", p>> \in E
    /\ s.op = "clearSessions" => \A p \in DOMAIN d.presets : d.presets[p].session = s.id => <<"presets", p>> \in E
    /\ s.op = "setKey" => <<"kvs", s.id>> \in E

\* The n-th statement of the handler w, which found the database d.
StatementOf(w, d, n) ==
    /\ Announced(d, w.todo[n], Told(w.events))
    /\ n > 1 => w.todo[n].op \notin FirstOps
    /\ w.todo[n].op = "updateSession" => w.todo[n].id = w.id /\ w.then = "rename"

\* The events of a handler name all that it changes.
ScriptOf(w, d) ==
    /\ IsQueue(w.events) /\ w.todo \in Seq(Told(w.todo))
    /\ \A n \in DOMAIN w.todo : StatementOf(w, d, n)
    /\ w.mode = "auto" => (w.todo = <<>> \/ Len(w.todo) = 1) /\ w.then # "rename"
    /\ w.then = "load" => <<"sessions", w.id>> \in Told(w.events)

ScriptOK ==
    /\ ScriptOf(work, view)
    /\ work.then = "rename" /\ work.id \in DOMAIN live => <<"sessions", work.id>> \in Told(work.events)

LiveNames == [i \in DOMAIN live |-> live[i].name]

\* A loaded session has the name of its row; an update renames it at its commit.
NameOK(i) ==
    /\ live[i].name = disk.sessions[i].name
    /\ view.sessions[i].name = disk.sessions[i].name \/ (work.then = "rename" /\ work.id = i)

\* What the subscriber will hear of: posted, or published by a handler that has committed.
Known == Told(posted) \cup (IF work.mode = "auto" /\ work.todo = <<>> THEN Told(work.events) ELSE {})

\* What the subscriber does not know is announced.
MirrorOK ==
    /\ Agree(disk.presets, view.presets, "presets", Told(work.events)) /\ Agree(disk.kvs, view.kvs, "kvs", Told(work.events))
    /\ Agree(mirror.presets, disk.presets, "presets", Known) /\ Agree(mirror.kvs, disk.kvs, "kvs", Known)
    /\ Agree(mirror.sessions, LiveNames, "sessions", Told(posted))

IsTable(f) == f = [k \in DOMAIN f |-> f[k]]

MirrorShape ==
    /\ mirror = [presets |-> mirror.presets, sessions |-> mirror.sessions, kvs |-> mirror.kvs]
    /\ IsTable(mirror.presets) /\ IsTable(mirror.kvs) /\ IsTable(mirror.sessions)

MirrorInv ==
    /\ TablesOK(disk) /\ TablesOK(view) /\ IsQueue(posted) /\ MirrorShape
    /\ Loaded => \A i \in DOMAIN live : NameOK(i)
    /\ phase = "serve" => ScriptOK /\ MirrorOK
    /\ phase # "serve" => posted = <<>>

LEMMA AgreeSelf ==
    ASSUME NEW f, NEW t, NEW E
    PROVE  Agree(f, f, t, E)
BY DEF Agree

LEMMA AgreeMore ==
    ASSUME NEW f, NEW g, NEW t, NEW E, Agree(f, g, t, E), NEW F, E \subseteq F
    PROVE  Agree(f, g, t, F)
BY DEF Agree

LEMMA AgreeTrans ==
    ASSUME NEW f, NEW g, NEW h, NEW t, NEW E, NEW F, Agree(f, g, t, E), Agree(g, h, t, F)
    PROVE  Agree(f, h, t, E \cup F)
BY DEF Agree

LEMMA AgreeEqual ==
    ASSUME NEW f, NEW g, NEW t, Agree(f, g, t, {}), IsTable(f), IsTable(g)
    PROVE  f = g
<1>1. DOMAIN f = DOMAIN g /\ \A k \in DOMAIN f : f[k] = g[k]
  BY DEF Agree
<1>2. [k \in DOMAIN f |-> f[k]] = [k \in DOMAIN g |-> g[k]]
  BY <1>1
<1> QED BY <1>2 DEF IsTable

\* Queues of events.
LEMMA QueueConcat ==
    ASSUME NEW q, NEW r, IsQueue(q), IsQueue(r)
    PROVE  IsQueue(q \o r) /\ Told(q \o r) = Told(q) \cup Told(r)
<1> DEFINE S == Told(q) \cup Told(r)
           c == q \o r
<1>1. q \in Seq(S) /\ r \in Seq(S)
  <2>1. q \in Seq(Told(q)) /\ r \in Seq(Told(r)) /\ Told(q) \subseteq S /\ Told(r) \subseteq S
    BY DEF IsQueue
  <2> HIDE DEF S
  <2> QED BY <2>1, SeqMonotonic
<1>2. /\ c \in Seq(S) /\ Len(c) = Len(q) + Len(r)
      /\ \A i \in 1..Len(q) + Len(r) : c[i] = IF i <= Len(q) THEN q[i] ELSE r[i - Len(q)]
  <2> HIDE DEF S
  <2> QED BY ONLY <1>1, ConcatProperties DEF c
<1>3. /\ Len(q) \in Nat /\ Len(r) \in Nat /\ DOMAIN q = 1..Len(q) /\ DOMAIN r = 1..Len(r) /\ DOMAIN c = 1..Len(c)
  <2> HIDE DEF S, c
  <2> QED BY <1>1, <1>2, LenProperties
<1> HIDE DEF c
<1>4. Told(c) \subseteq S
  <2> HIDE DEF S
  <2> SUFFICES ASSUME NEW i \in DOMAIN c PROVE c[i] \in S
    BY DEF Told
  <2> QED BY <1>2, <1>3, ElementOfSeq
<1>5. Told(q) \subseteq Told(c)
  <2> SUFFICES ASSUME NEW i \in DOMAIN q PROVE \E j \in DOMAIN c : c[j] = q[i]
    BY DEF Told
  <2>1. i \in 1..Len(q) + Len(r) /\ i <= Len(q)
    BY <1>3
  <2> QED BY <1>2, <1>3, <2>1
<1>6. Told(r) \subseteq Told(c)
  <2> SUFFICES ASSUME NEW i \in DOMAIN r PROVE \E j \in DOMAIN c : c[j] = r[i]
    BY DEF Told
  <2>1. i + Len(q) \in 1..Len(q) + Len(r) /\ ~(i + Len(q) <= Len(q)) /\ (i + Len(q)) - Len(q) = i
    BY <1>3
  <2>2. c[i + Len(q)] = r[(i + Len(q)) - Len(q)]
    BY <1>2, <2>1
  <2> QED BY <1>2, <1>3, <2>1, <2>2
<1>7. Told(c) = S
  BY <1>4, <1>5, <1>6
<1>8. IsQueue(c)
  BY <1>2, <1>7 DEF IsQueue
<1> QED BY <1>7, <1>8 DEF c

LEMMA QueueOne ==
    ASSUME NEW t \in {"presets", "kvs", "sessions"}, NEW k
    PROVE  IsQueue(<<<<t, k>>>>) /\ Told(<<<<t, k>>>>) = {<<t, k>>}
<1> DEFINE e == <<t, k>>
<1>1. e = <<e[1], e[2]>> /\ e[1] = t
  OBVIOUS
<1> HIDE DEF e
<1>2. Told(<<e>>) = {e} /\ <<e>> \in Seq({e})
  BY DEF Told
<1>3. IsQueue(<<e>>)
  BY <1>1, <1>2 DEF IsQueue
<1> QED BY <1>2, <1>3 DEF e

LEMMA QueueEmpty == IsQueue(<<>>) /\ Told(<<>>) = {}
<1>1. Told(<<>>) = {}
  BY DEF Told
<1> QED BY <1>1 DEF IsQueue

\* Queues that SetToSeq makes.
LEMMA QueueOfSet ==
    ASSUME NEW t \in {"presets", "kvs", "sessions"}, NEW S, IsFiniteSet(S), NEW T, T = {<<t, k>> : k \in S}
    PROVE  IsQueue(SetToSeq(T)) /\ Told(SetToSeq(T)) = T
<1>1. IsFiniteSet(T)
  <2> DEFINE f == [k \in S |-> <<t, k>>]
  <2>1. T = {f[k] : k \in S}
    OBVIOUS
  <2>2. f \in Surjection(S, T)
    BY DEF Surjection
  <2> HIDE DEF f
  <2> QED BY <2>2, FS_Surjection
<1> DEFINE q == SetToSeq(T)
           N == Cardinality(T)
<1>2. N \in Nat /\ q \in [1..N -> T] /\ \A x \in T : \E n \in 1..N : q[n] = x
  BY <1>1, SetToSeqIs
<1> HIDE DEF q, N
<1>3. DOMAIN q = 1..N /\ Told(q) = T
  BY <1>2 DEF Told
<1>4. q \in Seq(T)
  BY <1>2
<1>5. \A e \in T : e = <<e[1], e[2]>> /\ e[1] = t
  OBVIOUS
<1> QED BY <1>3, <1>4, <1>5 DEF IsQueue, q

LEMMA QueueTail ==
    ASSUME NEW q, IsQueue(q), q # <<>>
    PROVE  /\ IsQueue(Tail(q)) /\ Told(q) = {Head(q)} \cup Told(Tail(q))
           /\ Head(q) = <<Head(q)[1], Head(q)[2]>> /\ Head(q)[1] \in {"presets", "kvs", "sessions"}
<1> DEFINE S == Told(q)
           u == Tail(q)
<1>1. q \in Seq(S)
  BY DEF IsQueue
<1>7. Head(q) = q[1]
  BY <1>1
<1> HIDE DEF S
<1>2. Head(q) \in S /\ u \in Seq(S) /\ Len(u) = Len(q) - 1 /\ \A i \in 1..Len(u) : u[i] = q[i + 1]
  BY ONLY <1>1, q # <<>>, HeadTailProperties DEF u
<1>3. Len(q) \in Nat /\ Len(q) # 0 /\ DOMAIN q = 1..Len(q) /\ DOMAIN u = 1..Len(u)
  <2> HIDE DEF u
  <2> QED BY <1>1, <1>2, LenProperties, EmptySeq
<1> HIDE DEF u
<1>4. S = {Head(q)} \cup Told(u)
  <2>1. ASSUME NEW i \in DOMAIN q PROVE q[i] \in {Head(q)} \cup Told(u)
    <3>1. CASE i = 1
      BY <1>7, <3>1
    <3>2. CASE i # 1
      <4>1. i - 1 \in 1..Len(u) /\ (i - 1) + 1 = i
        BY <1>2, <1>3, <3>2
      <4>2. u[i - 1] = q[i]
        BY <1>2, <4>1
      <4> QED BY <1>3, <4>1, <4>2 DEF Told
    <3> QED BY <3>1, <3>2
  <2>2. ASSUME NEW i \in DOMAIN u PROVE u[i] \in S
    BY <1>2, <1>3, ElementOfSeq
  <2> QED BY <1>2, <2>1, <2>2 DEF Told, S
<1>5. IsQueue(u)
  <2>1. u \in Seq(Told(u))
    <3>1. \A i \in 1..Len(u) : u[i] \in Told(u)
      BY <1>3 DEF Told
    <3>2. Len(u) \in Nat /\ u \in [1..Len(u) -> S]
      BY <1>2, LenProperties
    <3> DEFINE N == Len(u)
               T == Told(u)
    <3> HIDE DEF N, T
    <3>3. N \in Nat /\ u \in [1..N -> T]
      BY <3>1, <3>2 DEF N, T
    <3>4. u \in Seq(T)
      BY ONLY <3>3, IsSequence
    <3> QED BY <3>4 DEF T
  <2> QED BY <1>4, <2>1 DEF IsQueue, S
<1>6. \A e \in S : e = <<e[1], e[2]>> /\ e[1] \in {"presets", "kvs", "sessions"}
  BY DEF IsQueue, S
<1> QED BY <1>2, <1>4, <1>5, <1>6 DEF S, u

LEMMA UnlinkedIsPreset ==
    ASSUME NEW r, IsPreset(r), NEW gone
    PROVE  IsPreset(Unlinked(r, gone))
<1>1. CASE gone
  <2> DEFINE n == r.name
             b == r.default
  <2>1. Unlinked(r, gone) = [r EXCEPT !.session = NoSession] /\ b \in {0, 1}
    BY <1>1 DEF Unlinked, IsPreset
  <2>2. Unlinked(r, gone) = [name |-> n, default |-> b, session |-> NoSession]
    BY <2>1 DEF IsPreset
  <2> HIDE DEF n, b
  <2> QED BY <2>1, <2>2 DEF IsPreset
<1>2. CASE ~gone
  BY <1>2 DEF Unlinked
<1> QED BY <1>1, <1>2

\* A migration keeps the shape of the tables, too.
LEMMA MigrationTables ==
    ASSUME NEW d, IsDb(d), TablesOK(d), NEW m, NEW e, e = Migration(d, m)
    PROVE  TablesOK(e)
<1>1. CASE ~(m # SessionsAt /\ m = SeedAt)
  <2>1. e.presets = d.presets /\ e.kvs = d.kvs
    BY <1>1 DEF IsDb, Migration, SetRow
  <2> QED BY <2>1 DEF TablesOK
<1>2. CASE m # SessionsAt /\ m = SeedAt
  <2> DEFINE f(p) == Unlinked(d.presets[p], d.presets[p].session \notin DOMAIN d.sessions)
  <2>1. e.kvs = d.kvs /\ e.presets = [p \in DOMAIN d.presets |-> f(p)]
    BY <1>2 DEF IsDb, Migration
  <2>2. \A p \in DOMAIN d.presets : IsPreset(f(p))
    BY UnlinkedIsPreset DEF TablesOK
  <2> HIDE DEF f
  <2>3. /\ DOMAIN e.presets = DOMAIN d.presets /\ e.presets = [p \in DOMAIN e.presets |-> e.presets[p]]
        /\ \A p \in DOMAIN d.presets : e.presets[p] = f(p)
    BY <2>1
  <2> QED BY <2>1, <2>2, <2>3 DEF TablesOK
<1> QED BY <1>1, <1>2

\* A statement changes what the events name, and keeps the shape of the tables.
LEMMA StatementTouches ==
    ASSUME NEW d, IsDb(d), TablesOK(d), NEW s, NEW E, Announced(d, s, E), NEW e, e = Statement(d, s)
    PROVE  /\ TablesOK(e)
           /\ Agree(d.presets, e.presets, "presets", E) /\ Agree(d.kvs, e.kvs, "kvs", E)
<1>1. CASE s.op \in SessionOps
  <2>1. e.presets = d.presets /\ e.kvs = d.kvs
    <3>1. CASE s.op = "insertSession"
      BY <3>1 DEF IsDb, Statement, SetRow
    <3>2. CASE s.op = "removeSession"
      BY <3>2 DEF IsDb, Statement
    <3>3. CASE s.op = "noDefault"
      BY <3>3 DEF IsDb, Statement
    <3>4. CASE s.op = "setDefault"
      BY <3>4 DEF IsDb, Statement
    <3>5. CASE s.op = "updateSession"
      BY <3>5 DEF IsDb, Statement
    <3> QED BY <1>1, <3>1, <3>2, <3>3, <3>4, <3>5 DEF SessionOps
  <2> QED BY <2>1, AgreeSelf DEF TablesOK
<1>2. ASSUME e.kvs = d.kvs, e.presets = [p \in DOMAIN e.presets |-> e.presets[p]], IsFiniteSet(DOMAIN e.presets),
             \A p \in DOMAIN e.presets : IsPreset(e.presets[p]), Agree(d.presets, e.presets, "presets", E)
      PROVE  /\ TablesOK(e)
             /\ Agree(d.presets, e.presets, "presets", E) /\ Agree(d.kvs, e.kvs, "kvs", E)
  BY <1>2, AgreeSelf DEF TablesOK
<1>3. CASE s.op = "insertPreset"
  <2>1. e.kvs = d.kvs /\ e.presets = Extend(d.presets, d.presetSeq + 1, s.row)
    BY <1>3 DEF IsDb, Statement, SetRow
  <2>2. <<"presets", d.presetSeq + 1>> \in E /\ IsPreset(s.row)
    BY <1>3 DEF Announced
  <2> QED BY <1>2, <2>1, <2>2, FS_AddElement DEF Extend, TablesOK, Agree
<1>4. CASE s.op = "updatePreset"
  <2>1. e.kvs = d.kvs /\ e.presets = Extend(d.presets, s.id, s.row)
    BY <1>4 DEF IsDb, Statement, SetRow
  <2>2. <<"presets", s.id>> \in E /\ IsPreset(s.row)
    BY <1>4 DEF Announced
  <2> QED BY <1>2, <2>1, <2>2, FS_AddElement DEF Extend, TablesOK, Agree
<1>5. CASE s.op = "removePreset"
  <2>1. e.kvs = d.kvs /\ e.presets = Drop(d.presets, {s.id})
    BY <1>5 DEF IsDb, Statement
  <2>2. <<"presets", s.id>> \in E
    BY <1>5 DEF Announced
  <2>3. DOMAIN e.presets = DOMAIN d.presets \ {s.id} /\ DOMAIN e.presets \subseteq DOMAIN d.presets
    BY <2>1 DEF Drop
  <2>4. IsFiniteSet(DOMAIN e.presets)
    BY <2>3, FS_Subset DEF TablesOK
  <2> QED BY <1>2, <2>1, <2>2, <2>4 DEF Drop, TablesOK, Agree
<1>6. ASSUME e.kvs = d.kvs, DOMAIN e.presets = DOMAIN d.presets, e.presets = [p \in DOMAIN e.presets |-> e.presets[p]],
             \A p \in DOMAIN d.presets : IsPreset(e.presets[p]) /\ (e.presets[p] = d.presets[p] \/ <<"presets", p>> \in E)
      PROVE  /\ TablesOK(e)
             /\ Agree(d.presets, e.presets, "presets", E) /\ Agree(d.kvs, e.kvs, "kvs", E)
  BY <1>2, <1>6 DEF TablesOK, Agree
<1>7. CASE s.op = "noDefaultPreset"
  <2> DEFINE f(p) == [d.presets[p] EXCEPT !.default = 0]
  <2>1. e.kvs = d.kvs /\ e.presets = [p \in DOMAIN d.presets |-> f(p)]
    BY <1>7 DEF IsDb, Statement, ClearDefaults
  <2>2. ASSUME NEW p \in DOMAIN d.presets PROVE IsPreset(f(p)) /\ (f(p) = d.presets[p] \/ <<"presets", p>> \in E)
    <3> DEFINE r == d.presets[p]
    <3>1. IsPreset(r)
      BY DEF TablesOK
    <3>2. r.default = 1 => <<"presets", p>> \in E
      BY <1>7 DEF Announced, Defaults
    <3> HIDE DEF r
    <3>3. [r EXCEPT !.default = 0] = [name |-> r.name, default |-> 0, session |-> r.session]
      BY <3>1 DEF IsPreset
    <3>4. IsPreset([name |-> r.name, default |-> 0, session |-> r.session])
      BY DEF IsPreset
    <3>5. r.default = 0 => [r EXCEPT !.default = 0] = r
      BY <3>1, <3>3 DEF IsPreset
    <3>6. r.default = 0 \/ r.default = 1
      BY <3>1 DEF IsPreset
    <3> QED BY <3>2, <3>3, <3>4, <3>5, <3>6 DEF r
  <2> HIDE DEF f
  <2>3. /\ DOMAIN e.presets = DOMAIN d.presets /\ e.presets = [p \in DOMAIN e.presets |-> e.presets[p]]
        /\ \A p \in DOMAIN d.presets : e.presets[p] = f(p)
    BY <2>1
  <2> QED BY <1>6, <2>1, <2>2, <2>3
<1>8. CASE s.op = "clearSessions"
  <2> DEFINE f(p) == Unlinked(d.presets[p], d.presets[p].session = s.id)
  <2>1. e.kvs = d.kvs /\ e.presets = [p \in DOMAIN d.presets |-> f(p)]
    BY <1>8 DEF IsDb, Statement, ClearSessions
  <2>2. ASSUME NEW p \in DOMAIN d.presets PROVE IsPreset(f(p)) /\ (f(p) = d.presets[p] \/ <<"presets", p>> \in E)
    <3>1. IsPreset(d.presets[p])
      BY DEF TablesOK
    <3>2. d.presets[p].session = s.id => <<"presets", p>> \in E
      BY <1>8 DEF Announced
    <3>3. IsPreset(f(p))
      BY <3>1, UnlinkedIsPreset
    <3>4. d.presets[p].session # s.id => f(p) = d.presets[p]
      BY DEF Unlinked
    <3> QED BY <3>2, <3>3, <3>4
  <2> HIDE DEF f
  <2>3. /\ DOMAIN e.presets = DOMAIN d.presets /\ e.presets = [p \in DOMAIN e.presets |-> e.presets[p]]
        /\ \A p \in DOMAIN d.presets : e.presets[p] = f(p)
    BY <2>1
  <2> QED BY <1>6, <2>1, <2>2, <2>3
<1>9. CASE s.op = "setKey"
  <2>1. e.presets = d.presets /\ e.kvs = Extend(d.kvs, s.id, s.row)
    BY <1>9 DEF IsDb, Statement
  <2>2. <<"kvs", s.id>> \in E
    BY <1>9 DEF Announced
  <2> QED BY <2>1, <2>2, AgreeSelf DEF Extend, TablesOK, Agree
<1> QED BY <1>1, <1>3, <1>4, <1>5, <1>7, <1>8, <1>9 DEF Announced, OtherOps

\* A statement other than an update of a session keeps the names of the sessions.
LEMMA NamesStay ==
    ASSUME NEW d, IsDb(d), IsRows(d.sessions), NEW s, s.op \in OtherOps \cup SessionOps,
           s.op = "insertSession" => d.seq + 1 \notin DOMAIN d.sessions,
           NEW e, e = Statement(d, s), NEW i \in DOMAIN d.sessions, i \in DOMAIN e.sessions,
           ~(s.op = "updateSession" /\ s.id = i)
    PROVE  e.sessions[i].name = d.sessions[i].name
<1>1. CASE s.op \in OtherOps
  BY <1>1, OtherStatements DEF SameSessions
<1>2. CASE s.op = "insertSession"
  BY <1>2 DEF IsDb, Statement, SetRow, Extend
<1>3. CASE s.op = "removeSession"
  BY <1>3 DEF IsDb, Statement, Drop
<1>4. d.sessions[i] = [name |-> d.sessions[i].name, default |-> d.sessions[i].default]
  BY DEF IsRows
<1>5. CASE s.op = "noDefault"
  <2>1. e.sessions[i] = [d.sessions[i] EXCEPT !.default = 0]
    BY <1>5 DEF IsDb, Statement, ClearDefaults
  <2> QED BY <1>4, <2>1
<1>6. CASE s.op = "setDefault"
  <2>1. e.sessions = [d.sessions EXCEPT ![s.id].default = 1]
    BY <1>6 DEF IsDb, Statement
  <2>2. e.sessions[i] = d.sessions[i] \/ e.sessions[i] = [d.sessions[i] EXCEPT !.default = 1]
    BY <2>1
  <2> QED BY <1>4, <2>2
<1>7. CASE s.op = "updateSession"
  <2>1. e.sessions = [d.sessions EXCEPT ![s.id].name = s.row.name] /\ s.id # i
    BY <1>7 DEF IsDb, Statement
  <2> QED BY <2>1
<1> QED BY <1>1, <1>2, <1>3, <1>5, <1>6, <1>7 DEF SessionOps

LEMMA QueueAppend ==
    ASSUME NEW q, IsQueue(q), NEW t \in {"presets", "kvs", "sessions"}, NEW k
    PROVE  IsQueue(Append(q, <<t, k>>)) /\ Told(Append(q, <<t, k>>)) = Told(q) \cup {<<t, k>>}
<1> DEFINE e == <<t, k>>
<1>1. IsQueue(<<e>>) /\ Told(<<e>>) = {e}
  BY QueueOne
<1> HIDE DEF e
<1>2. IsQueue(q \o <<e>>) /\ Told(q \o <<e>>) = Told(q) \cup {e}
  BY <1>1, QueueConcat
<1>3. Append(q, e) = q \o <<e>>
  <2> DEFINE S == Told(q) \cup {e}
  <2>1. q \in Seq(Told(q)) /\ Told(q) \subseteq S /\ e \in S
    BY DEF IsQueue
  <2> HIDE DEF S
  <2>2. q \in Seq(S)
    BY <2>1, SeqMonotonic
  <2> QED BY ONLY <2>1, <2>2, AppendIsConcat
<1> QED BY <1>2, <1>3 DEF e

LEMMA PairOfStatements ==
    ASSUME NEW a, NEW b
    PROVE  <<a>> \o <<b>> = <<a, b>>
<1> DEFINE S == {a, b}
           s == <<a>>
           t == <<b>>
           u == <<a, b>>
<1>1. /\ s \in Seq(S) /\ t \in Seq(S) /\ u \in Seq(S) /\ Len(s) = 1 /\ Len(t) = 1 /\ Len(u) = 2
      /\ s[1] = a /\ t[1] = b /\ u[1] = a /\ u[2] = b
  OBVIOUS
<1> HIDE DEF S, s, t, u
<1>2. /\ s \o t \in Seq(S) /\ Len(s \o t) = Len(s) + Len(t)
      /\ \A i \in 1..Len(s) + Len(t) : (s \o t)[i] = IF i <= Len(s) THEN s[i] ELSE t[i - Len(s)]
  BY <1>1, ConcatProperties
<1>3. Len(s \o t) = 2 /\ (s \o t)[1] = a /\ (s \o t)[2] = b
  BY <1>1, <1>2
<1>4. \A i \in 1..Len(u) : u[i] = (s \o t)[i]
  BY <1>1, <1>3
<1>5. s \o t = u
  BY <1>1, <1>2, <1>3, <1>4, SeqEqual
<1> QED BY <1>5 DEF s, t, u

LEMMA OneStatement ==
    ASSUME NEW w, NEW d, NEW s, w.todo = <<s>>, IsQueue(w.events), Announced(d, s, Told(w.events)),
           s.op = "updateSession" => s.id = w.id /\ w.then = "rename", w.mode = "auto" => w.then # "rename",
           w.then = "load" => <<"sessions", w.id>> \in Told(w.events)
    PROVE  ScriptOf(w, d)
<1>1. DOMAIN w.todo = {1} /\ w.todo[1] = s /\ Len(w.todo) = 1
  OBVIOUS
<1>2. Told(w.todo) = {s} /\ w.todo \in Seq({s})
  BY <1>1 DEF Told
<1>3. StatementOf(w, d, 1)
  BY <1>1 DEF StatementOf
<1> QED BY <1>1, <1>2, <1>3 DEF ScriptOf

LEMMA TwoStatements ==
    ASSUME NEW w, NEW d, NEW a, NEW b, w.todo = <<a, b>>, IsQueue(w.events), w.mode # "auto", w.then # "load",
           Announced(d, a, Told(w.events)), Announced(d, b, Told(w.events)), b.op \notin FirstOps,
           a.op # "updateSession", b.op # "updateSession"
    PROVE  ScriptOf(w, d)
<1>1. DOMAIN w.todo = {1, 2} /\ w.todo[1] = a /\ w.todo[2] = b
  OBVIOUS
<1>2. Told(w.todo) = {a, b} /\ w.todo \in Seq({a, b})
  BY <1>1 DEF Told
<1>3. StatementOf(w, d, 1) /\ StatementOf(w, d, 2)
  BY <1>1 DEF StatementOf
<1> QED BY <1>1, <1>2, <1>3 DEF ScriptOf

\* The rest of a script does not depend on the rows that its first statement changed.
LEMMA ScriptNext ==
    ASSUME NEW w, NEW d, ScriptOf(w, d), w.todo # <<>>, NEW u, u.todo = Tail(w.todo), u.events = w.events,
           u.mode = w.mode, u.then = w.then, u.id = w.id, NEW e
    PROVE  /\ ScriptOf(u, e) /\ (w.mode = "auto" => u.todo = <<>>)
           /\ Announced(d, Head(w.todo), Told(w.events))
           /\ Head(w.todo).op = "updateSession" => Head(w.todo).id = w.id /\ w.then = "rename"
<1> DEFINE S == Told(w.todo)
           q == w.todo
           t == u.todo
<1>1. q \in Seq(S) /\ q # <<>>
  BY DEF ScriptOf
<1>2. Head(q) = q[1]
  BY <1>1
<1> HIDE DEF S, t, q
<1>3. t \in Seq(S) /\ Len(t) = Len(q) - 1 /\ \A i \in 1..Len(t) : t[i] = q[i + 1]
  <2>1. t = Tail(q)
    BY DEF t, q
  <2> QED BY ONLY <1>1, <2>1, HeadTailProperties
<1>4. Len(q) \in Nat /\ Len(q) # 0 /\ DOMAIN q = 1..Len(q) /\ DOMAIN t = 1..Len(t) /\ Len(t) \in Nat
  BY <1>1, <1>3, LenProperties, EmptySeq
<1>5. 1 \in DOMAIN q
  BY <1>4
<1>6. StatementOf(w, d, 1)
  BY <1>5 DEF ScriptOf, q
<1>7. ASSUME NEW n \in DOMAIN t PROVE StatementOf(u, e, n)
  <2>1. n + 1 \in DOMAIN q /\ n + 1 > 1 /\ t[n] = q[n + 1]
    BY <1>3, <1>4
  <2>2. StatementOf(w, d, n + 1)
    BY <2>1 DEF ScriptOf, q
  <2>3. Announced(d, t[n], Told(w.events)) /\ t[n].op \notin FirstOps
    BY <2>1, <2>2 DEF StatementOf, q
  <2>4. Announced(e, t[n], Told(u.events))
    BY <2>3 DEF Announced, FirstOps
  <2> QED BY <2>1, <2>2, <2>3, <2>4 DEF StatementOf, q, t
<1>8. w.mode = "auto" => t = <<>>
  <2>1. w.mode = "auto" => Len(t) = 0
    BY <1>1, <1>3, <1>4 DEF ScriptOf, q
  <2> QED BY <1>3, <2>1, EmptySeq
<1>9. t \in Seq(Told(t))
  <2> DEFINE N == Len(t)
             T == Told(t)
  <2>1. N \in Nat /\ t \in [1..N -> S] /\ \A i \in 1..N : t[i] \in T
    BY <1>3, <1>4, LenProperties DEF Told
  <2> HIDE DEF N, T
  <2>2. N \in Nat /\ t \in [1..N -> T]
    BY <2>1
  <2> QED BY ONLY <2>2, IsSequence DEF T
<1>10. ScriptOf(u, e)
  BY <1>7, <1>8, <1>9 DEF ScriptOf, t
<1> QED BY <1>2, <1>6, <1>8, <1>10 DEF StatementOf, t, q

LEMMA MirrorInit == RecordsInit => MirrorInv
<1> SUFFICES ASSUME RecordsInit PROVE MirrorInv
  OBVIOUS
<1> USE RecordsAssumption DEF RecordsAssumption
<1>1. view = disk /\ phase = "down" /\ posted = <<>> /\ mirror = Nobody /\ ~Loaded
  BY DEF RecordsInit, Loaded
<1>2. PICK v \in 0..Target + 1 : disk \in OldDatabases(v)
  BY DEF RecordsInit
<1>3. disk.kvs = <<>> /\ \E x : disk.presets = <<>> \/ disk.presets = Extend(<<>>, 1, [name |-> "default", default |-> 1, session |-> x])
  <2>1. PICK orphans \in BOOLEAN : disk =
           [version |-> v, applied |-> 1..v, kvs |-> <<>>,
            sessions |-> IF v < SessionsAt THEN <<>> ELSE Extend(<<>>, 1, [name |-> "default", default |-> 1]),
            seq |-> IF v < SeedAt THEN 0 ELSE 2,
            presets |-> IF v >= SessionsAt /\ orphans
                        THEN Extend(<<>>, 1, [name |-> "default", default |-> 1, session |-> IF v < SeedAt THEN 2 ELSE NoSession])
                        ELSE <<>>,
            presetSeq |-> IF v < SeedAt THEN 0 ELSE 1,
            torrents |-> IF v >= SessionsAt /\ orphans THEN Extend(<<>>, "orphan", 2) ELSE <<>>]
    BY <1>2 DEF OldDatabases
  <2> QED BY <2>1
<1>4. TablesOK(disk)
  <2>1. CASE disk.presets = <<>>
    BY <1>3, <2>1, FS_EmptySet DEF TablesOK
  <2>2. CASE disk.presets # <<>>
    <3>1. PICK x : disk.presets = Extend(<<>>, 1, [name |-> "default", default |-> 1, session |-> x])
      BY <1>3, <2>2
    <3>2. /\ DOMAIN disk.presets = {1} /\ disk.presets[1] = [name |-> "default", default |-> 1, session |-> x]
          /\ disk.presets = [p \in DOMAIN disk.presets |-> disk.presets[p]]
      BY <3>1 DEF Extend
    <3>3. IsPreset([name |-> "default", default |-> 1, session |-> x])
      BY DEF IsPreset
    <3>4. IsFiniteSet({1})
      BY FS_Singleton
    <3>5. disk.kvs = [k \in DOMAIN disk.kvs |-> disk.kvs[k]]
      BY <1>3
    <3>6. \A p \in DOMAIN disk.presets : IsPreset(disk.presets[p])
      BY <3>2, <3>3
    <3> QED BY <3>2, <3>4, <3>5, <3>6 DEF TablesOK
  <2> QED BY <2>1, <2>2
<1>5. MirrorShape
  BY <1>1 DEF MirrorShape, IsTable, Nobody
<1> QED BY <1>1, <1>4, <1>5, QueueEmpty DEF MirrorInv

\* A handler begins: nothing has changed, except that a session may have been unloaded.
LEMMA StartsMirror ==
    ASSUME RecordsInv, MirrorInv, NEW w, Starts(w), ScriptOK',
           \/ live' = live /\ posted' = posted
           \/ \E i : /\ live' = Drop(live, {i})
                     /\ posted' = IF i \in DOMAIN live THEN Append(posted, <<"sessions", i>>) ELSE posted
    PROVE  MirrorInv'
<1>1. /\ phase = "serve" /\ ~Busy /\ phase' = phase
      /\ disk' = disk /\ view' = view /\ mirror' = mirror
  BY DEF Starts
<1>2. work = NoWork /\ view = disk
  BY <1>1, AtRest
<1>3. Known = Told(posted) /\ MirrorOK /\ IsQueue(posted)
  BY <1>1, <1>2 DEF Known, NoWork, MirrorInv
<1>4. TablesOK(disk') /\ TablesOK(view') /\ MirrorShape'
  BY <1>1 DEF MirrorInv, MirrorShape
<1>5. /\ IsQueue(posted') /\ Told(posted) \subseteq Told(posted')
      /\ DOMAIN live' \subseteq DOMAIN live /\ \A i \in DOMAIN live' : live'[i] = live[i]
      /\ \A i \in DOMAIN live : i \in DOMAIN live' \/ <<"sessions", i>> \in Told(posted')
  <2>1. CASE live' = live /\ posted' = posted
    BY <1>3, <2>1
  <2>2. CASE ~(live' = live /\ posted' = posted)
    <3>1. PICK i : /\ live' = Drop(live, {i})
                   /\ posted' = IF i \in DOMAIN live THEN Append(posted, <<"sessions", i>>) ELSE posted
      BY <2>2
    <3>2. IsQueue(Append(posted, <<"sessions", i>>)) /\ Told(Append(posted, <<"sessions", i>>)) = Told(posted) \cup {<<"sessions", i>>}
      BY <1>3, QueueAppend
    <3>3. DOMAIN live' = DOMAIN live \ {i} /\ \A j \in DOMAIN live' : live'[j] = live[j]
      BY <3>1 DEF Drop
    <3>4. CASE i \in DOMAIN live
      BY <1>3, <3>1, <3>2, <3>3, <3>4
    <3>5. CASE i \notin DOMAIN live
      BY <1>3, <3>1, <3>3, <3>5
    <3> QED BY <3>4, <3>5
  <2> QED BY <2>1, <2>2
<1>6. Loaded' => \A i \in DOMAIN live' : NameOK(i)'
  BY <1>1, <1>2, <1>5 DEF MirrorInv, NameOK, Loaded
<1>7. Told(posted) \subseteq Known'
  BY <1>5 DEF Known
<1>8. Agree(mirror.sessions, LiveNames', "sessions", Told(posted'))
  BY <1>3, <1>5 DEF MirrorOK, Agree, LiveNames
<1>9. MirrorOK'
  <2>1. Agree(mirror.presets, disk.presets, "presets", Known') /\ Agree(mirror.kvs, disk.kvs, "kvs", Known')
    BY <1>3, <1>7, AgreeMore DEF MirrorOK
  <2> QED BY <1>1, <1>2, <1>8, <2>1, AgreeSelf DEF MirrorOK
<1> QED BY <1>1, <1>4, <1>5, <1>6, <1>9 DEF MirrorInv

LEMMA ThreeOfSession ==
    ASSUME NEW w, NEW d, NEW a, NEW b, NEW c, w.todo = <<a, b, c>>, IsQueue(w.events), w.mode = "tx", w.then = "rename",
           a.op = "noDefault", b.op = "setDefault", c.op = "updateSession", c.id = w.id
    PROVE  ScriptOf(w, d)
<1>1. DOMAIN w.todo = {1, 2, 3} /\ w.todo[1] = a /\ w.todo[2] = b /\ w.todo[3] = c
  OBVIOUS
<1>2. Told(w.todo) = {a, b, c} /\ w.todo \in Seq({a, b, c})
  BY <1>1 DEF Told
<1>3. StatementOf(w, d, 1) /\ StatementOf(w, d, 2) /\ StatementOf(w, d, 3)
  BY <1>1 DEF StatementOf, Announced, SessionOps, FirstOps
<1> QED BY <1>1, <1>2, <1>3 DEF ScriptOf

\* A function from 1..N is a sequence of its values.
LEMMA SeqOfTold ==
    ASSUME NEW N \in Nat, NEW f, f = [n \in 1..N |-> f[n]]
    PROVE  f \in Seq(Told(f)) /\ DOMAIN f = 1..N
<1> DEFINE T == Told(f)
<1>1. f \in [1..N -> T] /\ DOMAIN f = 1..N
  BY DEF Told
<1> HIDE DEF T
<1>2. f \in Seq(T)
  BY <1>1, IsSequence
<1> QED BY <1>1, <1>2 DEF T

LEMMA HandlerMirror == RecordsInv /\ MirrorInv /\ Handler => MirrorInv'
<1> SUFFICES ASSUME RecordsInv, MirrorInv, Handler PROVE MirrorInv'
  OBVIOUS
<1> USE RecordsAssumption DEF RecordsAssumption
<1>1. ASSUME NEW n \in RecordNames, AddSession(n) PROVE MirrorInv'
  <2> DEFINE s == Do("insertSession", 0, [name |-> n, default |-> 0])
             k == view.seq + 1
             e == <<<<"sessions", k>>>>
  <2>1. Starts(SessionsAdd(n)) /\ live' = live /\ posted' = posted
    BY <1>1 DEF AddSession
  <2>2. work' = [todo |-> <<s>>, mode |-> "auto", then |-> "load", id |-> k, events |-> e]
    BY <2>1 DEF Starts, SessionsAdd, Autocommit
  <2>3. s.op = "insertSession" /\ IsQueue(e) /\ Told(e) = {<<"sessions", k>>}
    BY QueueOne DEF Do
  <2> HIDE DEF s, e, k
  <2>4. Announced(view', s, Told(e))
    BY <2>3 DEF Announced, SessionOps
  <2>5. ScriptOf(work', view')
    <3>1. work'.todo = <<s>> /\ work'.events = e /\ work'.mode = "auto" /\ work'.then = "load" /\ work'.id = k
      BY <2>2
    <3> DEFINE w == work'
               d == view'
    <3> HIDE DEF w, d
    <3>2. /\ w.todo = <<s>> /\ IsQueue(w.events) /\ Announced(d, s, Told(w.events)) /\ s.op # "updateSession"
          /\ w.then # "rename" /\ (w.then = "load" => <<"sessions", w.id>> \in Told(w.events))
      BY <2>3, <2>4, <3>1 DEF w, d
    <3>3. ScriptOf(w, d)
      BY ONLY <3>2, OneStatement
    <3> QED BY <3>3 DEF w, d
  <2>6. ScriptOK'
    BY <2>2, <2>5 DEF ScriptOK
  <2> QED BY <2>1, <2>6, StartsMirror
<1>2. ASSUME NEW n \in RecordNames, AddPreset(n) PROVE MirrorInv'
  <2> DEFINE r == [name |-> n, default |-> 0, session |-> NoSession]
             s == Do("insertPreset", 0, r)
             k == view.presetSeq + 1
             e == <<<<"presets", k>>>>
  <2>1. Starts(Autocommit(<<s>>, "nothing", 0, e)) /\ live' = live /\ posted' = posted
    BY <1>2 DEF AddPreset
  <2>2. work' = [todo |-> <<s>>, mode |-> "auto", then |-> "nothing", id |-> 0, events |-> e] /\ view' = view
    BY <2>1 DEF Starts, Autocommit
  <2>3. s.op = "insertPreset" /\ s.row = r /\ IsPreset(r) /\ IsQueue(e) /\ Told(e) = {<<"presets", k>>}
    BY QueueOne DEF Do, IsPreset
  <2> HIDE DEF s, e, r
  <2>4. Announced(view', s, Told(e))
    BY <2>2, <2>3 DEF Announced, OtherOps
  <2> HIDE DEF k
  <2>5. ScriptOf(work', view')
    <3>1. work'.todo = <<s>> /\ work'.events = e /\ work'.mode = "auto" /\ work'.then = "nothing" /\ work'.id = 0
      BY <2>2
    <3> DEFINE w == work'
               d == view'
    <3> HIDE DEF w, d
    <3>2. /\ w.todo = <<s>> /\ IsQueue(w.events) /\ Announced(d, s, Told(w.events)) /\ s.op # "updateSession"
          /\ w.then # "rename" /\ (w.then = "load" => <<"sessions", w.id>> \in Told(w.events))
      BY <2>3, <2>4, <3>1 DEF w, d
    <3>3. ScriptOf(w, d)
      BY ONLY <3>2, OneStatement
    <3> QED BY <3>3 DEF w, d
  <2>6. ScriptOK'
    BY <2>2, <2>5 DEF ScriptOK
  <2> QED BY <2>1, <2>6, StartsMirror
<1>3. ASSUME NEW i \in 1..MaxPresetId, RemovePreset(i) PROVE MirrorInv'
  <2> DEFINE s == Do("removePreset", i, {})
             e == <<<<"presets", i>>>>
  <2>1. Starts(Autocommit(<<s>>, "nothing", i, e)) /\ live' = live /\ posted' = posted
    BY <1>3 DEF RemovePreset
  <2>2. work' = [todo |-> <<s>>, mode |-> "auto", then |-> "nothing", id |-> i, events |-> e]
    BY <2>1 DEF Starts, Autocommit
  <2>3. s.op = "removePreset" /\ s.id = i /\ IsQueue(e) /\ Told(e) = {<<"presets", i>>}
    BY QueueOne DEF Do
  <2> HIDE DEF s, e
  <2>4. Announced(view', s, Told(e))
    BY <2>3 DEF Announced, OtherOps
  <2>5. ScriptOf(work', view')
    <3>1. work'.todo = <<s>> /\ work'.events = e /\ work'.mode = "auto" /\ work'.then = "nothing" /\ work'.id = i
      BY <2>2
    <3> DEFINE w == work'
               d == view'
    <3> HIDE DEF w, d
    <3>2. /\ w.todo = <<s>> /\ IsQueue(w.events) /\ Announced(d, s, Told(w.events)) /\ s.op # "updateSession"
          /\ w.then # "rename" /\ (w.then = "load" => <<"sessions", w.id>> \in Told(w.events))
      BY <2>3, <2>4, <3>1 DEF w, d
    <3>3. ScriptOf(w, d)
      BY ONLY <3>2, OneStatement
    <3> QED BY <3>3 DEF w, d
  <2>6. ScriptOK'
    BY <2>2, <2>5 DEF ScriptOK
  <2> QED BY <2>1, <2>6, StartsMirror
<1>4. ASSUME NEW i \in 1..MaxPresetId, NEW n \in RecordNames, NEW default \in {0, 1}, NEW s \in 0..MaxSessionId,
             UpdatePreset(i, n, default, s)
      PROVE  MirrorInv'
  <2> DEFINE row == [name |-> n, default |-> default, session |-> s]
             old == Defaults(view.presets) \ {i}
             first == Do("noDefaultPreset", 0, {})
             then == Do("updatePreset", i, row)
             also == AlsoUpdated(i, default)
             e == <<<<"presets", i>>>> \o also
             todo == (IF default = 1 /\ old # {} THEN <<first>> ELSE <<>>) \o <<then>>
  <2>1. row.default = default /\ IsPreset(row)
    BY DEF IsPreset
  <2>2. Starts(PresetsUpdate(i, row)) /\ live' = live /\ posted' = posted
    BY <1>4 DEF UpdatePreset
  <2>3. work' = [todo |-> todo, mode |-> "tx", then |-> "nothing", id |-> i, events |-> e] /\ view' = view
    BY <2>1, <2>2 DEF Starts, PresetsUpdate, Transaction
  <2>4. first.op = "noDefaultPreset" /\ then.op = "updatePreset" /\ then.id = i /\ then.row = row
    BY DEF Do
  <2>5. /\ IsQueue(also) /\ Told(also) = IF default = 1 THEN {<<"presets", p>> : p \in old} ELSE {}
    <3>1. IsFiniteSet(old)
      <4>1. IsFiniteSet(DOMAIN view.presets)
        BY DEF MirrorInv, TablesOK
      <4>2. old \subseteq DOMAIN view.presets
        BY DEF Defaults
      <4> QED BY <4>1, <4>2, FS_Subset
    <3> DEFINE T == {<<"presets", p>> : p \in old}
    <3>2. also = IF default = 1 THEN SetToSeq(T) ELSE <<>>
      BY DEF AlsoUpdated
    <3> HIDE DEF old, also
    <3>3. IsQueue(SetToSeq(T)) /\ Told(SetToSeq(T)) = T
      BY <3>1, QueueOfSet
    <3> QED BY <3>2, <3>3, QueueEmpty
  <2>6. IsQueue(e) /\ Told(e) = {<<"presets", i>>} \cup Told(also)
    <3>1. IsQueue(<<<<"presets", i>>>>) /\ Told(<<<<"presets", i>>>>) = {<<"presets", i>>}
      BY QueueOne
    <3> HIDE DEF also
    <3> QED BY <2>5, <3>1, QueueConcat
  <2> HIDE DEF row, first, then, also, e
  <2>7. Announced(view', then, Told(e)) /\ then.op \notin FirstOps
    BY <2>1, <2>4, <2>6 DEF Announced, OtherOps, FirstOps
  <2>8. CASE default = 1 /\ old # {}
    <3>1. Announced(view', first, Told(e))
      BY <2>3, <2>4, <2>5, <2>6, <2>8 DEF Announced, OtherOps
    <3>2. todo = <<first, then>>
      BY <2>8, PairOfStatements
    <3> HIDE DEF todo, old
    <3>3. ScriptOf(work', view')
      BY <2>3, <2>4, <2>6, <2>7, <3>1, <3>2, TwoStatements
    <3>4. ScriptOK'
      BY <2>3, <3>3 DEF ScriptOK
    <3> QED BY <2>2, <3>4, StartsMirror
  <2>9. CASE ~(default = 1 /\ old # {})
    <3>1. todo = <<then>>
      BY <2>9, ThreeStatements
    <3> HIDE DEF todo, old
    <3>2. ScriptOf(work', view')
      <4> DEFINE w == work'
                 d == view'
      <4>1. /\ w.todo = <<then>> /\ IsQueue(w.events) /\ Announced(d, then, Told(w.events)) /\ then.op # "updateSession"
            /\ w.then # "rename" /\ w.then # "load"
        BY <2>3, <2>4, <2>6, <2>7, <3>1
      <4> HIDE DEF w, d
      <4>2. ScriptOf(w, d)
        BY ONLY <4>1, OneStatement
      <4> QED BY <4>2 DEF w, d
    <3>3. ScriptOK'
      BY <2>3, <3>2 DEF ScriptOK
    <3> QED BY <2>2, <3>3, StartsMirror
  <2> QED BY <2>8, <2>9
<1>5. ASSUME NEW keys \in SUBSET KvKeys, NEW values \in [keys -> KvValues], SetKeys(values) PROVE MirrorInv'
  <2> DEFINE order == SetToSeq(keys)
             todo == [n \in DOMAIN order |-> Do("setKey", order[n], values[order[n]])]
             e == [n \in DOMAIN order |-> <<"kvs", order[n]>>]
             N == Cardinality(keys)
  <2>1. Starts(Transaction(todo, "nothing", 0, e)) /\ live' = live /\ posted' = posted
    BY <1>5 DEF SetKeys
  <2>2. work' = [todo |-> todo, mode |-> "tx", then |-> "nothing", id |-> 0, events |-> e]
    BY <2>1 DEF Starts, Transaction
  <2>3. N \in Nat /\ DOMAIN order = 1..N
    <3>1. IsFiniteSet(keys)
      BY FS_Subset
    <3> QED BY <3>1, SetToSeqIs
  <2>4. \A k, v : Do("setKey", k, v).op = "setKey" /\ Do("setKey", k, v).id = k
    BY DEF Do
  <2> HIDE DEF order, N
  <2>5. /\ todo = [n \in 1..N |-> todo[n]] /\ DOMAIN todo = 1..N /\ e = [n \in 1..N |-> e[n]] /\ DOMAIN e = 1..N
        /\ \A n \in 1..N : todo[n].op = "setKey" /\ todo[n].id = order[n] /\ e[n] = <<"kvs", order[n]>>
    BY <2>3, <2>4
  <2> HIDE DEF todo, e
  <2>6. todo \in Seq(Told(todo)) /\ e \in Seq(Told(e))
    BY <2>3, <2>5, SeqOfTold
  <2>7. IsQueue(e)
    <3>1. ASSUME NEW x \in Told(e) PROVE x = <<x[1], x[2]>> /\ x[1] = "kvs"
      <4>1. PICK n \in 1..N : x = e[n]
        BY <2>5 DEF Told
      <4>2. x = <<"kvs", order[n]>>
        BY <2>5, <4>1
      <4> QED BY ONLY <4>2
    <3> QED BY <2>6, <3>1 DEF IsQueue
  <2>8. ASSUME NEW n \in DOMAIN todo PROVE StatementOf(work', view', n)
    <3>1. <<"kvs", order[n]>> \in Told(e) /\ todo[n].op = "setKey" /\ todo[n].id = order[n]
      BY <2>5 DEF Told
    <3>2. work'.todo = todo /\ work'.events = e
      BY <2>2
    <3>3. Announced(view', todo[n], Told(e)) /\ todo[n].op \notin FirstOps
      BY <3>1 DEF Announced, OtherOps, FirstOps
    <3> QED BY <3>1, <3>2, <3>3 DEF StatementOf
  <2>9. work'.todo = todo /\ work'.events = e /\ work'.mode = "tx" /\ work'.then = "nothing"
    BY <2>2
  <2>10. ScriptOK'
    BY <2>6, <2>7, <2>8, <2>9 DEF ScriptOK, ScriptOf
  <2> QED BY <2>1, <2>10, StartsMirror
<1>6. ASSUME NEW i \in 1..MaxSessionId, RemoveSession(i) PROVE MirrorInv'
  <2> DEFINE a == Do("clearSessions", i, {})
             b == Do("removeSession", i, {})
             used == {q \in DOMAIN view.presets : view.presets[q].session = i}
             T == {<<"presets", p>> : p \in used}
             e == SetToSeq(T) \o <<<<"sessions", i>>>>
  <2>1. Starts(Transaction(<<a, b>>, "nothing", i, e))
    BY <1>6 DEF RemoveSession
  <2>2. work' = [todo |-> <<a, b>>, mode |-> "tx", then |-> "nothing", id |-> i, events |-> e] /\ view' = view
    BY <2>1 DEF Starts, Transaction
  <2>3. /\ live' = Drop(live, {i})
        /\ posted' = IF i \in DOMAIN live THEN Append(posted, <<"sessions", i>>) ELSE posted
    BY <1>6 DEF RemoveSession
  <2>4. a.op = "clearSessions" /\ a.id = i /\ b.op = "removeSession"
    BY DEF Do
  <2>5. IsQueue(e) /\ T \subseteq Told(e)
    <3>1. IsFiniteSet(used)
      <4>1. IsFiniteSet(DOMAIN view.presets) /\ used \subseteq DOMAIN view.presets
        BY DEF MirrorInv, TablesOK
      <4> HIDE DEF used
      <4> QED BY <4>1, FS_Subset
    <3>2. IsQueue(<<<<"sessions", i>>>>)
      BY QueueOne
    <3> HIDE DEF used
    <3>3. IsQueue(SetToSeq(T)) /\ Told(SetToSeq(T)) = T
      BY <3>1, QueueOfSet
    <3> QED BY <3>2, <3>3, QueueConcat
  <2>6. \A p \in DOMAIN view.presets : view.presets[p].session = i => <<"presets", p>> \in Told(e)
    BY <2>5
  <2> HIDE DEF a, b, T, e, used
  <2>7. Announced(view', a, Told(e)) /\ Announced(view', b, Told(e)) /\ b.op \notin FirstOps
    BY <2>2, <2>4, <2>6 DEF Announced, OtherOps, SessionOps, FirstOps
  <2> DEFINE w == work'
             d == view'
  <2>8. w.todo = <<a, b>> /\ w.events = e /\ w.mode # "auto" /\ w.then # "load" /\ w.then # "rename"
    BY <2>2
  <2> HIDE DEF w, d
  <2>9. ScriptOf(w, d)
    <3>1. Announced(d, a, Told(w.events)) /\ Announced(d, b, Told(w.events)) /\ IsQueue(w.events)
      BY <2>5, <2>7, <2>8 DEF d
    <3> QED BY <2>4, <2>7, <2>8, <3>1, TwoStatements
  <2>10. ScriptOK'
    BY <2>8, <2>9 DEF ScriptOK, w, d
  <2> QED BY <2>1, <2>3, <2>10, StartsMirror
<1>7. ASSUME NEW i \in 1..MaxSessionId, NEW n \in RecordNames, NEW default \in {0, 1}, UpdateSession(i, n, default)
      PROVE  MirrorInv'
  <2> DEFINE a == Do("noDefault", 0, {})
             b == Do("setDefault", i, {})
             c == Do("updateSession", i, [name |-> n])
             new == default = 1 /\ view.sessions[i].default = 0
             todo == (IF new THEN <<a, b>> ELSE <<>>) \o <<c>>
             e == IF i \in DOMAIN live THEN <<<<"sessions", i>>>> ELSE <<>>
             w == work'
             d == view'
  <2>1. Starts(Transaction(todo, "rename", i, e)) /\ live' = live /\ posted' = posted
    BY <1>7 DEF UpdateSession, SessionsUpdate
  <2>2. w = [todo |-> todo, mode |-> "tx", then |-> "rename", id |-> i, events |-> e]
    BY <2>1 DEF Starts, Transaction
  <2>3. a.op = "noDefault" /\ b.op = "setDefault" /\ c.op = "updateSession" /\ c.id = i
    BY DEF Do
  <2>4. IsQueue(e) /\ (i \in DOMAIN live => <<"sessions", i>> \in Told(e))
    BY QueueOne, QueueEmpty
  <2>5. todo = <<a, b, c>> \/ todo = <<c>>
    <3> HIDE DEF a, b, c, new
    <3>1. <<a, b>> \o <<c>> = <<a, b, c>> /\ <<>> \o <<c>> = <<c>>
      BY ThreeStatements
    <3> QED BY <3>1
  <2> HIDE DEF a, b, c, e, todo, w, d
  <2>6. w.todo = todo /\ w.mode = "tx" /\ w.then = "rename" /\ w.id = i /\ w.events = e
    BY <2>2
  <2>7. ScriptOf(w, d)
    <3>1. CASE todo = <<a, b, c>>
      BY <2>3, <2>4, <2>6, <3>1, ThreeOfSession
    <3>2. CASE todo = <<c>>
      <4>1. Announced(d, c, Told(w.events))
        BY <2>3 DEF Announced, SessionOps
      <4>2. /\ w.todo = <<c>> /\ IsQueue(w.events) /\ c.id = w.id /\ w.then = "rename" /\ w.mode # "auto"
        BY <2>3, <2>4, <2>6, <3>2
      <4> QED BY ONLY <4>1, <4>2, OneStatement
    <3> QED BY <2>5, <3>1, <3>2
  <2>8. ScriptOK'
    BY <2>1, <2>4, <2>6, <2>7 DEF ScriptOK, w, d
  <2> QED BY <2>1, <2>8, StartsMirror
<1> QED BY <1>1, <1>2, <1>3, <1>4, <1>5, <1>6, <1>7 DEF Handler

\* A statement changes only what its handler announces.
LEMMA ServeExecutes ==
    ASSUME RecordsInv, MirrorInv, phase = "serve", Execute, RecordsInv'
    PROVE  MirrorInv'
<1> USE RecordsAssumption DEF RecordsAssumption
<1> DEFINE s == Head(work.todo)
           E == Told(work.events)
<1>1. /\ work.todo # <<>> /\ view' = Statement(view, s) /\ disk' = (IF work.mode = "tx" THEN disk ELSE view')
      /\ phase' = phase /\ live' = live /\ posted' = posted /\ mirror' = mirror /\ work' = [work EXCEPT !.todo = Tail(@)]
  BY DEF Execute
<1>2. /\ WorkOK /\ work # NoWork /\ IsDb(view) /\ IsRows(view.sessions) /\ ScriptOf(work, view) /\ MirrorOK /\ TablesOK(view)
      /\ IsQueue(posted) /\ TablesOK(disk)
  BY <1>1 DEF RecordsInv, PhaseOK, Serving, DbOK, MirrorInv, ScriptOK, NoWork
<1>3. /\ work'.todo = Tail(work.todo) /\ work'.events = work.events
      /\ work'.mode = work.mode /\ work'.then = work.then /\ work'.id = work.id
  BY <1>1, <1>2 DEF WorkOK
<1>4. /\ ScriptOf(work', view') /\ (work.mode = "auto" => work'.todo = <<>>)
      /\ Announced(view, s, E) /\ (s.op = "updateSession" => s.id = work.id /\ work.then = "rename")
  <2> DEFINE w == work
             u == work'
             d == view
             e == view'
  <2>1. /\ ScriptOf(w, d) /\ w.todo # <<>> /\ u.todo = Tail(w.todo) /\ u.events = w.events
        /\ u.mode = w.mode /\ u.then = w.then /\ u.id = w.id
    BY <1>1, <1>2, <1>3
  <2>2. s = Head(w.todo) /\ E = Told(w.events)
    OBVIOUS
  <2> HIDE DEF w, u, d, e, s, E
  <2>3. /\ ScriptOf(u, e) /\ (w.mode = "auto" => u.todo = <<>>)
        /\ Announced(d, Head(w.todo), Told(w.events))
        /\ Head(w.todo).op = "updateSession" => Head(w.todo).id = w.id /\ w.then = "rename"
    BY ONLY <2>1, ScriptNext
  <2> QED BY <2>2, <2>3 DEF w, u, d, e
<1> HIDE DEF s, E
<1>5. TablesOK(view') /\ Agree(view.presets, view'.presets, "presets", E) /\ Agree(view.kvs, view'.kvs, "kvs", E)
  BY <1>1, <1>2, <1>4, StatementTouches
<1>6. ScriptOK'
  BY <1>1, <1>3, <1>4 DEF MirrorInv, ScriptOK
<1>7. /\ Agree(disk.presets, view.presets, "presets", E) /\ Agree(disk.kvs, view.kvs, "kvs", E)
      /\ Agree(mirror.presets, disk.presets, "presets", Known) /\ Agree(mirror.kvs, disk.kvs, "kvs", Known)
      /\ Agree(mirror.sessions, LiveNames, "sessions", Told(posted))
  BY <1>2 DEF MirrorOK, E
<1>8. Agree(disk.presets, view'.presets, "presets", E) /\ Agree(disk.kvs, view'.kvs, "kvs", E)
  <2>1. E \cup E = E
    OBVIOUS
  <2>2. Agree(disk.presets, view'.presets, "presets", E \cup E) /\ Agree(disk.kvs, view'.kvs, "kvs", E \cup E)
    BY <1>5, <1>7, AgreeTrans
  <2> QED BY <2>1, <2>2
<1>9. Known = Told(posted)
  BY <1>1 DEF Known
<1>10. work.mode = "tx" \/ work.mode = "auto"
  BY <1>2 DEF RecordsInv, PhaseOK, Serving, Adding, Removing, Updating, Others
<1>11. MirrorOK'
  <2>1. CASE work.mode = "tx"
    <3>1. disk' = disk /\ Known' = Told(posted) /\ LiveNames' = LiveNames
      BY <1>1, <1>3, <2>1 DEF Known, LiveNames
    <3> QED BY <1>1, <1>3, <1>7, <1>8, <1>9, <3>1 DEF MirrorOK, E
  <2>2. CASE work.mode = "auto"
    <3>1. disk' = view' /\ Known' = Told(posted) \cup E /\ LiveNames' = LiveNames
      BY <1>1, <1>3, <1>4, <2>2 DEF Known, LiveNames, E
    <3>2. Agree(mirror.presets, view'.presets, "presets", Known') /\ Agree(mirror.kvs, view'.kvs, "kvs", Known')
      BY <1>7, <1>8, <1>9, <3>1, AgreeTrans
    <3> QED BY <1>1, <1>7, <3>1, <3>2, AgreeSelf DEF MirrorOK
  <2> QED BY <1>10, <2>1, <2>2
<1>12. ASSUME NEW i \in DOMAIN live PROVE NameOK(i)'
  <2>1. NameOK(i) /\ i \in DOMAIN view.sessions /\ i \in DOMAIN view'.sessions
    BY <1>1 DEF MirrorInv, RecordsInv, LiveOK, Loaded
  <2>2. s.op = "insertSession" => view.seq + 1 \notin DOMAIN view.sessions
    <3>1. DbOK(view, Target)
      BY DEF RecordsInv, PhaseOK, Serving
    <3>2. view.seq \in Nat /\ DOMAIN view.sessions \subseteq 1..view.seq
      BY <3>1 DEF DbOK
    <3> QED BY <3>2
  <2>3. s.op \in OtherOps \cup SessionOps
    BY <1>4 DEF Announced
  <2>4. view'.sessions[i].name = view.sessions[i].name \/ (work.then = "rename" /\ work.id = i)
    <3>1. CASE s.op = "updateSession" /\ s.id = i
      BY <1>4, <3>1
    <3>2. CASE ~(s.op = "updateSession" /\ s.id = i)
      BY <1>1, <1>2, <2>1, <2>2, <2>3, <3>2, NamesStay
    <3> QED BY <3>1, <3>2
  <2>5. CASE work.mode = "tx"
    BY <1>1, <1>3, <2>1, <2>4, <2>5 DEF NameOK
  <2>6. CASE work.mode = "auto"
    <3>1. work.then # "rename"
      BY <1>2, <2>6 DEF ScriptOf
    <3> QED BY <1>1, <1>3, <2>1, <2>4, <2>6, <3>1 DEF NameOK
  <2> QED BY <1>10, <2>5, <2>6
<1>13. TablesOK(disk') /\ MirrorShape' /\ IsQueue(posted')
  BY <1>1, <1>2, <1>5 DEF MirrorInv, MirrorShape
<1> QED BY <1>1, <1>5, <1>6, <1>11, <1>12, <1>13 DEF MirrorInv

\* Migrate keeps the shape of the tables; nobody has subscribed yet.
LEMMA MigrateExecutes ==
    ASSUME RecordsInv, MirrorInv, phase = "migrate", Execute
    PROVE  MirrorInv'
<1> USE RecordsAssumption DEF RecordsAssumption
<1>1. /\ Busy /\ work.todo # <<>> /\ view' = Statement(view, Head(work.todo)) /\ disk' = (IF work.mode = "tx" THEN disk ELSE view')
      /\ phase' = phase /\ posted' = posted /\ mirror' = mirror
  BY DEF Execute
<1>2. work # NoWork /\ Migrating
  BY <1>1 DEF RecordsInv, PhaseOK, Busy, NoWork
<1>3. PICK n \in 0..Target : work.todo = MigrationsLeft(n) /\ DbOK(view, n)
  BY <1>1, <1>2 DEF Migrating
<1>4. disk' = disk /\ IsDb(view)
  BY <1>1, <1>2, <1>3 DEF Migrating, DbOK
<1>5. TablesOK(view')
  <2>1. CASE n < Target
    <3>1. Head(work.todo) = Do("migration", n + 1, {})
      BY <1>3, <2>1, MigrationsStep
    <3>2. view' = Migration(view, n + 1)
      <4>1. view' = Statement(view, Do("migration", n + 1, {}))
        BY <1>1, <3>1
      <4> DEFINE d == view
                 m == n + 1
      <4> HIDE DEF d, m
      <4>2. Statement(d, Do("migration", m, {})) = Migration(d, m)
        BY DEF Statement, Do
      <4> QED BY <4>1, <4>2 DEF d, m
    <3> QED BY <1>4, <3>2, MigrationTables DEF MirrorInv
  <2>2. CASE n = Target
    <3>1. Head(work.todo) = Do("user_version", Target, {})
      BY <1>3, <2>2, MigrationsStep
    <3>2. view' = Statement(view, Do("user_version", Target, {}))
      BY <1>1, <3>1
    <3> DEFINE d == view
               e == view'
    <3> HIDE DEF d, e
    <3>3. e = [d EXCEPT !.version = Target] /\ IsDb(d)
      BY <1>4, <3>2 DEF Statement, Do, d, e
    <3>4. e.presets = d.presets /\ e.kvs = d.kvs
      BY <3>3 DEF IsDb
    <3>5. view'.presets = view.presets /\ view'.kvs = view.kvs
      BY <3>4 DEF d, e
    <3> QED BY <3>5 DEF MirrorInv, TablesOK
  <2> QED BY <2>1, <2>2
<1> QED BY <1>1, <1>4, <1>5 DEF MirrorInv, MirrorShape, Loaded

\* No handler runs.
LEMMA IdleScript ==
    ASSUME NEW w, w = NoWork, NEW d
    PROVE  ScriptOf(w, d) /\ w.then = "nothing" /\ w.mode = "none" /\ Told(w.events) = {}
<1>1. w.todo = <<>> /\ w.events = <<>> /\ w.mode = "none" /\ w.then = "nothing"
  BY DEF NoWork
<1>2. IsQueue(w.events) /\ Told(w.events) = {} /\ Told(w.todo) = {} /\ w.todo \in Seq({}) /\ DOMAIN w.todo = {}
  BY <1>1, QueueEmpty
<1> QED BY <1>1, <1>2 DEF ScriptOf

LEMMA IdleMirror ==
    ASSUME work' = NoWork, view' = disk', TablesOK(disk'), IsQueue(posted'), MirrorShape', phase' = "serve",
           \A i \in DOMAIN live' : live'[i].name = disk'.sessions[i].name,
           Agree(mirror'.presets, disk'.presets, "presets", Told(posted')),
           Agree(mirror'.kvs, disk'.kvs, "kvs", Told(posted')),
           Agree(mirror'.sessions, LiveNames', "sessions", Told(posted'))
    PROVE  MirrorInv'
<1>1. ScriptOf(work', view') /\ work'.then = "nothing" /\ work'.mode = "none"
  BY IdleScript
<1>2. ScriptOK'
  BY <1>1 DEF ScriptOK
<1>3. Known' = Told(posted')
  BY <1>1 DEF Known
<1>4. MirrorOK'
  BY <1>3, AgreeSelf DEF MirrorOK
<1>5. \A i \in DOMAIN live' : NameOK(i)'
  BY DEF NameOK
<1> QED BY <1>2, <1>4, <1>5 DEF MirrorInv

\* A handler that fails has changed nothing that is on disk.
LEMMA FailMirror ==
    ASSUME RecordsInv, MirrorInv, Fail
    PROVE  MirrorInv'
<1>1. /\ Busy /\ (work.mode = "tx" \/ work.todo # <<>>) /\ view' = disk /\ work' = NoWork /\ disk' = disk
      /\ phase' = (IF phase = "migrate" THEN "down" ELSE phase) /\ live' = live /\ posted' = posted /\ mirror' = mirror
  BY DEF Fail
<1>2. TablesOK(disk') /\ IsQueue(posted') /\ MirrorShape'
  BY <1>1 DEF MirrorInv, MirrorShape
<1>3. CASE phase = "serve"
  <2>1. MirrorOK /\ \A i \in DOMAIN live : NameOK(i)
    BY <1>3 DEF MirrorInv, Loaded
  <2>2. Known = Told(posted) /\ LiveNames' = LiveNames
    BY <1>1 DEF Known, LiveNames
  <2>3. /\ Agree(mirror.presets, disk.presets, "presets", Told(posted)) /\ Agree(mirror.kvs, disk.kvs, "kvs", Told(posted))
        /\ Agree(mirror.sessions, LiveNames, "sessions", Told(posted))
    BY <2>1, <2>2 DEF MirrorOK
  <2>4. \A i \in DOMAIN live : live[i].name = disk.sessions[i].name
    BY <2>1 DEF NameOK
  <2> QED BY <1>1, <1>2, <1>3, <2>2, <2>3, <2>4, IdleMirror
<1>4. CASE phase # "serve"
  <2>1. phase = "migrate"
    BY <1>1, <1>4 DEF RecordsInv, PhaseOK, Busy, NoWork
  <2> QED BY <1>1, <1>2, <1>4, <2>1 DEF MirrorInv, Loaded
<1> QED BY <1>3, <1>4

\* The rest of a handler: the names of the loaded sessions, and what it has to announce of them.
LEMMA FollowedNames ==
    ASSUME RecordsInv, MirrorInv, phase = "serve", Busy, work.todo = <<>>, live' = Followed
    PROVE  /\ DOMAIN live \subseteq DOMAIN live'
           /\ \A i \in DOMAIN live' : live'[i].name = view.sessions[i].name
           /\ \A i \in DOMAIN live' : \/ i \in DOMAIN live /\ live'[i].name = live[i].name
                                      \/ <<"sessions", i>> \in Told(work.events)
<1> DEFINE k == work.id
           nm == view.sessions[work.id].name
<1>1. DOMAIN live \subseteq DOMAIN live' /\ ScriptOK /\ LiveOK /\ \A i \in DOMAIN live : NameOK(i)
  BY FollowedIs DEF MirrorInv, Loaded, RecordsInv
<1>2. \A i \in DOMAIN live : ~(work.then = "rename" /\ k = i) => live[i].name = view.sessions[i].name
  BY <1>1 DEF NameOK
<1>3. CASE work.then = "load"
  <2>1. live' = Extend(live, k, [name |-> nm, tracked |-> {}])
    BY <1>3 DEF Followed
  <2>2. <<"sessions", k>> \in Told(work.events)
    BY <1>1, <1>3 DEF ScriptOK, ScriptOf
  <2>3. \A i \in DOMAIN live : live[i].name = view.sessions[i].name
    BY <1>2, <1>3
  <2>4. DOMAIN live' = DOMAIN live \cup {k} /\ live'[k].name = view.sessions[k].name /\ \A i \in DOMAIN live : i # k => live'[i] = live[i]
    BY <2>1 DEF Extend
  <2> HIDE DEF k, nm
  <2> QED BY <1>1, <2>2, <2>3, <2>4
<1>4. CASE work.then = "rename" /\ k \in DOMAIN live
  <2>1. live' = [live EXCEPT ![k].name = nm]
    BY <1>4 DEF Followed
  <2>2. <<"sessions", k>> \in Told(work.events)
    BY <1>1, <1>4 DEF ScriptOK
  <2>3. DOMAIN live' = DOMAIN live /\ \A i \in DOMAIN live : i # k => live'[i] = live[i]
    BY <2>1
  <2>4. live'[k].name = view.sessions[k].name
    <3>1. live[k] = [name |-> live[k].name, tracked |-> live[k].tracked]
      BY <1>1, <1>4 DEF LiveOK
    <3>2. live'[k] = [live[k] EXCEPT !.name = nm]
      BY <1>4, <2>1
    <3> DEFINE r == live[k]
               t == live[k].tracked
               x == live[k].name
    <3>3. r = [name |-> x, tracked |-> t] /\ live'[k] = [r EXCEPT !.name = nm]
      BY <3>1, <3>2
    <3> HIDE DEF r, t, x, k, nm
    <3>4. live'[k].name = nm
      BY <3>3
    <3> QED BY <3>4 DEF nm, k
  <2> HIDE DEF k, nm
  <2> QED BY <1>1, <1>2, <2>2, <2>3, <2>4
<1>5. CASE work.then # "load" /\ ~(work.then = "rename" /\ k \in DOMAIN live)
  <2>1. live' = live
    BY <1>5 DEF Followed
  <2> QED BY <1>2, <1>5, <2>1
<1> QED BY <1>3, <1>4, <1>5

\* A handler publishes what it has changed.
LEMMA CommitMirror ==
    ASSUME RecordsInv, MirrorInv, Commit
    PROVE  MirrorInv'
<1>1. /\ phase = "serve" /\ Busy /\ work.todo = <<>> /\ disk' = view /\ live' = Followed /\ posted' = posted \o work.events
      /\ work' = NoWork /\ view' = view /\ phase' = phase /\ mirror' = mirror
  BY DEF Commit
<1>2. MirrorOK /\ IsQueue(posted) /\ IsQueue(work.events) /\ TablesOK(view)
  BY <1>1 DEF MirrorInv, ScriptOK, ScriptOf
<1> DEFINE E == Told(work.events)
           F == Told(posted')
<1>3. IsQueue(posted') /\ F = Told(posted) \cup E
  <2> DEFINE q == posted
             r == work.events
  <2>1. IsQueue(q) /\ IsQueue(r)
    BY <1>2
  <2> HIDE DEF q, r
  <2>2. IsQueue(q \o r) /\ Told(q \o r) = Told(q) \cup Told(r)
    BY ONLY <2>1, QueueConcat
  <2> QED BY <1>1, <2>2 DEF q, r
<1>4. Known \cup E = F /\ Told(posted) \subseteq F /\ E \subseteq F
  BY <1>3 DEF Known
<1>5. /\ DOMAIN live \subseteq DOMAIN live' /\ \A i \in DOMAIN live' : live'[i].name = view.sessions[i].name
      /\ \A i \in DOMAIN live' : (i \in DOMAIN live /\ live'[i].name = live[i].name) \/ <<"sessions", i>> \in E
  BY <1>1, FollowedNames
<1>6. /\ Agree(disk.presets, view.presets, "presets", E) /\ Agree(disk.kvs, view.kvs, "kvs", E)
      /\ Agree(mirror.presets, disk.presets, "presets", Known) /\ Agree(mirror.kvs, disk.kvs, "kvs", Known)
      /\ Agree(mirror.sessions, LiveNames, "sessions", Told(posted))
  BY <1>2 DEF MirrorOK
<1> HIDE DEF E, F
<1>7. Agree(mirror.presets, view.presets, "presets", F) /\ Agree(mirror.kvs, view.kvs, "kvs", F)
  <2>1. Agree(mirror.presets, view.presets, "presets", Known \cup E)
    BY <1>6, AgreeTrans
  <2>2. Agree(mirror.kvs, view.kvs, "kvs", Known \cup E)
    BY <1>6, AgreeTrans
  <2> QED BY <1>4, <2>1, <2>2
<1>8. Agree(mirror.sessions, LiveNames', "sessions", F)
  BY <1>4, <1>5, <1>6 DEF Agree, LiveNames
<1>9. MirrorShape'
  BY <1>1 DEF MirrorInv, MirrorShape
<1> QED BY <1>1, <1>2, <1>3, <1>5, <1>7, <1>8, <1>9, IdleMirror DEF F

\* What the subscriber reads is what there is.
LEMMA RereadIs ==
    ASSUME NEW f, NEW g, NEW t, NEW k, NEW E, Agree(f, g, t, E \cup {<<t, k>>})
    PROVE  Agree(Reread(f, g, k), g, t, E) /\ IsTable(Reread(f, g, k))
<1>1. CASE k \in DOMAIN g
  <2>1. Reread(f, g, k) = Extend(f, k, g[k])
    BY <1>1 DEF Reread
  <2> QED BY <1>1, <2>1 DEF Extend, Agree, IsTable
<1>2. CASE k \notin DOMAIN g
  <2>1. Reread(f, g, k) = Drop(f, {k})
    BY <1>2 DEF Reread
  <2> QED BY <1>2, <2>1 DEF Drop, Agree, IsTable
<1> QED BY <1>1, <1>2

\* An event about another table.
LEMMA OtherEvent ==
    ASSUME NEW f, NEW g, NEW t, NEW u, u # t, NEW k, NEW E, Agree(f, g, t, E \cup {<<u, k>>})
    PROVE  Agree(f, g, t, E)
<1>1. \A j : <<t, j>> # <<u, k>>
  OBVIOUS
<1> QED BY <1>1 DEF Agree

\* Between two handlers, what the subscriber does not know waits for its delivery.
LEMMA RestMirror ==
    ASSUME RecordsInv, MirrorInv, phase = "serve", ~Busy
    PROVE  /\ work = NoWork /\ view = disk /\ TablesOK(view) /\ IsQueue(posted) /\ MirrorShape
           /\ \A i \in DOMAIN live : live[i].name = view.sessions[i].name
           /\ Agree(mirror.presets, view.presets, "presets", Told(posted)) /\ Agree(mirror.kvs, view.kvs, "kvs", Told(posted))
           /\ Agree(mirror.sessions, LiveNames, "sessions", Told(posted))
<1>1. work = NoWork /\ view = disk
  BY AtRest
<1>2. Known = Told(posted) /\ MirrorOK /\ \A i \in DOMAIN live : NameOK(i)
  BY <1>1 DEF Known, NoWork, MirrorInv, Loaded
<1> QED BY <1>1, <1>2 DEF MirrorInv, MirrorOK, NameOK

LEMMA DeliverMirror ==
    ASSUME RecordsInv, MirrorInv, DeliverRecord
    PROVE  MirrorInv'
<1> DEFINE a == Head(posted)[1]
           k == Head(posted)[2]
           now == [presets |-> view.presets, kvs |-> view.kvs, sessions |-> LiveNames]
           E == Told(Tail(posted))
<1>1. /\ ~Busy /\ posted # <<>> /\ posted' = Tail(posted) /\ mirror' = [mirror EXCEPT ![a] = Reread(mirror[a], now[a], k)]
      /\ disk' = disk /\ view' = view /\ work' = work /\ phase' = phase /\ live' = live
  BY DEF DeliverRecord, LiveNames
<1>2. phase = "serve" /\ LiveNames' = LiveNames
  BY <1>1 DEF MirrorInv, LiveNames
<1>3. /\ work = NoWork /\ view = disk /\ TablesOK(view) /\ IsQueue(posted) /\ MirrorShape
      /\ \A i \in DOMAIN live : live[i].name = view.sessions[i].name
      /\ Agree(mirror.presets, view.presets, "presets", Told(posted)) /\ Agree(mirror.kvs, view.kvs, "kvs", Told(posted))
      /\ Agree(mirror.sessions, LiveNames, "sessions", Told(posted))
  BY <1>1, <1>2, RestMirror
<1>4. IsQueue(posted') /\ Told(posted) = E \cup {<<a, k>>} /\ a \in {"presets", "kvs", "sessions"}
  <2> DEFINE q == posted
  <2>1. IsQueue(q) /\ q # <<>>
    BY <1>1, <1>3
  <2> HIDE DEF q
  <2>2. /\ IsQueue(Tail(q)) /\ Told(q) = {Head(q)} \cup Told(Tail(q))
        /\ Head(q) = <<Head(q)[1], Head(q)[2]>> /\ Head(q)[1] \in {"presets", "kvs", "sessions"}
    BY ONLY <2>1, QueueTail
  <2> QED BY <1>1, <2>2 DEF q
<1> DEFINE mp == mirror.presets
           mk == mirror.kvs
           ms == mirror.sessions
           P == view.presets
           K == view.kvs
           L == LiveNames
<1>5. mirror = [presets |-> mp, sessions |-> ms, kvs |-> mk] /\ IsTable(mp) /\ IsTable(mk) /\ IsTable(ms)
  BY <1>3 DEF MirrorShape
<1>6. /\ Agree(mp, P, "presets", E \cup {<<a, k>>}) /\ Agree(mk, K, "kvs", E \cup {<<a, k>>})
      /\ Agree(ms, L, "sessions", E \cup {<<a, k>>})
  BY <1>3, <1>4
<1>7. now = [presets |-> P, kvs |-> K, sessions |-> L]
  OBVIOUS
<1> HIDE DEF a, k, now, E, mp, mk, ms, P, K, L
<1>8. /\ mirror' = [presets |-> mirror'.presets, sessions |-> mirror'.sessions, kvs |-> mirror'.kvs]
      /\ IsTable(mirror'.presets) /\ IsTable(mirror'.kvs) /\ IsTable(mirror'.sessions)
      /\ Agree(mirror'.presets, P, "presets", E) /\ Agree(mirror'.kvs, K, "kvs", E) /\ Agree(mirror'.sessions, L, "sessions", E)
  <2>1. CASE a = "presets"
    <3>1. mirror' = [presets |-> Reread(mp, P, k), sessions |-> ms, kvs |-> mk]
      BY <1>1, <1>5, <1>7, <2>1
    <3>2. Agree(Reread(mp, P, k), P, "presets", E) /\ IsTable(Reread(mp, P, k))
      BY <1>6, <2>1, RereadIs
    <3>3. Agree(mk, K, "kvs", E) /\ Agree(ms, L, "sessions", E)
      <4>1. a # "kvs" /\ a # "sessions"
        BY <2>1
      <4> QED BY ONLY <1>6, <4>1, OtherEvent
    <3> QED BY <1>5, <3>1, <3>2, <3>3
  <2>2. CASE a = "kvs"
    <3>1. mirror' = [presets |-> mp, sessions |-> ms, kvs |-> Reread(mk, K, k)]
      BY <1>1, <1>5, <1>7, <2>2
    <3>2. Agree(Reread(mk, K, k), K, "kvs", E) /\ IsTable(Reread(mk, K, k))
      BY <1>6, <2>2, RereadIs
    <3>3. Agree(mp, P, "presets", E) /\ Agree(ms, L, "sessions", E)
      <4>1. a # "presets" /\ a # "sessions"
        BY <2>2
      <4> QED BY ONLY <1>6, <4>1, OtherEvent
    <3> QED BY <1>5, <3>1, <3>2, <3>3
  <2>3. CASE a = "sessions"
    <3>1. mirror' = [presets |-> mp, sessions |-> Reread(ms, L, k), kvs |-> mk]
      BY <1>1, <1>5, <1>7, <2>3
    <3>2. Agree(Reread(ms, L, k), L, "sessions", E) /\ IsTable(Reread(ms, L, k))
      BY <1>6, <2>3, RereadIs
    <3>3. Agree(mp, P, "presets", E) /\ Agree(mk, K, "kvs", E)
      <4>1. a # "presets" /\ a # "kvs"
        BY <2>3
      <4> QED BY ONLY <1>6, <4>1, OtherEvent
    <3> QED BY <1>5, <3>1, <3>2, <3>3
  <2> QED BY <1>4, <2>1, <2>2, <2>3
<1>9. MirrorShape'
  BY <1>8 DEF MirrorShape
<1>10. E = Told(posted')
  BY <1>1 DEF E
<1>11. /\ Agree(mirror'.presets, disk'.presets, "presets", Told(posted')) /\ Agree(mirror'.kvs, disk'.kvs, "kvs", Told(posted'))
       /\ Agree(mirror'.sessions, LiveNames', "sessions", Told(posted'))
  BY <1>1, <1>2, <1>3, <1>8, <1>10 DEF P, K, L
<1>12. work' = NoWork /\ view' = disk' /\ TablesOK(disk') /\ phase' = "serve" /\ \A i \in DOMAIN live' : live'[i].name = disk'.sessions[i].name
  BY <1>1, <1>2, <1>3
<1> QED BY <1>4, <1>9, <1>11, <1>12, IdleMirror

\* Torrents change nothing that the subscriber follows.
LEMMA TorrentMirror ==
    ASSUME RecordsInv, MirrorInv, NEW h,
           \/ \E s, p : AddTorrent(h, s, p)
           \/ \E i : StoreTorrent(i, h)
    PROVE  MirrorInv'
<1>1. phase = "serve" /\ ~Busy /\ work' = work /\ phase' = phase /\ posted' = posted /\ mirror' = mirror
  BY DEF AddTorrent, StoreTorrent
<1>2. /\ work = NoWork /\ view = disk /\ TablesOK(view) /\ IsQueue(posted) /\ MirrorShape
      /\ \A i \in DOMAIN live : live[i].name = view.sessions[i].name
      /\ Agree(mirror.presets, view.presets, "presets", Told(posted)) /\ Agree(mirror.kvs, view.kvs, "kvs", Told(posted))
      /\ Agree(mirror.sessions, LiveNames, "sessions", Told(posted))
  BY <1>1, RestMirror
<1>3. /\ view' = disk' /\ view'.presets = view.presets /\ view'.kvs = view.kvs /\ view'.sessions = view.sessions
      /\ DOMAIN live' = DOMAIN live /\ \A i \in DOMAIN live : live'[i].name = live[i].name
  <2>1. CASE \E s, p : AddTorrent(h, s, p)
    <3>1. PICK t \in DOMAIN live : live' = [live EXCEPT ![t].tracked = @ \cup {h}] /\ view' = view /\ disk' = disk
      BY <2>1 DEF AddTorrent
    <3>2. DOMAIN live' = DOMAIN live /\ \A i \in DOMAIN live : i # t => live'[i] = live[i]
      BY <3>1
    <3>3. live'[t].name = live[t].name
      <4> DEFINE r == live[t]
                 n == live[t].name
                 T == live[t].tracked
      <4>1. r = [name |-> n, tracked |-> T]
        BY DEF RecordsInv, LiveOK
      <4>2. live'[t] = [r EXCEPT !.tracked = T \cup {h}]
        BY <3>1
      <4> HIDE DEF r, n, T
      <4>3. live'[t].name = n
        BY <4>1, <4>2
      <4> QED BY <4>3 DEF n
    <3> QED BY <1>2, <3>1, <3>2, <3>3
  <2>2. CASE \E i : StoreTorrent(i, h)
    <3>1. PICK i : view' = [view EXCEPT !.torrents = Extend(@, h, i)] /\ disk' = view' /\ live' = live
      BY <2>2 DEF StoreTorrent
    <3>2. IsDb(view)
      BY <1>1, AtRest DEF DbOK
    <3>3. view'.presets = view.presets /\ view'.kvs = view.kvs /\ view'.sessions = view.sessions
      BY <3>1, <3>2 DEF IsDb
    <3> QED BY <3>1, <3>3
  <2> QED BY <2>1, <2>2
<1>4. LiveNames' = LiveNames
  BY <1>3 DEF LiveNames
<1>5. TablesOK(disk') /\ MirrorShape'
  BY <1>1, <1>2, <1>3 DEF TablesOK, MirrorShape
<1>6. \A i \in DOMAIN live' : live'[i].name = disk'.sessions[i].name
  BY <1>2, <1>3
<1> QED BY <1>1, <1>2, <1>3, <1>4, <1>5, <1>6, IdleMirror

\* The process starts, loads its sessions, and dies; the last session starts the subscriber.
LEMMA BootMirror ==
    ASSUME RecordsInv, MirrorInv, Boot \/ LoadSessions \/ Crash
    PROVE  MirrorInv'
<1>1. CASE Boot
  <2>1. phase' = "migrate" /\ view' = disk /\ disk' = disk /\ posted' = posted /\ mirror' = mirror /\ phase = "down"
    BY <1>1 DEF Boot
  <2> QED BY <2>1 DEF MirrorInv, MirrorShape, Loaded
<1>2. CASE LoadSessions
  <2>1. /\ phase = "migrate" /\ phase' = "load" /\ view' = view /\ disk' = view /\ posted' = posted /\ mirror' = mirror
        /\ live' = [i \in DOMAIN view.sessions |->
                       [name |-> view.sessions[i].name, tracked |-> {h \in DOMAIN view.torrents : view.torrents[h] = i}]]
    BY <1>2 DEF LoadSessions
  <2>2. \A i \in DOMAIN live' : live'[i].name = view.sessions[i].name
    BY <2>1
  <2>3. \A i \in DOMAIN live' : NameOK(i)'
    BY <2>1, <2>2 DEF NameOK
  <2> QED BY <2>1, <2>3 DEF MirrorInv, MirrorShape
<1>3. CASE Crash
  <2>1. phase' = "down" /\ view' = disk /\ disk' = disk /\ posted' = <<>> /\ mirror' = Nobody
    BY <1>3 DEF Crash
  <2>2. MirrorShape'
    BY <2>1 DEF MirrorShape, IsTable, Nobody
  <2> QED BY <2>1, <2>2, QueueEmpty DEF MirrorInv, Loaded
<1> QED BY <1>1, <1>2, <1>3

LEMMA LoadedMirror ==
    ASSUME RecordsInv, MirrorInv, NEW i \in loading, SessionLoaded(i)
    PROVE  MirrorInv'
<1>1. phase = "load" /\ work = NoWork /\ view = disk
  BY DEF RecordsInv, PhaseOK
<1>2. disk' = disk /\ view' = view /\ work' = work /\ live' = live /\ posted' = posted
  BY DEF SessionLoaded
<1>3. posted = <<>> /\ TablesOK(disk) /\ IsQueue(posted) /\ \A j \in DOMAIN live : live[j].name = disk.sessions[j].name
  BY <1>1 DEF MirrorInv, Loaded, NameOK
<1>4. CASE outstanding' > 0
  <2>1. phase' = phase /\ mirror' = mirror
    BY <1>4 DEF SessionLoaded
  <2>2. \A j \in DOMAIN live : NameOK(j)
    BY <1>1 DEF MirrorInv, Loaded
  <2>3. \A j \in DOMAIN live' : NameOK(j)'
    BY <1>2, <2>2 DEF NameOK
  <2> QED BY <1>1, <1>2, <2>1, <2>3 DEF MirrorInv, MirrorShape
<1>5. CASE ~(outstanding' > 0)
  <2>1. phase' = "serve" /\ mirror' = [presets |-> view.presets, kvs |-> view.kvs, sessions |-> LiveNames]
    BY <1>5 DEF SessionLoaded, LiveNames
  <2>2. mirror'.presets = view.presets /\ mirror'.kvs = view.kvs /\ mirror'.sessions = LiveNames /\ LiveNames' = LiveNames
    BY <1>2, <2>1 DEF LiveNames
  <2>3. IsTable(view.presets) /\ IsTable(view.kvs) /\ IsTable(LiveNames)
    BY <1>1, <1>3 DEF TablesOK, IsTable, LiveNames
  <2> DEFINE P == view.presets
             K == view.kvs
             L == LiveNames
  <2>4. mirror' = [presets |-> mirror'.presets, sessions |-> mirror'.sessions, kvs |-> mirror'.kvs]
    <3>1. mirror' = [presets |-> P, kvs |-> K, sessions |-> L]
      BY <2>1
    <3> HIDE DEF P, K, L
    <3> QED BY <3>1
  <2>5. MirrorShape'
    BY <2>2, <2>3, <2>4 DEF MirrorShape
  <2> QED BY <1>1, <1>2, <1>3, <2>1, <2>2, <2>5, AgreeSelf, IdleMirror
<1> QED BY <1>4, <1>5

LEMMA MirrorStutters ==
    ASSUME MirrorInv, UNCHANGED recordVars
    PROVE  MirrorInv'
<1> USE DEF recordVars
<1>1. Busy' = Busy /\ Loaded' = Loaded /\ Known' = Known /\ LiveNames' = LiveNames
  BY DEF Busy, Loaded, Known, LiveNames
<1>2. TablesOK(disk') /\ TablesOK(view') /\ IsQueue(posted') /\ MirrorShape'
  BY DEF MirrorInv, MirrorShape
<1>3. phase = "serve" => ScriptOK' /\ MirrorOK'
  BY <1>1 DEF MirrorInv, ScriptOK, MirrorOK
<1>4. Loaded => \A i \in DOMAIN live' : NameOK(i)'
  BY DEF MirrorInv, NameOK
<1> QED BY <1>1, <1>2, <1>3, <1>4 DEF MirrorInv

LEMMA MirrorStep == RecordsInv /\ MirrorInv /\ [RecordsNext]_recordVars => MirrorInv'
<1> SUFFICES ASSUME RecordsInv, MirrorInv, [RecordsNext]_recordVars PROVE MirrorInv'
  OBVIOUS
<1>1. CASE UNCHANGED recordVars
  BY <1>1, MirrorStutters
<1>2. CASE Handler
  BY <1>2, HandlerMirror
<1>3. CASE Execute
  <2>1. phase = "serve" \/ phase = "migrate"
    BY <1>3 DEF Execute, Busy, NoWork, RecordsInv, PhaseOK
  <2>2. RecordsInv'
    BY <1>3, ExecuteKeeps
  <2> QED BY <1>3, <2>1, <2>2, ServeExecutes, MigrateExecutes
<1>4. CASE Fail \/ Commit \/ DeliverRecord
  BY <1>4, FailMirror, CommitMirror, DeliverMirror
<1>5. ASSUME NEW h \in TorrentIds, NEW s \in 0..MaxSessionId, NEW p \in 0..MaxPresetId, AddTorrent(h, s, p)
      PROVE  MirrorInv'
  BY <1>5, TorrentMirror
<1>6. ASSUME NEW i \in DOMAIN live, NEW h \in TorrentIds, StoreTorrent(i, h) PROVE MirrorInv'
  BY <1>6, TorrentMirror
<1>7. CASE Boot \/ LoadSessions \/ Crash
  BY <1>7, BootMirror
<1>8. ASSUME NEW i \in loading, SessionLoaded(i) PROVE MirrorInv'
  BY <1>8, LoadedMirror
<1> QED BY <1>1, <1>2, <1>3, <1>4, <1>5, <1>6, <1>7, <1>8 DEF RecordsNext

\* With no event left, what the subscriber knows is what there is.
LEMMA MirrorIsEnough ==
    ASSUME RecordsInv, MirrorInv
    PROVE  MirrorAgrees
<1> SUFFICES ASSUME phase = "serve", ~Busy, posted = <<>>
             PROVE  /\ mirror.presets = view.presets /\ mirror.kvs = view.kvs
                    /\ mirror.sessions = [i \in DOMAIN live |-> view.sessions[i].name]
  BY DEF MirrorAgrees
<1>1. /\ TablesOK(view) /\ MirrorShape
      /\ \A i \in DOMAIN live : live[i].name = view.sessions[i].name
      /\ Agree(mirror.presets, view.presets, "presets", Told(posted)) /\ Agree(mirror.kvs, view.kvs, "kvs", Told(posted))
      /\ Agree(mirror.sessions, LiveNames, "sessions", Told(posted))
  BY RestMirror
<1>2. Told(posted) = {}
  BY QueueEmpty
<1>3. /\ IsTable(mirror.presets) /\ IsTable(mirror.kvs) /\ IsTable(mirror.sessions)
      /\ IsTable(view.presets) /\ IsTable(view.kvs) /\ IsTable(LiveNames)
  BY <1>1 DEF TablesOK, MirrorShape, IsTable, LiveNames
<1>4. /\ Agree(mirror.presets, view.presets, "presets", {}) /\ Agree(mirror.kvs, view.kvs, "kvs", {})
      /\ Agree(mirror.sessions, LiveNames, "sessions", {})
  BY <1>1, <1>2
<1>5. mirror.presets = view.presets /\ mirror.kvs = view.kvs /\ mirror.sessions = LiveNames
  BY ONLY <1>3, <1>4, AgreeEqual, Zenon
<1>6. LiveNames = [i \in DOMAIN live |-> view.sessions[i].name]
  BY <1>1 DEF LiveNames
<1> QED BY <1>5, <1>6

-----------------------------------------------------------------------------
(* The theorems                                                               *)

LEMMA RecordsInvariant == RecordsSpec => []RecordsInv
<1>1. RecordsInit => RecordsInv
  BY RecordsInitInv
<1>2. RecordsInv /\ [RecordsNext]_recordVars => RecordsInv'
  BY RecordsStep
<1> QED BY <1>1, <1>2, PTL DEF RecordsSpec

\* Migrate commits the migrations and the version together, whichever of them fails and wherever
\* the process dies, and the HTTP server starts with the newest version and every session loaded.
THEOREM SchemaStaysWhole == RecordsSpec => []SchemaWhole
<1>1. RecordsInv => SchemaWhole
  BY InvIsEnough
<1> QED BY <1>1, RecordsInvariant, PTL

\* Sessions::Add, Sessions::Update and Sessions::Remove leave exactly one default session, on disk
\* and for the next handler, whichever statement fails.
THEOREM OneDefaultAlways == RecordsSpec => []OneDefaultSession
<1>1. RecordsInv => OneDefaultSession
  BY InvIsEnough
<1> QED BY <1>1, RecordsInvariant, PTL

\* sessions.remove takes no session that has torrents, and AddAutoIncrementIds lets no session
\* adopt the torrents of one that was removed.
THEOREM TorrentsKeepSession == RecordsSpec => []TorrentsStayHome
<1>1. RecordsInv => TorrentsStayHome
  BY InvIsEnough
<1> QED BY <1>1, RecordsInvariant, PTL

\* Each change of presets, key-value pairs and loaded sessions is announced by an event, also the
\* ones that follow from another: a subscriber that reads what Events::Deliver names knows all of it
\* once the events are delivered, whichever handlers failed and wherever the process died.
THEOREM ChangesAreAnnounced == RecordsSpec => []MirrorAgrees
<1>1. RecordsInit => RecordsInv /\ MirrorInv
  BY RecordsInitInv, MirrorInit
<1>2. RecordsInv /\ MirrorInv /\ [RecordsNext]_recordVars => (RecordsInv /\ MirrorInv)'
  BY RecordsStep, MirrorStep
<1>3. RecordsInv /\ MirrorInv => MirrorAgrees
  BY MirrorIsEnough
<1> QED BY <1>1, <1>2, <1>3, PTL DEF RecordsSpec
=============================================================================
