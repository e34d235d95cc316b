--------------------------- MODULE PluginsProofs ---------------------------
(***************************************************************************)
(* The plugin registry, for any paths, files, releases, configurations and  *)
(* requests, with LoadAll plugin by plugin.                                 *)
(***************************************************************************)
EXTENDS Plugins, TLAPS

IsFcn(g) == g = [i \in DOMAIN g |-> g[i]]

\* A registry r whose plugins in P are to be loaded.
ShapeOK(r) ==
    /\ r = [rows |-> r.rows, loads |-> r.loads, running |-> r.running]
    /\ IsFcn(r.rows) /\ IsFcn(r.loads) /\ IsFcn(r.running)
    /\ \A i \in DOMAIN r.rows :
          r.rows[i] = [path |-> r.rows[i].path, config |-> r.rows[i].config, version |-> r.rows[i].version]

\* A stored plugin was loaded, or its load failed.
LoadsOK(r, P) ==
    \A i \in DOMAIN r.rows \ P :
        i \in DOMAIN r.loads /\ (r.loads[i].error = NoError <=> i \in DOMAIN r.running)

\* A plugin that runs has what is stored, and the slug of its load.
RunningOK(r, P) ==
    \A i \in DOMAIN r.running :
        /\ i \in DOMAIN r.rows \ P /\ i \in DOMAIN r.loads
        /\ r.running[i].config = r.rows[i].config /\ r.running[i].path = r.rows[i].path
        /\ r.running[i].slug # CoreSlug
        /\ r.loads[i].slug = r.running[i].slug
        /\ r.running[i].slug = SlugOf(r.rows[i].path, r.loads[i].manifest)

SlugsOK(r) == \A i, j \in DOMAIN r.running : r.running[i].slug = r.running[j].slug => i = j

RegOK(r, P) == ShapeOK(r) /\ LoadsOK(r, P) /\ RunningOK(r, P) /\ SlugsOK(r)

FileSlug(r, f, i) == SlugOf(r.rows[i].path, ManifestSlug(f[r.rows[i].path]))

\* q is the registry after the load of plugin i of r: the load is noted, and the plugin runs if it
\* was accepted.
LoadMakes(r, f, i, q) ==
    /\ ShapeOK(q) /\ q.rows = r.rows
    /\ DOMAIN q.loads = DOMAIN r.loads \cup {i}
    /\ \A j \in DOMAIN r.loads \ {i} : q.loads[j] = r.loads[j]
    /\ q.loads[i].manifest = ManifestSlug(f[r.rows[i].path])
    /\ \/ q.running = r.running /\ q.loads[i].error # NoError
       \/ /\ q.running = With(r.running, i, [slug |-> FileSlug(r, f, i), path |-> r.rows[i].path, config |-> r.rows[i].config])
          /\ q.loads[i].error = NoError /\ q.loads[i].slug = FileSlug(r, f, i)
          /\ FileSlug(r, f, i) # CoreSlug
          /\ \A j \in (DOMAIN r.rows \cap DOMAIN r.running) \ {i} :
                j \in DOMAIN r.loads => SlugOf(r.rows[j].path, r.loads[j].manifest) # FileSlug(r, f, i)

\* What Load returns for a plugin that does not run: its load, and the plugin if it was accepted.
LEMMA LoadReturns ==
    ASSUME NEW r, ShapeOK(r), NEW f, NEW bad, NEW i \in DOMAIN r.rows, i \notin DOMAIN r.running
    PROVE  LoadMakes(r, f, i, Load(r, f, i, bad))
<1> DEFINE row == r.rows[i]
           c == f[row.path]
           slug == SlugOf(row.path, ManifestSlug(c))
           readable == HasSource(c) /\ ~ManifestThrows(c)
           last == [manifest |-> ManifestSlug(c), slug |-> IF readable THEN slug ELSE NoSlug, error |-> "error"]
           r1 == [rows |-> r.rows, loads |-> With(r.loads, i, last), running |-> r.running]
           accepted == /\ readable /\ IsValidSlug(slug)
                       /\ SlugOwners(r1, slug, i, DOMAIN r.running) = {}
                       /\ LuaLoads(c, i, bad)
           q == Load(r, f, i, bad)
<1> SUFFICES LoadMakes(r, f, i, q)
  OBVIOUS
<1>1. [r EXCEPT !.loads = With(@, i, last)] = r1
  BY DEF ShapeOK
<1>2. DOMAIN r1.loads = DOMAIN r.loads \cup {i} /\ r1.loads[i] = last /\ IsFcn(r1.loads)
      /\ \A j \in DOMAIN r.loads \ {i} : r1.loads[j] = r.loads[j]
  BY DEF With, IsFcn
<1>3. q = IF accepted
          THEN [r1 EXCEPT !.loads[i].error = NoError,
                          !.running = With(@, i, [slug |-> slug, path |-> row.path, config |-> row.config])]
          ELSE r1
  BY <1>1 DEF Load
<1>4. CASE ~accepted
  <2>1. q = r1
    BY <1>3, <1>4
  <2>2. ShapeOK(r1)
    BY <1>2 DEF ShapeOK
  <2>3. q.running = r.running /\ q.loads[i].error # NoError /\ q.loads[i].manifest = ManifestSlug(c)
    BY <1>2, <2>1 DEF NoError
  <2>4. q.rows = r.rows /\ q.loads = r1.loads
    BY <2>1
  <2>5. \A j \in DOMAIN r.loads \ {i} : q.loads[j] = r.loads[j]
    BY <1>2, <2>4
  <2>6. DOMAIN q.loads = DOMAIN r.loads \cup {i} /\ ShapeOK(q)
    BY <1>2, <2>1, <2>2
  <2> HIDE DEF q, r1
  <2> QED BY <2>3, <2>4, <2>5, <2>6 DEF LoadMakes
<1>5. CASE accepted
  <2> DEFINE done == [manifest |-> ManifestSlug(c), slug |-> slug, error |-> NoError]
             run == With(r.running, i, [slug |-> slug, path |-> row.path, config |-> row.config])
             loads == [j \in DOMAIN r.loads \cup {i} |-> IF j = i THEN done ELSE r.loads[j]]
  <2>1. last = [manifest |-> ManifestSlug(c), slug |-> slug, error |-> "error"]
    BY <1>5
  <2>2. q = [r1 EXCEPT !.loads[i].error = NoError, !.running = run]
    BY <1>3, <1>5
  <2>3. [r1.loads EXCEPT ![i].error = NoError] = loads
    <3>1. r1.loads = [j \in DOMAIN r.loads \cup {i} |-> IF j = i THEN last ELSE r.loads[j]]
      BY DEF With
    <3> HIDE DEF last, slug, c
    <3>2. [last EXCEPT !.error = NoError] = done
      BY <2>1
    <3> HIDE DEF done, r1
    <3> QED BY <3>1, <3>2
  <2>4. q = [rows |-> r.rows, loads |-> loads, running |-> run]
    BY <2>2, <2>3
  <2>5. IsFcn(loads) /\ IsFcn(run) /\ DOMAIN loads = DOMAIN r.loads \cup {i} /\ loads[i] = done
    BY DEF IsFcn, With
  <2>6. ShapeOK(q)
    BY <2>4, <2>5 DEF ShapeOK
  <2>7. slug # CoreSlug /\ {j \in (DOMAIN r.rows \ {i}) \cap DOMAIN r.running : Slug(r1, j) = slug} = {}
    BY <1>5 DEF SlugOwners
  <2>8. ASSUME NEW j \in (DOMAIN r.rows \cap DOMAIN r.running) \ {i}, j \in DOMAIN r.loads
        PROVE  SlugOf(r.rows[j].path, r.loads[j].manifest) # slug
    <3>1. Slug(r1, j) = SlugOf(r.rows[j].path, r.loads[j].manifest)
      BY <1>2, <2>8 DEF Slug, Manifest
    <3>2. Slug(r1, j) # slug
      BY <2>7
    <3> QED BY <3>1, <3>2
  <2>9. /\ q.rows = r.rows /\ q.loads = loads /\ q.running = run
        /\ loads[i].manifest = ManifestSlug(c) /\ loads[i].error = NoError /\ loads[i].slug = slug
        /\ \A j \in DOMAIN r.loads \ {i} : loads[j] = r.loads[j]
    BY <2>4, <2>5
  <2>10. slug = FileSlug(r, f, i) /\ c = f[r.rows[i].path]
    BY DEF FileSlug
  <2> HIDE DEF q, loads, slug
  <2> QED BY <2>5, <2>6, <2>7, <2>8, <2>9, <2>10 DEF LoadMakes
<1> QED BY <1>4, <1>5

\* A load writes no row.
LEMMA LoadRows ==
    ASSUME NEW r, ShapeOK(r), NEW f, NEW bad, NEW i \in DOMAIN r.rows, i \notin DOMAIN r.running
    PROVE  Load(r, f, i, bad).rows = r.rows
<1>1. LoadMakes(r, f, i, Load(r, f, i, bad))
  BY LoadReturns
<1> QED BY <1>1 DEF LoadMakes

\* A load takes a plugin off those that are to be loaded.
LEMMA LoadKeeps ==
    ASSUME NEW r, NEW P, RegOK(r, P), NEW f, NEW bad, NEW i \in DOMAIN r.rows \cap P
    PROVE  RegOK(Load(r, f, i, bad), P \ {i})
<1> DEFINE q == Load(r, f, i, bad)
           slug == FileSlug(r, f, i)
<1>1. i \notin DOMAIN r.running
  BY DEF RegOK, RunningOK
<1>2. LoadMakes(r, f, i, q)
  BY <1>1, LoadReturns DEF RegOK
<1> SUFFICES RegOK(q, P \ {i})
  OBVIOUS
<1> HIDE DEF q
<1>3. CASE q.running = r.running /\ q.loads[i].error # NoError
  <2>1. LoadsOK(q, P \ {i})
    BY <1>1, <1>2, <1>3 DEF LoadMakes, RegOK, LoadsOK
  <2>2. RunningOK(q, P \ {i})
    BY <1>1, <1>2, <1>3 DEF LoadMakes, RegOK, RunningOK
  <2>3. SlugsOK(q)
    BY <1>3 DEF RegOK, SlugsOK
  <2> QED BY <1>2, <2>1, <2>2, <2>3 DEF LoadMakes, RegOK
<1>4. CASE ~(q.running = r.running /\ q.loads[i].error # NoError)
  <2>1. /\ DOMAIN q.running = DOMAIN r.running \cup {i}
        /\ q.running[i] = [slug |-> slug, path |-> r.rows[i].path, config |-> r.rows[i].config]
        /\ \A j \in DOMAIN r.running : q.running[j] = r.running[j]
    BY <1>1, <1>2, <1>4 DEF LoadMakes, With
  <2>2. /\ q.loads[i].error = NoError /\ q.loads[i].slug = slug /\ slug # CoreSlug
        /\ \A j \in (DOMAIN r.rows \cap DOMAIN r.running) \ {i} :
              j \in DOMAIN r.loads => SlugOf(r.rows[j].path, r.loads[j].manifest) # slug
    BY <1>2, <1>4 DEF LoadMakes
  <2>3. LoadsOK(q, P \ {i})
    BY <1>1, <1>2, <2>1, <2>2 DEF LoadMakes, RegOK, LoadsOK
  <2>4. RunningOK(q, P \ {i})
    <3>1. ASSUME NEW j \in DOMAIN r.running
          PROVE  /\ j # i /\ j \in DOMAIN q.rows \ (P \ {i}) /\ j \in DOMAIN q.loads
                 /\ q.loads[j] = r.loads[j] /\ q.running[j] = r.running[j]
      BY <1>1, <1>2, <2>1 DEF LoadMakes, RegOK, RunningOK
    <3>2. \A j \in DOMAIN r.running :
             /\ j \in DOMAIN q.rows \ (P \ {i}) /\ j \in DOMAIN q.loads
             /\ q.running[j].config = q.rows[j].config /\ q.running[j].path = q.rows[j].path
             /\ q.running[j].slug # CoreSlug
             /\ q.loads[j].slug = q.running[j].slug
             /\ q.running[j].slug = SlugOf(q.rows[j].path, q.loads[j].manifest)
      BY <1>2, <3>1 DEF LoadMakes, RegOK, RunningOK
    <3>3. /\ i \in DOMAIN q.rows \ (P \ {i}) /\ i \in DOMAIN q.loads
          /\ q.running[i].config = q.rows[i].config /\ q.running[i].path = q.rows[i].path
          /\ q.running[i].slug # CoreSlug
          /\ q.loads[i].slug = q.running[i].slug
          /\ q.running[i].slug = SlugOf(q.rows[i].path, q.loads[i].manifest)
      BY <1>2, <2>1, <2>2 DEF LoadMakes, FileSlug
    <3> QED BY <2>1, <3>2, <3>3 DEF RunningOK
  <2>5. SlugsOK(q)
    <3>1. \A j \in DOMAIN r.running : j # i /\ q.running[j].slug # slug
      BY <1>1, <2>1, <2>2 DEF RegOK, RunningOK
    <3> QED BY <2>1, <3>1 DEF RegOK, SlugsOK
  <2> QED BY <1>2, <2>3, <2>4, <2>5 DEF LoadMakes, RegOK
<1> QED BY <1>3, <1>4

WriteRow(r, i, row) == [rows |-> With(r.rows, i, row), loads |-> r.loads, running |-> Without(r.running, i)]

\* The row of plugin i is written, new or not, and the plugin does not run: it is to be loaded.
LEMMA WriteRowKeeps ==
    ASSUME NEW r, NEW P, RegOK(r, P), NEW i, NEW row,
           row = [path |-> row.path, config |-> row.config, version |-> row.version]
    PROVE  RegOK(WriteRow(r, i, row), P \cup {i}) /\ DOMAIN WriteRow(r, i, row).rows = DOMAIN r.rows \cup {i}
<1> DEFINE q == WriteRow(r, i, row)
<1>1. /\ DOMAIN q.rows = DOMAIN r.rows \cup {i} /\ q.rows[i] = row /\ IsFcn(q.rows)
      /\ \A j \in DOMAIN r.rows \ {i} : q.rows[j] = r.rows[j]
  BY DEF WriteRow, With, IsFcn
<1>2. /\ DOMAIN q.running = DOMAIN r.running \ {i} /\ IsFcn(q.running)
      /\ \A j \in DOMAIN q.running : q.running[j] = r.running[j]
  BY DEF WriteRow, Without, IsFcn
<1>3. ShapeOK(q) /\ q.loads = r.loads
  BY <1>1, <1>2 DEF WriteRow, RegOK, ShapeOK
<1> HIDE DEF q
<1>4. LoadsOK(q, P \cup {i})
  BY <1>1, <1>2, <1>3 DEF RegOK, LoadsOK
<1>5. RunningOK(q, P \cup {i})
  BY <1>1, <1>2, <1>3 DEF RegOK, RunningOK
<1>6. SlugsOK(q)
  BY <1>2 DEF RegOK, SlugsOK
<1> QED BY <1>1, <1>3, <1>4, <1>5, <1>6 DEF RegOK, q

\* Unload takes the plugin off those that run, and nothing else.
LEMMA UnloadMakes ==
    ASSUME NEW rows, NEW loads, NEW running, NEW i
    PROVE  Unload([rows |-> rows, loads |-> loads, running |-> running], i)
               = [rows |-> rows, loads |-> loads, running |-> Without(running, i)]
BY DEF Unload

\* A stored plugin is unloaded and loaded again.
LEMMA ReloadKeeps ==
    ASSUME NEW r, RegOK(r, {}), NEW f, NEW bad, NEW i \in DOMAIN r.rows
    PROVE  RegOK(Reload(r, f, i, bad), {}) /\ Reload(r, f, i, bad).rows = r.rows
<1> DEFINE q == WriteRow(r, i, r.rows[i])
<1>1. Unload(r, i) = q /\ q.rows = r.rows
  BY DEF WriteRow, Unload, With, RegOK, ShapeOK, IsFcn
<1>2. RegOK(q, {} \cup {i}) /\ DOMAIN q.rows = DOMAIN r.rows \cup {i}
  <2>1. r.rows[i] = [path |-> r.rows[i].path, config |-> r.rows[i].config, version |-> r.rows[i].version]
    BY DEF RegOK, ShapeOK
  <2> QED BY <2>1, WriteRowKeeps
<1>3. i \in DOMAIN q.rows \cap ({} \cup {i}) /\ ({} \cup {i}) \ {i} = {}
  BY <1>2
<1> HIDE DEF q
<1>4. RegOK(Load(q, f, i, bad), {})
  BY <1>2, <1>3, LoadKeeps
<1>5. i \notin DOMAIN q.running /\ ShapeOK(q)
  BY <1>2 DEF RegOK, RunningOK
<1>6. Load(q, f, i, bad).rows = q.rows
  BY <1>3, <1>5, LoadRows
<1> QED BY <1>1, <1>4, <1>6 DEF Reload

\* The requests and the ids.
ReqRow(row) == row = [path |-> ReleaseZip, config |-> row.config, version |-> row.version]

RequestsOK ==
    /\ DOMAIN req = Requests
    /\ \A r \in Requests :
          /\ req[r] = [pc |-> req[r].pc, id |-> req[r].id, row |-> req[r].row]
          /\ req[r].pc \in {"idle", "release", "asset"} /\ ReqRow(req[r].row)
          /\ req[r].pc # "idle" => req[r].row.version \in Versions

IdsOK == nextId \in Nat \ {0} /\ nextId <= MaxId + 1 /\ DOMAIN reg.rows \subseteq 1..(nextId - 1) /\ toLoad \subseteq DOMAIN reg.rows

FilesOK == files \in [Paths -> Contents \cup {Release[v] : v \in Versions} \cup {Absent}]

RegInv == RegOK(reg, toLoad) /\ RequestsOK /\ IdsOK /\ FilesOK /\ told = DOMAIN reg.running

\* A new row is inserted and its plugin loaded.
LEMMA InsertKeeps ==
    ASSUME RegInv, toLoad = {}, UNCHANGED toLoad, NEW f, NEW row, NEW bad, InsertAndLoad(f, row, bad),
           row = [path |-> row.path, config |-> row.config, version |-> row.version]
    PROVE  /\ RegOK(reg, toLoad)' /\ IdsOK' /\ told' = DOMAIN reg'.running
           /\ nextId \notin DOMAIN reg.rows /\ reg'.rows = With(reg.rows, nextId, row)
           /\ reg' = Load([reg EXCEPT !.rows = With(@, nextId, row)], f, nextId, bad)
<1> DEFINE q == WriteRow(reg, nextId, row)
<1>1. nextId \notin DOMAIN reg.rows /\ nextId \in Nat \ {0} /\ nextId <= MaxId /\ nextId' = nextId + 1
  BY DEF RegInv, IdsOK, InsertAndLoad
<1>2. Without(reg.running, nextId) = reg.running
  <2>1. nextId \notin DOMAIN reg.running
    BY <1>1 DEF RegInv, RegOK, RunningOK
  <2>2. IsFcn(reg.running)
    BY DEF RegInv, RegOK, ShapeOK
  <2> QED BY <2>1, <2>2 DEF Without, IsFcn
<1>3. [reg EXCEPT !.rows = With(@, nextId, row)] = q
  BY <1>2 DEF WriteRow, RegInv, RegOK, ShapeOK
<1>4. reg' = Load(q, f, nextId, bad) /\ told' = DOMAIN reg'.running
  BY <1>3 DEF InsertAndLoad, Becomes
<1>5. RegOK(q, {} \cup {nextId}) /\ DOMAIN q.rows = DOMAIN reg.rows \cup {nextId}
  <2>1. RegOK(reg, {})
    BY DEF RegInv
  <2> QED BY <2>1, WriteRowKeeps
<1>6. nextId \in DOMAIN q.rows \cap ({} \cup {nextId}) /\ ({} \cup {nextId}) \ {nextId} = {}
      /\ q.rows = With(reg.rows, nextId, row)
  BY <1>5 DEF WriteRow
<1>7. [reg EXCEPT !.rows = With(@, nextId, row)] = q
  BY <1>3
<1> HIDE DEF q
<1>8. RegOK(reg', {})
  BY <1>4, <1>5, <1>6, LoadKeeps
<1>9. nextId \notin DOMAIN q.running /\ ShapeOK(q)
  BY <1>5 DEF RegOK, RunningOK
<1>10. reg'.rows = q.rows
  BY <1>4, <1>6, <1>9, LoadRows
<1>11. IdsOK'
  <2>1. nextId' \in Nat \ {0} /\ nextId' <= MaxId + 1 /\ nextId' - 1 = nextId
    BY <1>1, PluginsAssumption
  <2>2. DOMAIN reg.rows \subseteq 1..nextId /\ nextId \in 1..nextId
    <3>1. DOMAIN reg.rows \subseteq 1..(nextId - 1)
      BY DEF RegInv, IdsOK
    <3> QED BY <1>1, <3>1
  <2>3. DOMAIN reg'.rows = DOMAIN reg.rows \cup {nextId}
    BY <1>5, <1>10
  <2> QED BY <2>1, <2>2, <2>3 DEF IdsOK
<1> QED BY <1>1, <1>4, <1>6, <1>7, <1>8, <1>10, <1>11

\* A row is written again, if it is still there, and its plugin reloaded.
LEMMA UpdateKeeps ==
    ASSUME RegInv, toLoad = {}, UNCHANGED <<toLoad, nextId>>, NEW f, NEW i, NEW row, NEW bad,
           Becomes(UpdateRow(reg, f, i, row, bad)),
           row = [path |-> row.path, config |-> row.config, version |-> row.version]
    PROVE  /\ RegOK(reg, toLoad)' /\ IdsOK' /\ told' = DOMAIN reg'.running
           /\ DOMAIN reg'.rows = DOMAIN reg.rows
           /\ \A j \in DOMAIN reg.rows \ {i} : reg'.rows[j] = reg.rows[j]
           /\ i \in DOMAIN reg.rows => reg'.rows[i] = row
           /\ i \notin DOMAIN reg.rows => reg' = reg
           /\ i \in DOMAIN reg.rows =>
                 reg' = Load(WriteRow(reg, i, row), f, i, bad)
<1>1. told' = DOMAIN reg'.running /\ reg' = UpdateRow(reg, f, i, row, bad)
  BY DEF Becomes
<1>2. CASE i \notin DOMAIN reg.rows
  <2>1. [reg EXCEPT !.rows = reg.rows] = reg
    BY DEF RegInv, RegOK, ShapeOK
  <2>2. Without(reg.running, i) = reg.running
    <3>1. i \notin DOMAIN reg.running
      BY <1>2 DEF RegInv, RegOK, RunningOK
    <3>2. IsFcn(reg.running)
      BY DEF RegInv, RegOK, ShapeOK
    <3> QED BY <3>1, <3>2 DEF Without, IsFcn
  <2>3. Unload(reg, i) = reg
    BY <2>2 DEF Unload, RegInv, RegOK, ShapeOK
  <2>4. reg' = reg
    BY <1>1, <1>2, <2>1, <2>3 DEF UpdateRow, Reload, Load
  <2>5. RegOK(reg, toLoad)' /\ IdsOK'
    BY <2>4 DEF RegInv, IdsOK
  <2> QED BY <1>1, <1>2, <2>4, <2>5
<1>3. CASE i \in DOMAIN reg.rows
  <2> DEFINE q == WriteRow(reg, i, row)
  <2>1. [reg.rows EXCEPT ![i] = row] = With(reg.rows, i, row)
    BY <1>3 DEF With, RegInv, RegOK, ShapeOK, IsFcn
  <2>2. Unload([reg EXCEPT !.rows = With(reg.rows, i, row)], i) = q
    <3>1. [reg EXCEPT !.rows = With(reg.rows, i, row)]
             = [rows |-> With(reg.rows, i, row), loads |-> reg.loads, running |-> reg.running]
      BY DEF RegInv, RegOK, ShapeOK
    <3> QED BY <3>1, UnloadMakes DEF WriteRow
  <2>3. reg' = Load(q, f, i, bad)
    BY <1>1, <1>3, <2>1, <2>2 DEF UpdateRow, Reload
  <2>4. RegOK(q, {} \cup {i}) /\ DOMAIN q.rows = DOMAIN reg.rows \cup {i}
    <3>1. RegOK(reg, {})
      BY DEF RegInv
    <3> QED BY <3>1, WriteRowKeeps
  <2>5. i \in DOMAIN q.rows \cap ({} \cup {i}) /\ ({} \cup {i}) \ {i} = {} /\ DOMAIN q.rows = DOMAIN reg.rows
    BY <1>3, <2>4
  <2>6. q.rows[i] = row /\ \A j \in DOMAIN reg.rows \ {i} : q.rows[j] = reg.rows[j]
    BY DEF WriteRow, With
  <2> HIDE DEF q
  <2>7. RegOK(reg', {})
    BY <2>3, <2>4, <2>5, LoadKeeps
  <2>8. i \notin DOMAIN q.running /\ ShapeOK(q)
    BY <2>4 DEF RegOK, RunningOK
  <2>9. reg'.rows = q.rows
    BY <2>3, <2>5, <2>8, LoadRows
  <2>10. IdsOK'
    BY <2>5, <2>9 DEF RegInv, IdsOK
  <2> QED BY <1>1, <1>3, <2>3, <2>5, <2>6, <2>7, <2>9, <2>10 DEF q
<1> QED BY <1>2, <1>3

\* The requests that suspend or answer keep their rows; a version is known when they suspend.
LEMMA RequestKeeps ==
    ASSUME RequestsOK, NEW r \in Requests, NEW pc \in {"idle", "release", "asset"}, NEW i, NEW row, ReqRow(row),
           pc # "idle" => row.version \in Versions, Suspend(r, pc, i, row)
    PROVE  RequestsOK'
<1>1. \A q \in Requests : req'[q] = IF q = r THEN [pc |-> pc, id |-> i, row |-> row] ELSE req[q]
  BY DEF Suspend, RequestsOK
<1>2. DOMAIN req' = Requests
  BY DEF Suspend, RequestsOK
<1> QED BY <1>1, <1>2 DEF RequestsOK

\* A request that answers is idle.
LEMMA AnswerKeeps ==
    ASSUME RequestsOK, NEW r \in Requests, Answer(r)
    PROVE  RequestsOK'
<1> DEFINE row == [path |-> ReleaseZip, config |-> NoVersion, version |-> NoVersion]
<1>1. Suspend(r, "idle", 0, row) /\ ReqRow(row)
  BY DEF Answer, Suspend, Idle, ReqRow
<1> HIDE DEF row
<1> QED BY <1>1, RequestKeeps

\* The registry starts with rows that are to be loaded.
LEMMA PluginsInit == Init => RegInv
<1> SUFFICES ASSUME Init PROVE RegInv
  OBVIOUS
<1>1. PICK n \in 0..MaxId : \E config \in Configs : \E p \in [1..n -> LocalPaths] :
          /\ reg = [rows |-> [i \in 1..n |-> [path |-> p[i], config |-> config, version |-> NoVersion]],
                    loads |-> <<>>, running |-> <<>>]
          /\ nextId = n + 1 /\ toLoad = 1..n
  BY DEF Init
<1>2. PICK config \in Configs : \E p \in [1..n -> LocalPaths] :
          /\ reg = [rows |-> [i \in 1..n |-> [path |-> p[i], config |-> config, version |-> NoVersion]],
                    loads |-> <<>>, running |-> <<>>]
          /\ nextId = n + 1 /\ toLoad = 1..n
  BY <1>1
<1>3. PICK p \in [1..n -> LocalPaths] :
          /\ reg = [rows |-> [i \in 1..n |-> [path |-> p[i], config |-> config, version |-> NoVersion]],
                    loads |-> <<>>, running |-> <<>>]
          /\ nextId = n + 1 /\ toLoad = 1..n
  BY <1>2
<1>4. /\ DOMAIN reg.rows = 1..n /\ DOMAIN reg.running = {} /\ DOMAIN reg.loads = {}
      /\ \A i \in 1..n : reg.rows[i] = [path |-> p[i], config |-> config, version |-> NoVersion]
  BY <1>3
<1>5. IsFcn(reg.rows) /\ IsFcn(reg.loads) /\ IsFcn(reg.running)
  BY <1>3 DEF IsFcn
<1>6. reg = [rows |-> reg.rows, loads |-> reg.loads, running |-> reg.running]
  BY <1>3
<1>7. RegOK(reg, toLoad)
  BY <1>3, <1>4, <1>5, <1>6 DEF RegOK, ShapeOK, LoadsOK, RunningOK, SlugsOK
<1>8. IdsOK
  BY <1>3, <1>4, PluginsAssumption DEF IdsOK
<1>9. RequestsOK
  BY DEF Init, RequestsOK, ReqRow, Idle
<1>10. FilesOK /\ told = {}
  BY DEF Init, FilesOK
<1> QED BY <1>4, <1>7, <1>8, <1>9, <1>10 DEF RegInv

\* Requests keep the registry right.
LEMMA ServeKeeps ==
    ASSUME RegInv, toLoad = {}, UNCHANGED toLoad, Serve
    PROVE  RegInv'
<1>1. ASSUME NEW path \in Paths, NEW config \in Configs, NEW bad, AddPlugin(path, config, bad) PROVE RegInv'
  <2> DEFINE row == [path |-> path, config |-> config, version |-> NoVersion]
  <2>1. InsertAndLoad(files, row, bad) /\ UNCHANGED <<files, req>>
    BY <1>1 DEF AddPlugin
  <2>2. row = [path |-> row.path, config |-> row.config, version |-> row.version]
    OBVIOUS
  <2> HIDE DEF row
  <2>3. RegOK(reg, toLoad)' /\ IdsOK' /\ told' = DOMAIN reg'.running
    BY <2>1, <2>2, InsertKeeps
  <2> QED BY <2>1, <2>3 DEF RegInv, RequestsOK, FilesOK
<1>2. ASSUME NEW i, NEW path \in Paths, NEW config \in Configs, NEW bad, UpdatePlugin(i, path, config, bad) PROVE RegInv'
  <2> DEFINE row == [path |-> path, config |-> config, version |-> reg.rows[i].version]
  <2>1. i \in DOMAIN reg.rows /\ Becomes(UpdateRow(reg, files, i, row, bad)) /\ UNCHANGED <<files, nextId, req>>
    BY <1>2 DEF UpdatePlugin
  <2>2. row = [path |-> row.path, config |-> row.config, version |-> row.version]
    OBVIOUS
  <2> HIDE DEF row
  <2>3. RegOK(reg, toLoad)' /\ IdsOK' /\ told' = DOMAIN reg'.running
    BY <2>1, <2>2, UpdateKeeps
  <2> QED BY <2>1, <2>3 DEF RegInv, RequestsOK, FilesOK
<1>3. ASSUME NEW i, NEW bad, ReloadPlugin(i, bad) PROVE RegInv'
  <2>1. i \in DOMAIN reg.rows /\ reg' = Reload(reg, files, i, bad) /\ told' = DOMAIN reg'.running
        /\ UNCHANGED <<files, nextId, req>>
    BY <1>3 DEF ReloadPlugin, Becomes
  <2>2. RegOK(reg', {}) /\ reg'.rows = reg.rows
    BY <2>1, ReloadKeeps DEF RegInv
  <2> QED BY <2>1, <2>2 DEF RegInv, RequestsOK, FilesOK, IdsOK
<1>4. ASSUME NEW i, RemovePlugin(i) PROVE RegInv'
  <2>1. /\ reg' = [rows |-> Without(reg.rows, i), loads |-> Without(reg.loads, i), running |-> Without(reg.running, i)]
        /\ told' = DOMAIN reg'.running /\ UNCHANGED <<files, nextId, req>>
    BY <1>4 DEF RemovePlugin, Becomes, Unload, RegInv, RegOK, ShapeOK
  <2>2. /\ DOMAIN reg'.rows = DOMAIN reg.rows \ {i} /\ DOMAIN reg'.loads = DOMAIN reg.loads \ {i}
        /\ DOMAIN reg'.running = DOMAIN reg.running \ {i}
        /\ \A j \in DOMAIN reg'.rows : reg'.rows[j] = reg.rows[j]
        /\ \A j \in DOMAIN reg'.loads : reg'.loads[j] = reg.loads[j]
        /\ \A j \in DOMAIN reg'.running : reg'.running[j] = reg.running[j]
        /\ IsFcn(reg'.rows) /\ IsFcn(reg'.loads) /\ IsFcn(reg'.running)
    BY <2>1 DEF Without, IsFcn
  <2>3. ShapeOK(reg')
    BY <2>1, <2>2 DEF RegInv, RegOK, ShapeOK
  <2>4. LoadsOK(reg', toLoad')
    BY <2>2 DEF RegInv, RegOK, LoadsOK
  <2>5. RunningOK(reg', toLoad')
    BY <2>2 DEF RegInv, RegOK, RunningOK
  <2>6. SlugsOK(reg')
    BY <2>2 DEF RegInv, RegOK, SlugsOK
  <2>7. IdsOK'
    BY <2>1, <2>2 DEF RegInv, IdsOK
  <2> QED BY <2>1, <2>3, <2>4, <2>5, <2>6, <2>7 DEF RegInv, RegOK, RequestsOK, FilesOK
<1>5. ASSUME NEW r \in Requests, RequestsOK', UNCHANGED <<files, reg, told, nextId>> PROVE RegInv'
  BY <1>5 DEF RegInv, IdsOK, FilesOK
<1>6. ASSUME NEW r \in Requests, NEW v \in Versions, NEW config \in Configs, Install(r, v, config) PROVE RegInv'
  <2> DEFINE row == [path |-> ReleaseZip, config |-> config, version |-> v]
  <2>1. Suspend(r, "release", 0, row) /\ ReqRow(row) /\ row.version \in Versions /\ UNCHANGED <<files, reg, told, nextId>>
    BY <1>6 DEF Install, ReqRow
  <2> HIDE DEF row
  <2>2. RequestsOK'
    BY <2>1, RequestKeeps DEF RegInv
  <2> QED BY <1>5, <2>1, <2>2
<1>7. ASSUME NEW r \in Requests, NEW i, NEW v \in Versions, Upgrade(r, i, v) PROVE RegInv'
  <2> DEFINE row == [path |-> ReleaseZip, config |-> reg.rows[i].config, version |-> v]
  <2>1. Suspend(r, "release", i, row) /\ ReqRow(row) /\ row.version \in Versions /\ UNCHANGED <<files, reg, told, nextId>>
    BY <1>7 DEF Upgrade, ReqRow
  <2> HIDE DEF row
  <2>2. RequestsOK'
    BY <2>1, RequestKeeps DEF RegInv
  <2> QED BY <1>5, <2>1, <2>2
<1>8. ASSUME NEW r \in Requests, FetchAsset(r) \/ FetchFails(r) \/ DownloadRefused(r) PROVE RegInv'
  <2>1. CASE FetchAsset(r)
    <3>1. Suspend(r, "asset", req[r].id, req[r].row) /\ UNCHANGED <<files, reg, told, nextId>>
      BY <2>1 DEF FetchAsset
    <3>2. ReqRow(req[r].row) /\ req[r].row.version \in Versions
      BY <2>1 DEF FetchAsset, RegInv, RequestsOK
    <3>3. RequestsOK'
      BY <3>1, <3>2, RequestKeeps DEF RegInv
    <3> QED BY <1>5, <3>1, <3>3
  <2>2. CASE FetchFails(r) \/ DownloadRefused(r)
    <3>1. Answer(r) /\ UNCHANGED <<files, reg, told, nextId>>
      BY <2>2 DEF FetchFails, DownloadRefused
    <3> QED BY <1>5, <3>1, AnswerKeeps DEF RegInv
  <2> QED BY <1>8, <2>1, <2>2
<1>9. ASSUME NEW r \in Requests, req[r].pc = "asset",
             files' = [files EXCEPT ![ReleaseZip] = Release[req[r].row.version]]
      PROVE  FilesOK'
  <2>1. req[r].row.version \in Versions
    BY <1>9 DEF RegInv, RequestsOK
  <2> QED BY <1>9, <2>1 DEF RegInv, FilesOK
<1>10. ASSUME NEW r \in Requests, NEW bad, FinishInstall(r, bad) \/ FinishUpgrade(r, bad) PROVE RegInv'
  <2> DEFINE row == req[r].row
             f == [files EXCEPT ![ReleaseZip] = Release[row.version]]
  <2>1. row = [path |-> row.path, config |-> row.config, version |-> row.version]
    <3>1. ReqRow(row)
      BY DEF RegInv, RequestsOK
    <3> HIDE DEF row
    <3> QED BY <3>1 DEF ReqRow
  <2>2. FilesOK' /\ RequestsOK'
    BY <1>9, <1>10, AnswerKeeps DEF FinishInstall, FinishUpgrade, RegInv
  <2> HIDE DEF row
  <2>3. CASE FinishInstall(r, bad)
    <3>1. InsertAndLoad(f, row, bad)
      BY <2>3 DEF FinishInstall, row
    <3> HIDE DEF f
    <3>2. RegOK(reg, toLoad)' /\ IdsOK' /\ told' = DOMAIN reg'.running
      BY <2>1, <3>1, InsertKeeps
    <3> QED BY <2>2, <3>2 DEF RegInv
  <2>4. CASE FinishUpgrade(r, bad)
    <3>1. Becomes(UpdateRow(reg, f, req[r].id, row, bad)) /\ UNCHANGED nextId
      BY <2>4 DEF FinishUpgrade, row
    <3> HIDE DEF f
    <3>2. RegOK(reg, toLoad)' /\ IdsOK' /\ told' = DOMAIN reg'.running
      BY <2>1, <3>1, UpdateKeeps
    <3> QED BY <2>2, <3>2 DEF RegInv
  <2> QED BY <1>10, <2>3, <2>4
<1> QED BY <1>1, <1>2, <1>3, <1>4, <1>6, <1>7, <1>8, <1>10 DEF Serve

\* LoadAll, a restart and the users who edit files keep it right as well.
LEMMA RegStep ==
    ASSUME RegInv, [Next]_vars
    PROVE  RegInv'
<1>1. CASE toLoad = {} /\ UNCHANGED toLoad /\ Serve
  BY <1>1, ServeKeeps
<1>2. ASSUME NEW i \in toLoad, NEW bad, LoadNext(i, bad) PROVE RegInv'
  <2>1. /\ reg' = Load(reg, files, i, bad) /\ told' = DOMAIN reg'.running /\ toLoad' = toLoad \ {i}
        /\ UNCHANGED <<files, nextId, req>>
    BY <1>2 DEF LoadNext, Becomes
  <2>2. i \in DOMAIN reg.rows \cap toLoad
    BY DEF RegInv, IdsOK
  <2>3. i \notin DOMAIN reg.running /\ ShapeOK(reg)
    BY DEF RegInv, RegOK, RunningOK
  <2>4. RegOK(reg', toLoad')
    BY <2>1, <2>2, LoadKeeps DEF RegInv
  <2>5. reg'.rows = reg.rows
    BY <2>1, <2>2, <2>3, LoadRows
  <2> QED BY <2>1, <2>4, <2>5 DEF RegInv, IdsOK, RequestsOK, FilesOK
<1>3. ASSUME NEW path \in Paths, NEW c \in Contents, EditFile(path, c) PROVE RegInv'
  <2>1. FilesOK'
    BY <1>3 DEF EditFile, RegInv, FilesOK
  <2> QED BY <1>3, <2>1 DEF EditFile, RegInv, IdsOK, RequestsOK
<1>4. CASE Restart
  <2>1. /\ reg' = [rows |-> reg.rows, loads |-> <<>>, running |-> <<>>]
        /\ told' = DOMAIN reg'.running /\ toLoad' = DOMAIN reg.rows /\ UNCHANGED <<files, nextId>>
    BY <1>4 DEF Restart, Becomes, RegInv, RegOK, ShapeOK
  <2>2. DOMAIN reg'.loads = {} /\ DOMAIN reg'.running = {} /\ IsFcn(reg'.loads) /\ IsFcn(reg'.running)
    BY <2>1 DEF IsFcn
  <2>3. ShapeOK(reg')
    BY <2>1, <2>2 DEF RegInv, RegOK, ShapeOK
  <2>4. LoadsOK(reg', toLoad') /\ RunningOK(reg', toLoad') /\ SlugsOK(reg')
    BY <2>1, <2>2 DEF LoadsOK, RunningOK, SlugsOK
  <2>5. RequestsOK'
    BY <1>4 DEF Restart, RequestsOK, ReqRow, Idle
  <2>6. IdsOK' /\ FilesOK'
    BY <2>1 DEF RegInv, IdsOK, FilesOK
  <2> QED BY <2>1, <2>3, <2>4, <2>5, <2>6 DEF RegInv, RegOK
<1>5. CASE UNCHANGED vars
  BY <1>5 DEF vars, RegInv, RequestsOK, IdsOK, FilesOK
<1> QED BY <1>1, <1>2, <1>3, <1>4, <1>5 DEF Next

\* The registry is right in every state.
LEMMA RegIsRight == Spec => []RegInv
BY PluginsInit, RegStep, PTL DEF Spec

\* Plugins::Load, Unload, Update and Remove, for any files, releases, requests and restarts: a
\* plugin that runs is stored with what it runs, has no error and was announced; one that does
\* not run has its error.
THEOREM PluginsRunWhatIsStored == Spec => []RunsWhatIsStored
<1>1. RegInv => RunsWhatIsStored
  BY DEF RegInv, RegOK, LoadsOK, RunningOK, RunsWhatIsStored
<1> QED BY <1>1, RegIsRight, PTL

\* Plugins::Load and SlugOwner, whatever the files, their order and their changes: of the plugins
\* that run at most one has a slug, and none that of the core plugin.
THEOREM SlugsAreUnique == Spec => []SlugUnique
<1>1. RegInv => SlugUnique
  BY DEF RegInv, RegOK, RunningOK, SlugsOK, SlugUnique, Slug, Manifest
<1> QED BY <1>1, RegIsRight, PTL

-----------------------------------------------------------------------------
(* Paths                                                                      *)

\* The releases that InstallDownload can accept.
Plugin(c) == c.kind = "plugin"

\* Every row whose path is the zip's has the name that the releases have, when it was loaded,
\* so a download that comes later meets it by its slug.
ZipRowsOK(r, P) ==
    \A i \in DOMAIN r.rows : r.rows[i].path = ReleaseZip =>
        /\ Plugin(files[ReleaseZip])
        /\ i \notin P => r.loads[i].manifest = files[ReleaseZip].slug

ZipOK == files[ReleaseZip] # Absent => \E v \in Versions : files[ReleaseZip] = Release[v] /\ Plugin(Release[v])

PathInv == ZipOK /\ ZipRowsOK(reg, toLoad) /\ PathUnique

\* What the steps that replace the zip leave: they write the version of every row that has it.
ZipStep ==
    files'[ReleaseZip] # files[ReleaseZip] =>
        \A i \in DOMAIN reg'.rows : reg'.rows[i].path = ReleaseZip => Release[reg'.rows[i].version] = files'[ReleaseZip]

\* A step that writes plugin i only, with a path that no other has, and loads it.
LEMMA WritePath ==
    ASSUME RegInv, PathInv, toLoad = {}, UNCHANGED toLoad, NEW i, NEW row, NEW q, NEW bad,
           ZipOK', Plugin(files[ReleaseZip]) => Plugin(files'[ReleaseZip]) /\ files'[ReleaseZip].slug = files[ReleaseZip].slug,
           ShapeOK(q), q.rows = With(reg.rows, i, row), q.loads = reg.loads, i \notin DOMAIN q.running,
           reg' = Load(q, files', i, bad),
           \A j \in DOMAIN reg.rows \ {i} : reg.rows[j].path # row.path,
           row.path = ReleaseZip => Plugin(files'[ReleaseZip])
    PROVE  PathInv'
<1>1. DOMAIN q.rows = DOMAIN reg.rows \cup {i} /\ q.rows[i] = row
      /\ \A j \in DOMAIN reg.rows \ {i} : q.rows[j] = reg.rows[j]
  BY DEF With
<1>2. LoadMakes(q, files', i, reg')
  BY <1>1, LoadReturns
<1>3. /\ reg'.rows = q.rows /\ reg'.loads[i].manifest = ManifestSlug(files'[row.path])
      /\ \A j \in DOMAIN reg.loads \ {i} : reg'.loads[j] = reg.loads[j]
  BY <1>1, <1>2 DEF LoadMakes
<1>4. ZipRowsOK(reg, toLoad)'
  <2> SUFFICES ASSUME NEW j \in DOMAIN reg'.rows, reg'.rows[j].path = ReleaseZip
               PROVE  Plugin(files'[ReleaseZip]) /\ reg'.loads[j].manifest = files'[ReleaseZip].slug
    BY DEF ZipRowsOK
  <2>1. CASE j = i
    <3>1. row.path = ReleaseZip /\ Plugin(files'[ReleaseZip])
      BY <1>1, <1>3, <2>1
    <3> QED BY <1>3, <2>1, <3>1 DEF ManifestSlug, Plugin
  <2>2. CASE j # i
    <3>1. j \in DOMAIN reg.rows /\ reg.rows[j].path = ReleaseZip /\ j \in DOMAIN reg.loads
      BY <1>1, <1>3, <2>2 DEF RegInv, RegOK, LoadsOK
    <3>2. Plugin(files[ReleaseZip]) /\ reg.loads[j].manifest = files[ReleaseZip].slug
      BY <3>1 DEF PathInv, ZipRowsOK
    <3> QED BY <1>3, <2>2, <3>1, <3>2
  <2> QED BY <2>1, <2>2
<1>5. PathUnique'
  BY <1>1, <1>3 DEF PathInv, PathUnique
<1> QED BY <1>4, <1>5 DEF PathInv

\* InstallDownload, when the releases keep their name: a download that is accepted has the slug
\* of every row with the path of the zip, so there is none but the one it upgrades.
LEMMA DownloadIsAlone ==
    ASSUME ReleasesKeepName, RegInv, PathInv, toLoad = {}, NEW r \in Requests, req[r].pc = "asset", DownloadAccepted(r)
    PROVE  /\ req[r].row.version \in Versions /\ Plugin(Release[req[r].row.version])
           /\ \A j \in DOMAIN reg.rows \ {req[r].id} : reg.rows[j].path # ReleaseZip
           /\ Plugin(files[ReleaseZip]) => Release[req[r].row.version].slug = files[ReleaseZip].slug
<1> DEFINE c == Release[req[r].row.version]
<1>1. req[r].row.version \in Versions
  BY DEF RegInv, RequestsOK
<1>2. c.kind \in {"absent", "noEntry", "badManifest", "plugin"}
  BY <1>1, PluginsAssumption
<1>3. Plugin(c)
  BY <1>2 DEF DownloadAccepted, HasSource, CheckPlugin, ManifestThrows, Plugin
<1>4. Plugin(files[ReleaseZip]) => c.slug = files[ReleaseZip].slug
  <2> SUFFICES ASSUME Plugin(files[ReleaseZip]) PROVE c.slug = files[ReleaseZip].slug
    OBVIOUS
  <2>1. files[ReleaseZip] # Absent
    BY DEF Plugin, Absent
  <2>2. PICK v \in Versions : files[ReleaseZip] = Release[v] /\ Plugin(Release[v])
    BY <2>1 DEF PathInv, ZipOK
  <2> QED BY <1>1, <1>3, <2>2 DEF ReleasesKeepName, Plugin
<1>5. ASSUME NEW j \in DOMAIN reg.rows \ {req[r].id}, reg.rows[j].path = ReleaseZip PROVE FALSE
  <2>1. Plugin(files[ReleaseZip]) /\ reg.loads[j].manifest = files[ReleaseZip].slug /\ j \in DOMAIN reg.loads
    BY <1>5 DEF PathInv, ZipRowsOK, RegInv, RegOK, LoadsOK
  <2>2. reg.loads[j].manifest = ManifestSlug(c)
    BY <1>3, <1>4, <2>1 DEF ManifestSlug, Plugin
  <2>3. Slug(reg, j) = SlugOf(ReleaseZip, ManifestSlug(c))
    BY <1>5, <2>1, <2>2 DEF Slug, Manifest
  <2>4. j \in SlugOwners(reg, SlugOf(ReleaseZip, ManifestSlug(c)), req[r].id, DOMAIN reg.rows)
    BY <2>3 DEF SlugOwners
  <2> QED BY <2>4 DEF DownloadAccepted, CheckPlugin
<1> QED BY <1>1, <1>3, <1>4, <1>5

\* A path that is not the zip's, or is the zip when it is there: what plugins.add and
\* plugins.update accept.
LEMMA GivenPath ==
    ASSUME PathInv, NEW path \in Paths, files[path] # Absent
    PROVE  path = ReleaseZip => Plugin(files[ReleaseZip])
BY DEF PathInv, ZipOK

\* Requests keep the paths apart.
LEMMA ServePaths ==
    ASSUME ReleasesKeepName, RegInv, PathInv, toLoad = {}, UNCHANGED toLoad, Serve
    PROVE  PathInv' /\ ZipStep
<1>1. ASSUME NEW path \in Paths, NEW config \in Configs, NEW bad, AddPlugin(path, config, bad) PROVE PathInv' /\ ZipStep
  <2> DEFINE row == [path |-> path, config |-> config, version |-> NoVersion]
             q == [reg EXCEPT !.rows = With(@, nextId, row)]
  <2>1. /\ InsertAndLoad(files, row, bad) /\ UNCHANGED files /\ files[path] # Absent
        /\ \A j \in DOMAIN reg.rows \ {0} : reg.rows[j].path # path
    BY <1>1 DEF AddPlugin, FindByPath
  <2>2. row = [path |-> row.path, config |-> row.config, version |-> row.version] /\ row.path = path
    OBVIOUS
  <2> HIDE DEF row
  <2>3. nextId \notin DOMAIN reg.rows /\ reg' = Load(q, files', nextId, bad)
    BY <2>1, <2>2, InsertKeeps
  <2>4. /\ q = [rows |-> With(reg.rows, nextId, row), loads |-> reg.loads, running |-> reg.running]
        /\ IsFcn(With(reg.rows, nextId, row))
    BY DEF RegInv, RegOK, ShapeOK, With, IsFcn
  <2>5. ShapeOK(q)
    BY <2>2, <2>4 DEF RegInv, RegOK, ShapeOK, With
  <2>6. nextId \notin DOMAIN q.running /\ q.rows = With(reg.rows, nextId, row) /\ q.loads = reg.loads
    BY <2>3, <2>4 DEF RegInv, RegOK, RunningOK
  <2>7. \A j \in DOMAIN reg.rows \ {nextId} : reg.rows[j].path # row.path
    BY <2>1, <2>2 DEF RegInv, IdsOK
  <2>8. row.path = ReleaseZip => Plugin(files'[ReleaseZip])
    BY <2>1, <2>2, GivenPath
  <2>9. ZipOK'
    BY <2>1 DEF PathInv, ZipOK
  <2>10. PathInv'
    <3> HIDE DEF q
    <3> QED BY <2>1, <2>3, <2>5, <2>6, <2>7, <2>8, <2>9, WritePath
  <2> QED BY <2>1, <2>10 DEF ZipStep
<1>2. ASSUME NEW i, NEW path \in Paths, NEW config \in Configs, NEW bad, UpdatePlugin(i, path, config, bad)
      PROVE  PathInv' /\ ZipStep
  <2> DEFINE row == [path |-> path, config |-> config, version |-> reg.rows[i].version]
             q == WriteRow(reg, i, row)
  <2>1. /\ i \in DOMAIN reg.rows /\ Becomes(UpdateRow(reg, files, i, row, bad)) /\ UNCHANGED <<files, nextId>>
        /\ path # reg.rows[i].path => files[path] # Absent /\ \A j \in DOMAIN reg.rows \ {i} : reg.rows[j].path # path
    BY <1>2 DEF UpdatePlugin, FindByPath
  <2>2. row = [path |-> row.path, config |-> row.config, version |-> row.version] /\ row.path = path
    OBVIOUS
  <2> HIDE DEF row
  <2>3. reg' = Load(q, files', i, bad)
    BY <2>1, <2>2, UpdateKeeps
  <2>4. RegOK(q, {} \cup {i})
    <3>1. RegOK(reg, {})
      BY DEF RegInv
    <3> QED BY <2>2, <3>1, WriteRowKeeps
  <2>5. ShapeOK(q) /\ i \notin DOMAIN q.running /\ q.rows = With(reg.rows, i, row) /\ q.loads = reg.loads
    BY <2>4 DEF RegOK, RunningOK, WriteRow
  <2>6. \A j \in DOMAIN reg.rows \ {i} : reg.rows[j].path # row.path
    BY <2>1, <2>2 DEF PathInv, PathUnique
  <2>7. row.path = ReleaseZip => Plugin(files'[ReleaseZip])
    <3>1. CASE path = reg.rows[i].path
      BY <2>1, <2>2, <3>1 DEF PathInv, ZipRowsOK
    <3>2. CASE path # reg.rows[i].path
      BY <2>1, <2>2, <3>2, GivenPath
    <3> QED BY <3>1, <3>2
  <2>8. ZipOK'
    BY <2>1 DEF PathInv, ZipOK
  <2>9. PathInv'
    <3> HIDE DEF q
    <3> QED BY <2>1, <2>3, <2>5, <2>6, <2>7, <2>8, WritePath
  <2> QED BY <2>1, <2>9 DEF ZipStep
<1>3. ASSUME NEW i, NEW bad, ReloadPlugin(i, bad) PROVE PathInv' /\ ZipStep
  <2> DEFINE row == reg.rows[i]
             q == WriteRow(reg, i, row)
  <2>1. i \in DOMAIN reg.rows /\ reg' = Load(Unload(reg, i), files', i, bad) /\ UNCHANGED files
    BY <1>3 DEF ReloadPlugin, Becomes, Reload
  <2>2. row = [path |-> row.path, config |-> row.config, version |-> row.version]
    BY <2>1 DEF RegInv, RegOK, ShapeOK
  <2>3. Unload(reg, i) = q
    BY <2>1 DEF WriteRow, Unload, With, RegInv, RegOK, ShapeOK, IsFcn
  <2> HIDE DEF row
  <2>4. RegOK(q, {} \cup {i})
    <3>1. RegOK(reg, {})
      BY DEF RegInv
    <3> QED BY <2>2, <3>1, WriteRowKeeps
  <2>5. ShapeOK(q) /\ i \notin DOMAIN q.running /\ q.rows = With(reg.rows, i, row) /\ q.loads = reg.loads
    BY <2>4 DEF RegOK, RunningOK, WriteRow
  <2>6. \A j \in DOMAIN reg.rows \ {i} : reg.rows[j].path # row.path
    BY <2>1 DEF PathInv, PathUnique, row
  <2>7. row.path = ReleaseZip => Plugin(files'[ReleaseZip])
    BY <2>1 DEF PathInv, ZipRowsOK, row
  <2>8. ZipOK'
    BY <2>1 DEF PathInv, ZipOK
  <2>9. PathInv'
    <3> HIDE DEF q
    <3> QED BY <2>1, <2>3, <2>5, <2>6, <2>7, <2>8, WritePath
  <2> QED BY <2>1, <2>9 DEF ZipStep
<1>4. ASSUME NEW i, RemovePlugin(i) PROVE PathInv' /\ ZipStep
  <2>1. /\ reg' = [rows |-> Without(reg.rows, i), loads |-> Without(reg.loads, i), running |-> Without(reg.running, i)]
        /\ UNCHANGED files
    BY <1>4 DEF RemovePlugin, Becomes, Unload, RegInv, RegOK, ShapeOK
  <2>2. /\ DOMAIN reg'.rows = DOMAIN reg.rows \ {i} /\ DOMAIN reg'.loads = DOMAIN reg.loads \ {i}
        /\ \A j \in DOMAIN reg'.rows : reg'.rows[j] = reg.rows[j]
        /\ \A j \in DOMAIN reg'.loads : reg'.loads[j] = reg.loads[j]
    BY <2>1 DEF Without
  <2>3. ZipRowsOK(reg, toLoad)'
    <3>1. \A j \in DOMAIN reg'.rows : j \in DOMAIN reg'.loads
      BY <2>2 DEF RegInv, RegOK, LoadsOK
    <3> QED BY <2>1, <2>2, <3>1 DEF PathInv, ZipRowsOK
  <2>4. PathUnique'
    BY <2>2 DEF PathInv, PathUnique
  <2> QED BY <2>1, <2>3, <2>4 DEF PathInv, ZipOK, ZipStep
<1>5. ASSUME UNCHANGED <<files, reg>> PROVE PathInv' /\ ZipStep
  BY <1>5 DEF PathInv, ZipOK, ZipRowsOK, PathUnique, ZipStep
<1>6. ASSUME NEW r \in Requests, NEW bad, FinishInstall(r, bad) \/ FinishUpgrade(r, bad) PROVE PathInv' /\ ZipStep
  <2> DEFINE row == req[r].row
             c == Release[row.version]
  <2>1. req[r].pc = "asset" /\ DownloadAccepted(r) /\ files' = [files EXCEPT ![ReleaseZip] = c]
    BY <1>6 DEF FinishInstall, FinishUpgrade
  <2>2. /\ row.version \in Versions /\ Plugin(c)
        /\ \A j \in DOMAIN reg.rows \ {req[r].id} : reg.rows[j].path # ReleaseZip
        /\ Plugin(files[ReleaseZip]) => c.slug = files[ReleaseZip].slug
    BY <2>1, DownloadIsAlone
  <2>3. files'[ReleaseZip] = c
    BY <2>1 DEF RegInv, FilesOK, Paths
  <2>4. ZipOK'
    BY <2>2, <2>3 DEF ZipOK
  <2>5. row.path = ReleaseZip /\ row = [path |-> row.path, config |-> row.config, version |-> row.version]
    <3>1. ReqRow(row)
      BY DEF RegInv, RequestsOK
    <3> HIDE DEF row
    <3> QED BY <3>1 DEF ReqRow
  <2>6. CASE FinishInstall(r, bad)
    <3> DEFINE q == [reg EXCEPT !.rows = With(@, nextId, row)]
    <3>1. InsertAndLoad(files', row, bad) /\ req[r].id = 0
      BY <2>1, <2>6 DEF FinishInstall
    <3> HIDE DEF row, c
    <3>2. nextId \notin DOMAIN reg.rows /\ reg' = Load(q, files', nextId, bad) /\ reg'.rows = With(reg.rows, nextId, row)
      BY <2>5, <3>1, InsertKeeps
    <3>3. /\ q = [rows |-> With(reg.rows, nextId, row), loads |-> reg.loads, running |-> reg.running]
          /\ IsFcn(With(reg.rows, nextId, row))
      BY DEF RegInv, RegOK, ShapeOK, With, IsFcn
    <3>4. ShapeOK(q)
      BY <2>5, <3>3 DEF RegInv, RegOK, ShapeOK, With
    <3>5. nextId \notin DOMAIN q.running /\ q.rows = With(reg.rows, nextId, row) /\ q.loads = reg.loads
      BY <3>2, <3>3 DEF RegInv, RegOK, RunningOK
    <3>6. \A j \in DOMAIN reg.rows \ {nextId} : reg.rows[j].path # row.path
      BY <2>2, <2>5, <3>1 DEF RegInv, IdsOK
    <3>7. PathInv'
      <4> HIDE DEF q
      <4> QED BY <2>2, <2>3, <2>4, <3>2, <3>4, <3>5, <3>6, WritePath
    <3>8. ZipStep
      BY <2>3, <2>5, <3>2, <3>6 DEF ZipStep, With, c
    <3> QED BY <3>7, <3>8
  <2>7. CASE FinishUpgrade(r, bad)
    <3> DEFINE i == req[r].id
               q == WriteRow(reg, i, row)
    <3>1. Becomes(UpdateRow(reg, files', i, row, bad)) /\ UNCHANGED nextId
      BY <2>1, <2>7 DEF FinishUpgrade
    <3> HIDE DEF row, c, i
    <3>2. /\ DOMAIN reg'.rows = DOMAIN reg.rows
          /\ \A j \in DOMAIN reg.rows \ {i} : reg'.rows[j] = reg.rows[j]
          /\ i \in DOMAIN reg.rows => reg'.rows[i] = row
          /\ i \notin DOMAIN reg.rows => reg' = reg
          /\ i \in DOMAIN reg.rows => reg' = Load(q, files', i, bad)
      BY <2>5, <3>1, UpdateKeeps
    <3>3. \A j \in DOMAIN reg.rows \ {i} : reg.rows[j].path # ReleaseZip
      BY <2>2 DEF i
    <3>4. ZipStep
      BY <2>3, <3>2, <3>3 DEF ZipStep, c
    <3>5. CASE i \notin DOMAIN reg.rows
      <4>1. reg' = reg /\ \A j \in DOMAIN reg.rows : reg.rows[j].path # ReleaseZip
        BY <3>2, <3>3, <3>5
      <4>2. ZipRowsOK(reg, toLoad)' /\ PathUnique'
        BY <4>1 DEF ZipRowsOK, PathInv, PathUnique
      <4> QED BY <2>4, <3>4, <4>2 DEF PathInv
    <3>6. CASE i \in DOMAIN reg.rows
      <4>1. RegOK(q, {} \cup {i})
        <5>1. RegOK(reg, {})
          BY DEF RegInv
        <5> QED BY <2>5, <5>1, WriteRowKeeps
      <4>2. ShapeOK(q) /\ i \notin DOMAIN q.running /\ q.rows = With(reg.rows, i, row) /\ q.loads = reg.loads
        BY <4>1 DEF RegOK, RunningOK, WriteRow
      <4>3. \A j \in DOMAIN reg.rows \ {i} : reg.rows[j].path # row.path
        BY <2>5, <3>3
      <4>4. reg' = Load(q, files', i, bad)
        BY <3>2, <3>6
      <4> HIDE DEF q
      <4>5. PathInv'
        BY <2>2, <2>3, <2>4, <4>2, <4>3, <4>4, WritePath
      <4> QED BY <3>4, <4>5
    <3> QED BY <3>5, <3>6
  <2> QED BY <1>6, <2>6, <2>7
<1>7. ASSUME NEW r \in Requests, FetchAsset(r) \/ FetchFails(r) \/ DownloadRefused(r) PROVE PathInv' /\ ZipStep
  BY <1>5, <1>7 DEF FetchAsset, FetchFails, DownloadRefused
<1>8. ASSUME NEW r \in Requests, NEW i, NEW v, Upgrade(r, i, v) PROVE PathInv' /\ ZipStep
  BY <1>5, <1>8 DEF Upgrade
<1>9. ASSUME NEW r \in Requests, NEW v, NEW config, Install(r, v, config) PROVE PathInv' /\ ZipStep
  BY <1>5, <1>9 DEF Install
<1> QED BY <1>1, <1>2, <1>3, <1>4, <1>6, <1>7, <1>8, <1>9 DEF Serve

\* Every step keeps the paths apart.
LEMMA PathStep ==
    ASSUME ReleasesKeepName, RegInv, PathInv, [Next]_vars
    PROVE  PathInv' /\ [ZipStep]_vars
<1>1. CASE toLoad = {} /\ UNCHANGED toLoad /\ Serve
  BY <1>1, ServePaths
<1>2. ASSUME NEW i \in toLoad, NEW bad, LoadNext(i, bad) PROVE PathInv' /\ ZipStep
  <2>1. reg' = Load(reg, files, i, bad) /\ toLoad' = toLoad \ {i} /\ UNCHANGED files
    BY <1>2 DEF LoadNext, Becomes
  <2>2. i \in DOMAIN reg.rows /\ i \notin DOMAIN reg.running /\ ShapeOK(reg)
    BY DEF RegInv, IdsOK, RegOK, RunningOK
  <2>3. LoadMakes(reg, files, i, reg')
    BY <2>1, <2>2, LoadReturns
  <2>4. /\ reg'.rows = reg.rows /\ reg'.loads[i].manifest = ManifestSlug(files[reg.rows[i].path])
        /\ \A j \in DOMAIN reg.loads \ {i} : reg'.loads[j] = reg.loads[j]
    BY <2>3 DEF LoadMakes
  <2>5. ZipRowsOK(reg, toLoad)'
    <3> SUFFICES ASSUME NEW j \in DOMAIN reg.rows, reg.rows[j].path = ReleaseZip
                 PROVE  Plugin(files[ReleaseZip]) /\ (j \notin toLoad \ {i} => reg'.loads[j].manifest = files[ReleaseZip].slug)
      BY <2>1, <2>4 DEF ZipRowsOK
    <3>1. Plugin(files[ReleaseZip])
      BY DEF PathInv, ZipRowsOK
    <3>2. CASE j = i
      BY <2>4, <3>1, <3>2 DEF ManifestSlug, Plugin
    <3>3. CASE j # i /\ j \notin toLoad
      <4>1. j \in DOMAIN reg.loads
        BY <3>3 DEF RegInv, RegOK, LoadsOK
      <4> QED BY <2>4, <3>1, <3>3, <4>1 DEF PathInv, ZipRowsOK
    <3> QED BY <3>1, <3>2, <3>3
  <2> QED BY <2>1, <2>4, <2>5 DEF PathInv, ZipOK, PathUnique, ZipStep
<1>3. ASSUME NEW path \in Paths, NEW c \in Contents, EditFile(path, c) PROVE PathInv' /\ ZipStep
  <2>1. files'[ReleaseZip] = files[ReleaseZip] /\ UNCHANGED <<reg, toLoad>>
    BY <1>3 DEF EditFile, RegInv, FilesOK, Paths
  <2> QED BY <2>1 DEF PathInv, ZipOK, ZipRowsOK, PathUnique, ZipStep
<1>4. CASE Restart
  <2>1. reg'.rows = reg.rows /\ toLoad' = DOMAIN reg.rows /\ UNCHANGED files
    BY <1>4 DEF Restart, Becomes, RegInv, RegOK, ShapeOK
  <2> QED BY <2>1 DEF PathInv, ZipOK, ZipRowsOK, PathUnique, ZipStep
<1>5. CASE UNCHANGED vars
  BY <1>5 DEF vars, PathInv, ZipOK, ZipRowsOK, PathUnique
<1> QED BY <1>1, <1>2, <1>3, <1>4, <1>5 DEF Next

\* No row of the start has the path of the zip.
LEMMA PathInit == Init => PathInv
<1> SUFFICES ASSUME Init PROVE PathInv
  OBVIOUS
<1>1. PICK n \in 0..MaxId : \E config \in Configs : \E p \in [1..n -> LocalPaths] :
          /\ \A i, j \in 1..n : i # j => p[i] # p[j]
          /\ reg.rows = [i \in 1..n |-> [path |-> p[i], config |-> config, version |-> NoVersion]]
  BY DEF Init
<1>2. PICK config \in Configs : \E p \in [1..n -> LocalPaths] :
          /\ \A i, j \in 1..n : i # j => p[i] # p[j]
          /\ reg.rows = [i \in 1..n |-> [path |-> p[i], config |-> config, version |-> NoVersion]]
  BY <1>1
<1>3. PICK p \in [1..n -> LocalPaths] :
          /\ \A i, j \in 1..n : i # j => p[i] # p[j]
          /\ reg.rows = [i \in 1..n |-> [path |-> p[i], config |-> config, version |-> NoVersion]]
  BY <1>2
<1>4. DOMAIN reg.rows = 1..n /\ \A i \in 1..n : reg.rows[i].path = p[i] /\ p[i] \in LocalPaths
  BY <1>3
<1>5. PathUnique
  BY <1>3, <1>4 DEF PathUnique
<1>6. ZipRowsOK(reg, toLoad)
  BY <1>4, PluginsAssumption DEF ZipRowsOK
<1> QED BY <1>5, <1>6 DEF Init, PathInv, ZipOK

\* The requests of src/rpc/methods/plugins.cpp, for any number of installs and upgrades that
\* overlap with other requests: no two plugins have a slug or a path, when the releases of the
\* repository keep their name.
THEOREM PluginsStayDistinct ==
    ASSUME ReleasesKeepName
    PROVE  Spec => []PluginsDistinct
<1>1. RegInv => TypeOK /\ SlugUnique
  <2>1. RegInv => SlugUnique
    BY DEF RegInv, RegOK, RunningOK, SlugsOK, SlugUnique, Slug, Manifest
  <2>2. RegInv => TypeOK
    BY DEF RegInv, FilesOK, IdsOK, RequestsOK, TypeOK
  <2> QED BY <2>1, <2>2
<1>2. RegInv /\ PathInv /\ [Next]_vars => RegInv' /\ PathInv'
  BY RegStep, PathStep
<1>3. RegInv /\ PathInv => PluginsDistinct
  BY <1>1 DEF PathInv, PluginsDistinct
<1> QED BY <1>2, <1>3, PluginsInit, PathInit, PTL DEF Spec

\* WriteDownload and InstallDownload: the zip only changes together with the row that has its
\* path, which then has its version, when the releases of the repository keep their name.
THEOREM ZipsChangeWithRows ==
    ASSUME ReleasesKeepName
    PROVE  Spec => ZipChangesWithRow
<1>1. RegInv /\ PathInv /\ [Next]_vars => RegInv' /\ PathInv' /\ [ZipStep]_vars
  BY RegStep, PathStep
<1>2. ZipChangesWithRow <=> [][ZipStep]_vars
  BY DEF ZipChangesWithRow, ZipStep
<1> QED BY <1>1, <1>2, PluginsInit, PathInit, PTL DEF Spec
=============================================================================
