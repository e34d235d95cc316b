--------------------------- MODULE TorrentSession ---------------------------
(***************************************************************************)
(* One session: the torrents Porla tracks (src/sessions/session.cpp and its *)
(* alert handlers) beside the libtorrent session they mirror and the rows   *)
(* of addtorrentparams they are stored in.                                  *)
(*                                                                         *)
(* Two threads interleave.  libtorrent's network thread runs the calls      *)
(* Porla posted, in order, and posts alerts to a bounded queue: an alert    *)
(* that does not fit is dropped and only its type is reported.  The io      *)
(* thread runs Porla's handlers one at a time; a handler that reads alerts  *)
(* pops the whole queue and then handles it alert by alert inside one       *)
(* database transaction, while the network thread goes on.                  *)
(*                                                                         *)
(* A torrent is known by the hash of its magnet link ("half") until its     *)
(* metadata gives it both hashes ("full").  A row stored under the half is  *)
(* matched by the full hash too.  What libtorrent saves of a torrent is cut *)
(* down to two values: cfg, a change of which libtorrent tracks, and pos,   *)
(* the queue position, which it does not track.                             *)
(***************************************************************************)
EXTENDS Naturals, Sequences, FiniteSets

CONSTANTS
    Torrents,
    None,
    AlertLimit,  \* alert_queue_size
    MaxAdds,     \* bound on the adds of one torrent
    MaxChanges,  \* bound on the changes of cfg and of pos
    Ops,         \* the requests and jobs of the instance
    StoredForms  \* the forms of the rows the session may start with

Forms == {"half", "full"}
Keys == Torrents \X Forms
AllOps == {"remove", "configure", "queue", "metadata", "update", "saveState", "stop"}

ASSUME SessionAssumption ==
    /\ AlertLimit \in Nat \ {0} /\ MaxAdds \in Nat /\ MaxChanges \in Nat
    /\ StoredForms \subseteq Forms /\ Ops \subseteq AllOps
    /\ IsFiniteSet(Torrents)

VARIABLES
    \* libtorrent
    lt,        \* per torrent: None or [id, form, meta, cfg, pos, unsaved]
    calls,     \* calls posted to the network thread
    alerts,    \* the alert queue
    dropped,   \* types of the alerts dropped since the last pop
    \* the session
    m_torrents,\* per key: None or [state, id, handle, announced, saved]
    m_dirty,   \* per key: "no", "plain" or "force"
    dirtyTimer,\* m_dirty_armed
    reconcile, \* the reconcile job is triggered
    toLoad,    \* rows the load job has not read yet; None once it is done
    pc,        \* what the io thread is doing
    after,     \* what it does once the alerts are read
    batch,     \* alerts popped and not handled yet
    handles,   \* torrents of get_torrents() still to be reconciled, with their ids
    seen,      \* hashes reconciled so far
    toSave,    \* saves Stop has still to ask for
    awaited,   \* Stop's outstanding set
    \* the database
    rows,      \* committed rows: None or [form, key, cfg, pos, info]
    work,      \* rows inside the open transaction
    \* history
    adds,      \* adds of each torrent so far: the id of the last one
    loadedIds, \* <<torrent, id>> added by the load job
    events,    \* <<name, torrent, id>> -> times published
    removing,  \* <<torrent, id>> whose removal was asked for
    lost,      \* <<type, torrent, id>> of the alerts that were dropped
    changes

ltVars == <<lt, calls, alerts, dropped>>
ioVars == <<pc, after, batch, handles, seen, toSave, awaited>>
sessVars == <<m_torrents, m_dirty, dirtyTimer, reconcile, toLoad>>
dbVars == <<rows, work>>
histVars == <<adds, loadedIds, events, removing, lost, changes>>
vars == <<ltVars, ioVars, sessVars, dbVars, histVars>>

-----------------------------------------------------------------------------
(* libtorrent: the network thread                                            *)

Live(t) == lt[t] # None

\* A call that returns a value runs after the calls posted before it.
Synced == calls = <<>>

\* A handle stays valid until its torrent is removed.
Valid(t, id) == Live(t) /\ lt[t].id = id

\* The metadata a torrent has: None, or the hash it gives.
InfoOf(t) == IF lt[t].meta THEN lt[t].form ELSE None

\* An alert that does not fit is dropped and its type noted.
PostAlert(a) ==
    IF Len(alerts) < AlertLimit
    THEN alerts' = Append(alerts, a) /\ UNCHANGED <<dropped, lost>>
    ELSE /\ dropped' = dropped \cup {a.type}
         /\ lost' = IF a.type = "update" THEN lost ELSE lost \cup {<<a.type, a.t, a.id>>}
         /\ UNCHANGED alerts

Call == Head(calls)

\* The network thread takes the next call.
Takes(op) ==
    /\ calls # <<>> /\ Call.op = op
    /\ calls' = Tail(calls)
    /\ UNCHANGED <<ioVars, sessVars, dbVars, adds, loadedIds, events, removing, changes>>

LtAdd ==
    /\ Takes("add") /\ ~Live(Call.t)
    /\ lt' = [lt EXCEPT ![Call.t] = [id |-> Call.id, form |-> Call.form, meta |-> Call.meta,
                                     cfg |-> Call.cfg, pos |-> Call.pos, unsaved |-> FALSE]]
    /\ PostAlert([type |-> "add", t |-> Call.t, id |-> Call.id, form |-> Call.form,
                  info |-> IF Call.meta THEN Call.form ELSE None])

\* The add is refused (bad parameters, a duplicate).
LtAddFails ==
    /\ Takes("add")
    /\ PostAlert([type |-> "addFailed", t |-> Call.t, id |-> Call.id, form |-> Call.form])
    /\ UNCHANGED lt

LtRemove ==
    /\ Takes("remove")
    /\ IF Valid(Call.t, Call.id)
       THEN /\ lt' = [lt EXCEPT ![Call.t] = None]
            /\ PostAlert([type |-> "removed", t |-> Call.t, id |-> Call.id, form |-> lt[Call.t].form])
       ELSE UNCHANGED <<lt, alerts, dropped, lost>>

\* save_resume_data: with a condition that does not hold the alert says so.  A save
\* that is posted clears the modified state whether or not the alert fits.
LtSave ==
    /\ Takes("save")
    /\ IF ~Valid(Call.t, Call.id)
       THEN UNCHANGED <<lt, alerts, dropped, lost>>
       ELSE IF Call.always \/ lt[Call.t].unsaved
       THEN /\ lt' = [lt EXCEPT ![Call.t].unsaved = FALSE]
            /\ PostAlert([type |-> "saved", t |-> Call.t, id |-> Call.id,
                          form |-> lt[Call.t].form, cfg |-> lt[Call.t].cfg, info |-> IF Call.info THEN InfoOf(Call.t) ELSE None])
       ELSE /\ PostAlert([type |-> "notSaved", t |-> Call.t, id |-> Call.id])
            /\ UNCHANGED lt

LtConfigure ==
    /\ Takes("configure")
    /\ lt' = IF Valid(Call.t, Call.id)
             THEN [lt EXCEPT ![Call.t].cfg = Call.cfg, ![Call.t].unsaved = TRUE] ELSE lt
    /\ UNCHANGED <<alerts, dropped, lost>>

LtMoveQueue ==
    /\ Takes("queue")
    /\ lt' = IF Valid(Call.t, Call.id) THEN [lt EXCEPT ![Call.t].pos = Call.pos] ELSE lt
    /\ UNCHANGED <<alerts, dropped, lost>>

\* post_torrent_updates: the status of the torrents as it is now.
LtPostUpdates ==
    /\ Takes("updates")
    /\ PostAlert([type |-> "update",
                  status |-> {[t |-> t, id |-> lt[t].id, form |-> lt[t].form, meta |-> lt[t].meta] :
                                 t \in {u \in Torrents : Live(u)}}])
    /\ UNCHANGED lt

\* A peer sends the metadata of a magnet; a hybrid torrent gets its full hash.  Once
\* Stop has paused the session there are no peers.
LtMetadata(t) ==
    /\ "metadata" \in Ops
    /\ pc \notin {"stopSave", "stopWait", "down"}
    /\ Live(t) /\ ~lt[t].meta
    /\ \E form \in {lt[t].form, "full"} :
          lt' = [lt EXCEPT ![t].meta = TRUE, ![t].form = form, ![t].unsaved = TRUE]
    /\ PostAlert([type |-> "metadata", t |-> t, id |-> lt[t].id])
    /\ UNCHANGED <<calls, ioVars, sessVars, dbVars, adds, loadedIds, events, removing, changes>>

LtStep ==
    \/ LtAdd \/ LtAddFails \/ LtRemove \/ LtSave
    \/ LtConfigure \/ LtMoveQueue \/ LtPostUpdates

-----------------------------------------------------------------------------
(* Rows                                                                      *)

\* kMatchTorrent: a row of one half is matched by the full hash, a full row only by
\* the full hash.
Matches(row, form) == row # None /\ (row.form = "half" \/ row.form = form)

\* InsertRow: ON CONFLICT DO NOTHING, then the info dictionary of the row that is there.
\* A row has the form of its hash columns, and the hash inside its resume data (key).
InsertRow(table, t, form, cfg, pos, info) ==
    IF table[t] = None
    THEN [table EXCEPT ![t] = [form |-> form, key |-> form, cfg |-> cfg, pos |-> pos, info |-> info]]
    ELSE [table EXCEPT ![t].info = IF info # None /\ Matches(table[t], form) THEN info ELSE @]

\* AddTorrentParams::Update: nothing if no row matches; the hash columns stay.
UpdateRow(table, t, form, key, cfg, pos, info) ==
    IF Matches(table[t], form)
    THEN [table EXCEPT ![t].key = key, ![t].cfg = cfg, ![t].pos = pos,
                       ![t].info = IF info = None THEN @ ELSE info]
    ELSE table

DeleteRow(table, t, form) ==
    IF Matches(table[t], form) THEN [table EXCEPT ![t] = None] ELSE table

-----------------------------------------------------------------------------
(* Tracking                                                                  *)

Tracked(k) == m_torrents[k] # None
Current(k) == Tracked(k) /\ m_torrents[k].state = "Current"

Entry(state, id, handle, announced, saved) ==
    [state |-> state, id |-> id, handle |-> handle, announced |-> announced, saved |-> saved]

Publish(name, t, id) ==
    events' = [events EXCEPT ![<<name, t, id>>] = @ + 1]

\* InfoHashMap::rekey.
Rekey(map, prev, curr) ==
    IF map[prev] = None THEN map
    ELSE [map EXCEPT ![prev] = None,
                     ![curr] = IF map[curr] = None THEN map[prev] ELSE map[curr]]

\* UpdateInfoHashes moves the dirty mark of the torrent along.
MoveDirty(dirty, map, prev, curr) ==
    IF map[prev] = None \/ map[curr] # None THEN dirty
    ELSE [dirty EXCEPT
            ![prev] = "no",
            ![curr] = IF "force" \in {dirty[prev], dirty[curr]} THEN "force"
                      ELSE IF "plain" \in {dirty[prev], dirty[curr]} THEN "plain" ELSE "no"]

\* Mutant: the removal is announced and the entry kept.
BugUntrackKeepsEntry(k) ==
    /\ UNCHANGED m_torrents
    /\ IF Current(k) THEN Publish("removed", k[1], m_torrents[k].id) ELSE UNCHANGED events
    /\ work' = DeleteRow(work, k[1], k[2])

\* UntrackTorrent: the entry and the row go, and a current torrent is announced.
UntrackTorrent(k) ==
    /\ m_torrents' = [m_torrents EXCEPT ![k] = None]
    /\ IF Current(k) THEN Publish("removed", k[1], m_torrents[k].id) ELSE UNCHANGED events
    /\ work' = DeleteRow(work, k[1], k[2])

Save(t, id, always, info) ==
    [op |-> "save", t |-> t, id |-> id, always |-> always, info |-> info]

-----------------------------------------------------------------------------
(* Alert handlers.  Each takes the next alert of the batch.                  *)

Alert == Head(batch)

Handles(type) ==
    /\ pc = "alerts"
    /\ batch # <<>> /\ Alert.type = type
    /\ batch' = Tail(batch)
    /\ UNCHANGED <<lt, alerts, dropped, pc, after, handles, seen, toSave, awaited, dirtyTimer, toLoad,
                   rows, adds, loadedIds, removing, lost, changes>>

AlertKey == <<Alert.t, Alert.form>>

\* Mutant: the row of an add that failed goes too.
BugAddFailedDeletesRow ==
    /\ Handles("addFailed")
    /\ IF Tracked(AlertKey) /\ ~Current(AlertKey)
       THEN /\ m_torrents' = [m_torrents EXCEPT ![AlertKey] = None]
            /\ Publish("addFailed", Alert.t, Alert.id)
       ELSE UNCHANGED <<m_torrents, events>>
    /\ work' = DeleteRow(work, Alert.t, Alert.form)
    /\ UNCHANGED <<calls, m_dirty, reconcile>>

\* OnAddTorrentAlert with an error: only an entry that is still being added goes.
OnAddFailed ==
    /\ Handles("addFailed")
    /\ IF Tracked(AlertKey) /\ ~Current(AlertKey)
       THEN /\ m_torrents' = [m_torrents EXCEPT ![AlertKey] = None]
            /\ Publish("addFailed", Alert.t, Alert.id)
       ELSE UNCHANGED <<m_torrents, events>>
    /\ UNCHANGED <<calls, m_dirty, reconcile, work>>

\* The hash the handle of the alert has now.
AddHash == <<Alert.t, lt[Alert.t].form>>

\* The map after the lookup of OnAddTorrentAlert: the entry is moved to the hash the
\* handle has now, or an entry is made for a torrent Porla did not add.
AddLookup(key, hash) ==
    IF Tracked(key) THEN Rekey(m_torrents, key, hash)
    ELSE IF Tracked(hash)
    THEN [m_torrents EXCEPT ![hash].state = "Adding", ![hash].handle = TRUE]
    ELSE [m_torrents EXCEPT ![hash] =
            Entry("Adding", Alert.id, TRUE, lt[Alert.t].meta, lt[Alert.t].meta)]

\* The common part of OnAddTorrentAlert, for an entry in one of the states given.
\* The handle is alive: AddAlertIsLive.
HandlesAdd(states) ==
    /\ Handles("add") /\ Valid(Alert.t, Alert.id)
    /\ AddLookup(AlertKey, AddHash)[AddHash].state \in states
    /\ m_dirty' = IF Tracked(AlertKey) /\ AlertKey # AddHash
                  THEN MoveDirty(m_dirty, m_torrents, AlertKey, AddHash) ELSE m_dirty
    /\ UNCHANGED reconcile

Promoted ==
    [AddLookup(AlertKey, AddHash) EXCEPT ![AddHash].state = "Current", ![AddHash].handle = TRUE]

\* A torrent from the database is promoted and not announced; one that is current
\* already stays as it is.
OnAddKnown ==
    /\ HandlesAdd({"Loading", "Current"})
    /\ m_torrents' = IF AddLookup(AlertKey, AddHash)[AddHash].state = "Current"
                     THEN AddLookup(AlertKey, AddHash) ELSE Promoted
    /\ UNCHANGED <<calls, events, work>>

\* Mutant: the row is left to the save that follows.
BugAddNewNoInsert ==
    /\ HandlesAdd({"Adding"})
    /\ Synced
    /\ m_torrents' = Promoted
    /\ calls' = Append(calls, Save(Alert.t, Alert.id, TRUE, TRUE))
    /\ Publish("added", Alert.t, Alert.id)
    /\ UNCHANGED work

\* A new torrent: the alert's parameters lack the resume fields, so the row is
\* incomplete (cfg is None) until the save that is asked for here.
OnAddNew ==
    /\ HandlesAdd({"Adding"})
    /\ m_torrents' = Promoted
    /\ Synced
    /\ work' = InsertRow(work, Alert.t, AddHash[2], None, lt[Alert.t].pos, Alert.info)
    /\ calls' = Append(calls, Save(Alert.t, Alert.id, TRUE, TRUE))
    /\ Publish("added", Alert.t, Alert.id)

OnRemoved ==
    /\ Handles("removed")
    /\ UntrackTorrent(AlertKey)
    /\ UNCHANGED <<calls, m_dirty, reconcile>>

\* MetadataReceived(th, entry at key) on the map given.
MetadataReceived(map, k, t, id) ==
    /\ calls' = IF map[k] = None \/ ~map[k].saved
                THEN Append(calls, Save(t, id, TRUE, TRUE)) ELSE calls
    /\ m_torrents' = IF map[k] = None THEN map ELSE [map EXCEPT ![k].announced = TRUE]
    /\ IF map[k] # None /\ map[k].announced
       THEN UNCHANGED events
       ELSE Publish("metadata", t, id)

\* The torrent is looked up by its hash, then by its handle; its entry moves.
OnMetadata ==
    /\ Handles("metadata")
    /\ LET t    == Alert.t
           hash == <<t, lt[t].form>>
           old  == {k \in Keys : Tracked(k) /\ k[1] = t /\ m_torrents[k].handle
                                  /\ m_torrents[k].id = Alert.id}
       IN  IF ~Valid(t, Alert.id)
           THEN UNCHANGED <<calls, m_torrents, m_dirty, events>>
           ELSE IF ~Tracked(hash) /\ old # {}
           THEN LET prev == CHOOSE k \in old : TRUE
                IN  /\ MetadataReceived(Rekey(m_torrents, prev, hash), hash, t, Alert.id)
                    /\ m_dirty' = MoveDirty(m_dirty, m_torrents, prev, hash)
           ELSE /\ MetadataReceived(m_torrents, hash, t, Alert.id)
                /\ UNCHANGED m_dirty
    /\ UNCHANGED <<reconcile, work>>

\* Resume data of a torrent that is still there: its row is updated.
StoreResumeData ==
    IF Valid(Alert.t, Alert.id)
    THEN LET t == Alert.t
             k == <<t, lt[t].form>>
         IN  /\ Synced
             /\ work' = UpdateRow(work, t, lt[t].form, Alert.form, Alert.cfg, lt[t].pos, Alert.info)
             /\ m_torrents' = IF Alert.info # None /\ Tracked(k)
                              THEN [m_torrents EXCEPT ![k].saved = TRUE] ELSE m_torrents
    ELSE UNCHANGED <<work, m_torrents>>

OnSaved ==
    /\ Handles("saved")
    /\ StoreResumeData
    /\ UNCHANGED <<calls, m_dirty, reconcile, events>>

OnNotSaved ==
    /\ Handles("notSaved")
    /\ UNCHANGED <<calls, m_torrents, m_dirty, reconcile, events, work>>

\* OnStateUpdateAlert, one status of the alert.  An unknown torrent triggers a
\* reconcile; metadata that was not announced or not saved is taken from the status.
\* A save for a handle that is gone throws, and the rest of the alert is skipped.
OnUpdate ==
    /\ pc = "alerts"
    /\ batch # <<>> /\ Alert.type = "update"
    /\ IF Alert.status = {}
       THEN batch' = Tail(batch) /\ UNCHANGED <<calls, m_torrents, events, reconcile>>
       ELSE LET s == CHOOSE s \in Alert.status : TRUE
                k == <<s.t, s.form>>
                news == Current(k) /\ s.meta /\ ~(m_torrents[k].announced /\ m_torrents[k].saved)
                throws == news /\ ~m_torrents[k].saved /\ ~Valid(s.t, s.id)
            IN  /\ batch' = IF throws THEN Tail(batch)
                            ELSE <<[Alert EXCEPT !.status = @ \ {s}]>> \o Tail(batch)
                /\ reconcile' = (reconcile \/ ~Current(k))
                /\ IF news /\ ~throws
                   THEN MetadataReceived(m_torrents, k, s.t, s.id)
                   ELSE UNCHANGED <<calls, m_torrents, events>>
    /\ UNCHANGED <<lt, alerts, dropped, pc, after, handles, seen, toSave, awaited, m_dirty,
                   dirtyTimer, toLoad, dbVars, adds, loadedIds, removing, lost, changes>>

\* OnAlertsDroppedAlert: lost adds and removals are found by a reconcile.
OnDropped ==
    /\ Handles("dropped")
    /\ reconcile' = (reconcile \/ Alert.types \cap {"add", "addFailed", "removed"} # {})
    /\ UNCHANGED <<calls, m_torrents, m_dirty, events, work>>

ProcessAlert ==
    \/ OnAddFailed \/ OnAddKnown \/ OnAddNew \/ OnRemoved \/ OnMetadata
    \/ OnSaved \/ OnNotSaved \/ OnUpdate \/ OnDropped

-----------------------------------------------------------------------------
(* ReadAlerts: pop everything, handle it in one transaction                  *)

Popped == IF dropped = {} THEN alerts
          ELSE Append(alerts, [type |-> "dropped", types |-> dropped])

PopAlerts ==
    /\ batch' = Popped
    /\ alerts' = <<>>
    /\ dropped' = {}

\* The io thread reads the alerts and goes on with what is given.
BeginAlerts(then) ==
    /\ PopAlerts
    /\ pc' = "alerts" /\ after' = then
    /\ UNCHANGED <<lt, toSave, awaited>>

\* The notification of libtorrent.
ReadAlerts ==
    /\ pc = "idle" /\ Popped # <<>>
    /\ BeginAlerts("idle")
    /\ UNCHANGED <<calls, handles, seen, sessVars, dbVars, histVars>>

CommitAlerts ==
    /\ pc = "alerts" /\ batch = <<>>
    /\ pc' = CASE after = "idle" -> "idle" [] after = "chunk" -> "load" [] OTHER -> "reconcile"
    /\ rows' = work
    /\ UNCHANGED <<ltVars, after, batch, handles, seen, toSave, awaited, sessVars, work, histVars>>

-----------------------------------------------------------------------------
(* ReconcileTorrents, called by its job, at the end of the load and by Stop  *)

\* The torrents are listed, and then the alerts are read.
BeginReconcile(then) ==
    /\ Synced
    /\ handles' = {<<t, lt[t].id>> : t \in {u \in Torrents : Live(u)}}
    /\ seen' = {}
    /\ BeginAlerts(then)
    /\ UNCHANGED calls

\* The job, triggered and not suspended by the load.
ReconcileJob ==
    /\ pc = "idle" /\ reconcile /\ toLoad = None
    /\ reconcile' = FALSE
    /\ BeginReconcile("job")
    /\ UNCHANGED <<m_torrents, m_dirty, dirtyTimer, toLoad, dbVars, histVars>>

\* The next torrent of the list: h is its handle, k its hash as it is now.
ReconcileNext(h, k) ==
    /\ pc = "reconcile"
    /\ h \in handles /\ k = <<h[1], lt[h[1]].form>>
    /\ handles' = handles \ {h}
    /\ seen' = seen \cup {k}
    /\ UNCHANGED <<ltVars, pc, after, batch, toSave, awaited, dirtyTimer, reconcile, toLoad, rows,
                   adds, loadedIds, removing, lost, changes>>

\* The entry that owns the torrent's client data, under another hash.
Owners(h, k) == {o \in Keys \ {k} : Tracked(o) /\ o[1] = h[1] /\ m_torrents[o].id = h[2]}

\* The map after the hash is brought up to date.
ReconciledMap(h, k) ==
    IF Tracked(k) \/ Owners(h, k) = {} THEN m_torrents
    ELSE Rekey(m_torrents, CHOOSE o \in Owners(h, k) : TRUE, k)

ReconciledDirty(h, k) ==
    IF Tracked(k) \/ Owners(h, k) = {} THEN m_dirty
    ELSE MoveDirty(m_dirty, m_torrents, CHOOSE o \in Owners(h, k) : TRUE, k)

ReconciledState(h, k) ==
    IF ReconciledMap(h, k)[k] = None THEN "none" ELSE ReconciledMap(h, k)[k].state

ReconcileCurrent(h, k) ==
    /\ ReconcileNext(h, k)
    /\ Current(k)
    /\ UNCHANGED <<m_torrents, m_dirty, work, events>>

\* A current torrent whose hash changed unnoticed: its row is rewritten.
ReconcileRehashed(h, k) ==
    /\ ReconcileNext(h, k) /\ Synced
    /\ ~Tracked(k)
    /\ ReconciledState(h, k) = "Current"
    /\ m_torrents' = [ReconciledMap(h, k) EXCEPT ![k].saved = lt[h[1]].meta]
    /\ m_dirty' = ReconciledDirty(h, k)
    /\ work' = UpdateRow(work, h[1], k[2], k[2], lt[h[1]].cfg, lt[h[1]].pos, InfoOf(h[1]))
    /\ UNCHANGED events

\* Its add alert was lost while it was loaded.
ReconcileLoaded(h, k) ==
    /\ ReconcileNext(h, k) /\ Synced
    /\ ReconciledState(h, k) = "Loading"
    /\ m_torrents' = [ReconciledMap(h, k) EXCEPT ![k].state = "Current", ![k].handle = TRUE]
    /\ m_dirty' = ReconciledDirty(h, k)
    /\ UNCHANGED <<work, events>>

\* The map after the add of a torrent whose add alert was lost, or that Porla does
\* not know at all.
ReconciledAdd(h, k) ==
    IF ReconciledState(h, k) = "none"
    THEN [m_torrents EXCEPT ![k] = Entry("Current", h[2], TRUE, lt[h[1]].meta, lt[h[1]].meta)]
    ELSE [ReconciledMap(h, k) EXCEPT ![k].state = "Current", ![k].handle = TRUE]

\* Mutant: a torrent that is being added is left to its alert.
BugReconcileSkipsAdding(h, k) ==
    /\ ReconcileNext(h, k) /\ Synced
    /\ ReconciledState(h, k) \in {"none", "Adding"}
    /\ UNCHANGED <<m_torrents, m_dirty, work, events>>

ReconcileAdd(h, k) ==
    /\ ReconcileNext(h, k) /\ Synced
    /\ ReconciledState(h, k) \in {"none", "Adding"}
    /\ m_torrents' = ReconciledAdd(h, k)
    /\ m_dirty' = ReconciledDirty(h, k)
    /\ work' = InsertRow(work, h[1], k[2], lt[h[1]].cfg, lt[h[1]].pos, InfoOf(h[1]))
    /\ Publish("added", h[1], h[2])

ReconcileTorrent ==
    \E h \in handles, k \in Keys :
        \/ ReconcileCurrent(h, k) \/ ReconcileRehashed(h, k)
        \/ ReconcileLoaded(h, k) \/ ReconcileAdd(h, k)

\* What is tracked but not in libtorrent.  The code looks for it only if the map and the
\* list differ in size: every listed torrent is in the map by now, so otherwise it is empty.
Gone == {k \in Keys : Tracked(k) /\ k \notin seen}

\* UntrackTorrent for each of the keys; entries in other states than Current go silently.
UntrackAll(keys) ==
    /\ m_torrents' = [k \in Keys |-> IF k \in keys THEN None ELSE m_torrents[k]]
    /\ events' = [e \in DOMAIN events |->
          IF \E k \in keys : Current(k) /\ e = <<"removed", k[1], m_torrents[k].id>>
          THEN events[e] + 1 ELSE events[e]]
    /\ work' = [t \in Torrents |->
          IF \E k \in keys : Current(k) /\ k[1] = t /\ Matches(work[t], k[2]) THEN None ELSE work[t]]

\* The end of the load: libtorrent is asked for the state of every torrent.
PostUpdates == calls' = Append(calls, [op |-> "updates"])

\* A current entry that is gone was removed and its removal lost; any other one is
\* an add that failed.
ReconcileGone ==
    /\ pc = "reconcile" /\ handles = {}
    /\ UntrackAll(Gone)
    /\ rows' = work'
    /\ pc' = IF after = "stop" THEN "stopStatus" ELSE "idle"
    /\ IF after = "loadEnd" THEN toLoad' = None /\ PostUpdates ELSE UNCHANGED <<toLoad, calls>>
    /\ UNCHANGED <<lt, alerts, dropped, after, batch, handles, seen, toSave, awaited, m_dirty,
                   dirtyTimer, reconcile, adds, loadedIds, removing, lost, changes>>

-----------------------------------------------------------------------------
(* The load job: one row of the database at a time                           *)

\* Mutant: only the hash of the add itself is looked up, and an entry is replaced.
BugAddNoCheck(t, form, meta, cfg, pos, state) ==
    /\ adds' = [adds EXCEPT ![t] = @ + 1]
    /\ m_torrents' = [m_torrents EXCEPT ![<<t, form>>] = Entry(state, adds[t] + 1, FALSE, meta, meta)]
    /\ calls' = Append(calls, [op |-> "add", t |-> t, id |-> adds[t] + 1, form |-> form,
                               meta |-> meta, cfg |-> cfg, pos |-> pos])

\* Session::Add: refused if the torrent is tracked under either hash.
Add(t, form, meta, cfg, pos, state) ==
    IF \E f \in Forms : Tracked(<<t, f>>)
    THEN UNCHANGED <<m_torrents, calls, adds>>
    ELSE /\ adds' = [adds EXCEPT ![t] = @ + 1]
         /\ m_torrents' = [m_torrents EXCEPT ![<<t, form>>] = Entry(state, adds[t] + 1, FALSE, meta, meta)]
         /\ calls' = Append(calls, [op |-> "add", t |-> t, id |-> adds[t] + 1, form |-> form,
                                    meta |-> meta, cfg |-> cfg, pos |-> pos])

LoadRun ==
    /\ pc = "idle" /\ toLoad # None
    /\ BeginAlerts("chunk")
    /\ UNCHANGED <<calls, handles, seen, sessVars, dbVars, histVars>>

\* A row is added with the hash of its info dictionary, or of its resume data.
LoadRow(t) ==
    /\ pc = "load" /\ t \in toLoad
    /\ toLoad' = toLoad \ {t}
    /\ IF rows[t] = None
       THEN UNCHANGED <<m_torrents, calls, adds>>
       ELSE Add(t, IF rows[t].info = None THEN rows[t].key ELSE rows[t].info,
                rows[t].info # None, rows[t].cfg, rows[t].pos, "Loading")
    /\ loadedIds' = IF adds' # adds THEN loadedIds \cup {<<t, adds'[t]>>} ELSE loadedIds
    /\ pc' = "idle"
    /\ UNCHANGED <<lt, alerts, dropped, after, batch, handles, seen, toSave, awaited, m_dirty,
                   dirtyTimer, reconcile, dbVars, events, removing, lost, changes>>

\* Finish, with a reconcile if torrents were added and without one if not.
LoadFinish ==
    /\ pc = "load" /\ toLoad = {} /\ loadedIds # {}
    /\ BeginReconcile("loadEnd")
    /\ UNCHANGED <<sessVars, dbVars, histVars>>

LoadFinishEmpty ==
    /\ pc = "load" /\ toLoad = {} /\ loadedIds = {}
    /\ toLoad' = None
    /\ PostUpdates
    /\ pc' = "idle"
    /\ UNCHANGED <<lt, alerts, dropped, after, batch, handles, seen, toSave, awaited, m_torrents,
                   m_dirty, dirtyTimer, reconcile, dbVars, histVars>>

-----------------------------------------------------------------------------
(* Requests and jobs                                                         *)

\* A magnet link with one hash, a torrent file, or a magnet link with both hashes.
UserAdd(t) ==
    /\ pc = "idle" /\ adds[t] < MaxAdds
    /\ \E src \in {<<"half", FALSE>>, <<"full", TRUE>>, <<"full", FALSE>>} :
          Add(t, src[1], src[2], 0, 0, "Adding")
    /\ adds' # adds
    /\ UNCHANGED <<lt, alerts, dropped, ioVars, m_dirty, dirtyTimer, reconcile, toLoad, dbVars,
                   loadedIds, events, removing, lost, changes>>

UserRemove(k) ==
    /\ pc = "idle" /\ "remove" \in Ops /\ Current(k)
    /\ <<k[1], m_torrents[k].id>> \notin removing
    /\ calls' = Append(calls, [op |-> "remove", t |-> k[1], id |-> m_torrents[k].id])
    /\ removing' = removing \cup {<<k[1], m_torrents[k].id>>}
    /\ UNCHANGED <<lt, alerts, dropped, ioVars, sessVars, dbVars, adds, loadedIds, events,
                   lost, changes>>

\* MarkDirty: the save is forced for what libtorrent does not track.
MarkDirty(k, force) ==
    /\ m_dirty' = [m_dirty EXCEPT ![k] = IF force \/ @ = "force" THEN "force" ELSE "plain"]
    /\ dirtyTimer' = TRUE

\* A request changes a current torrent: op is "configure" or "queue".
UserChange(k, op) ==
    /\ pc = "idle" /\ Current(k) /\ changes < MaxChanges
    /\ changes' = changes + 1
    /\ calls' = Append(calls, [op |-> op, t |-> k[1], id |-> m_torrents[k].id,
                               cfg |-> changes', pos |-> changes'])
    /\ MarkDirty(k, op = "queue")
    /\ UNCHANGED <<lt, alerts, dropped, ioVars, m_torrents, reconcile, toLoad, dbVars, adds,
                   loadedIds, events, removing, lost>>

\* A set as a sequence, in some order.
Listed(S) == CHOOSE s \in [1..Cardinality(S) -> S] : \A x \in S : \E i \in 1..Cardinality(S) : s[i] = x

\* The keys SaveDirty saves: the others are skipped.
DirtyKeys == {k \in Keys : m_dirty[k] # "no" /\ Tracked(k) /\ m_torrents[k].handle
                             /\ Valid(k[1], m_torrents[k].id)}

SaveDirty ==
    /\ pc = "idle" /\ dirtyTimer
    /\ dirtyTimer' = FALSE
    /\ calls' = calls \o Listed({Save(k[1], m_torrents[k].id, m_dirty[k] = "force", FALSE) : k \in DirtyKeys})
    /\ m_dirty' = [k \in Keys |-> "no"]
    /\ UNCHANGED <<lt, alerts, dropped, ioVars, m_torrents, reconcile, toLoad, dbVars, histVars>>

\* Mutant: nothing is looked for.
BugNoOrphans == {}

\* UntrackInvalidTorrents: current entries whose handle is dead.
Orphans == {k \in Keys : Current(k) /\ ~Valid(k[1], m_torrents[k].id)}

SaveStateUntrack ==
    /\ pc = "idle" /\ "saveState" \in Ops
    /\ pc' = "saveState"
    /\ UntrackAll(Orphans)
    /\ rows' = work'
    /\ UNCHANGED <<ltVars, after, batch, handles, seen, toSave, awaited, m_dirty, dirtyTimer,
                   reconcile, toLoad, adds, loadedIds, removing, lost, changes>>

\* The torrents that have something to save; the save is conditional.
SaveStateSave ==
    /\ pc = "saveState" /\ Synced
    /\ calls' = Listed({Save(t, lt[t].id, FALSE, FALSE) : t \in {u \in Torrents : Live(u) /\ lt[u].unsaved}})
    /\ pc' = "idle"
    /\ UNCHANGED <<lt, alerts, dropped, after, batch, handles, seen, toSave, awaited, sessVars,
                   dbVars, histVars>>

\* The periodic job; bounded by one request in flight.
PostTorrentUpdates ==
    /\ pc = "idle" /\ "update" \in Ops
    /\ \A i \in DOMAIN calls : calls[i].op # "updates"
    /\ \A i \in DOMAIN alerts : alerts[i].type # "update"
    /\ "update" \notin dropped
    /\ PostUpdates
    /\ UNCHANGED <<lt, alerts, dropped, ioVars, sessVars, dbVars, histVars>>

-----------------------------------------------------------------------------
(* Stop                                                                      *)

Stop ==
    /\ pc = "idle" /\ "stop" \in Ops
    /\ BeginReconcile("stop")
    /\ dirtyTimer' = FALSE
    /\ UNCHANGED <<m_torrents, m_dirty, reconcile, toLoad, dbVars, histVars>>

Key(t) == <<t, lt[t].form>>

MissingTi(t) == lt[t].meta /\ Tracked(Key(t)) /\ ~m_torrents[Key(t)].saved

Forced(t) == m_dirty[Key(t)] = "force"

\* Mutant: only what libtorrent tracks is saved.
BugStopIgnoresForced == {t \in Torrents : Live(t) /\ (lt[t].unsaved \/ MissingTi(t))}

\* The torrents that need a save.
NeedSave == {t \in Torrents : Live(t) /\ (lt[t].unsaved \/ MissingTi(t) \/ Forced(t))}

\* The session is paused and the torrents that need a save are listed.
StopStatus ==
    /\ pc = "stopStatus" /\ Synced
    /\ toSave' = {[t |-> t, id |-> lt[t].id, unsaved |-> lt[t].unsaved] : t \in NeedSave}
    /\ m_dirty' = [k \in Keys |-> "no"]
    /\ pc' = "stopSave"
    /\ UNCHANGED <<ltVars, after, batch, handles, seen, awaited, m_torrents, dirtyTimer, reconcile,
                   toLoad, dbVars, histVars>>

\* The saves of the next chunk, at most one alert queue of them, with their conditions.
StopChunk ==
    /\ pc = "stopSave"
    /\ \E chunk \in SUBSET toSave :
          /\ Cardinality(chunk) = IF Cardinality(toSave) < AlertLimit THEN Cardinality(toSave) ELSE AlertLimit
          /\ calls' = calls \o Listed({Save(c.t, c.id, MissingTi(c.t) \/ ~c.unsaved, MissingTi(c.t)) : c \in chunk})
          /\ awaited' = {Key(c.t) : c \in chunk}
          /\ toSave' = toSave \ chunk
    /\ pc' = "stopWait"
    /\ UNCHANGED <<lt, alerts, dropped, after, batch, handles, seen, sessVars, dbVars, histVars>>

\* An alert arrives: all of them are popped.
StopRead ==
    /\ pc = "stopWait" /\ batch = <<>> /\ awaited # {} /\ Popped # <<>>
    /\ PopAlerts
    /\ UNCHANGED <<lt, calls, pc, after, handles, seen, toSave, awaited, sessVars, dbVars, histVars>>

\* Only resume data and removals are handled; any other alert is skipped.
StopAlert ==
    /\ pc = "stopWait" /\ batch # <<>>
    /\ batch' = Tail(batch)
    /\ awaited' = IF Alert.type \in {"saved", "notSaved"} /\ Valid(Alert.t, Alert.id)
                  THEN awaited \ {Key(Alert.t)} ELSE awaited
    /\ CASE Alert.type = "saved"   -> StoreResumeData /\ UNCHANGED events
         [] Alert.type = "removed" -> UntrackTorrent(AlertKey)
         [] OTHER                  -> UNCHANGED <<work, m_torrents, events>>
    /\ rows' = IF batch' = <<>> THEN work' ELSE rows
    /\ UNCHANGED <<ltVars, pc, after, handles, seen, toSave, m_dirty, dirtyTimer, reconcile, toLoad,
                   adds, loadedIds, removing, lost, changes>>

\* Mutant: the first chunk is the last.
BugStopOneChunk ==
    /\ pc = "stopWait" /\ batch = <<>>
    /\ awaited = {} \/ (Popped = <<>> /\ Synced)
    /\ awaited' = {}
    /\ pc' = "down"
    /\ UNCHANGED <<ltVars, after, batch, handles, seen, toSave, sessVars, dbVars, histVars>>

\* Every alert of the chunk came, or none came for ten seconds.
StopChunkDone ==
    /\ pc = "stopWait" /\ batch = <<>>
    /\ awaited = {} \/ (Popped = <<>> /\ Synced)
    /\ awaited' = {}
    /\ pc' = IF toSave = {} THEN "down" ELSE "stopSave"
    /\ UNCHANGED <<ltVars, after, batch, handles, seen, toSave, sessVars, dbVars, histVars>>

-----------------------------------------------------------------------------
StoredRow(form, key, info) == [form |-> form, key |-> key, cfg |-> 0, pos |-> 0, info |-> info]

\* Rows of an earlier run: a magnet, or a torrent with metadata.
StoredRows ==
    {StoredRow(f, f, None) : f \in StoredForms} \cup {StoredRow(f, "full", "full") : f \in StoredForms}

\* MaxAdds requests, and a load if there is anything to load.
Ids == 1..(IF StoredForms = {} THEN MaxAdds ELSE MaxAdds + 1)

EventNames == {"added", "removed", "metadata", "addFailed"}

Init ==
    /\ lt = [t \in Torrents |-> None]
    /\ calls = <<>> /\ alerts = <<>> /\ dropped = {}
    /\ m_torrents = [k \in Keys |-> None]
    /\ m_dirty = [k \in Keys |-> "no"]
    /\ dirtyTimer = FALSE /\ reconcile = FALSE
    /\ pc = "idle" /\ after = "idle" /\ batch = <<>> /\ handles = {} /\ seen = {}
    /\ toSave = {} /\ awaited = {}
    /\ rows \in [Torrents -> {None} \cup StoredRows]
    /\ work = rows
    /\ toLoad = {t \in Torrents : rows[t] # None}
    /\ adds = [t \in Torrents |-> 0]
    /\ loadedIds = {} /\ removing = {} /\ lost = {} /\ changes = 0
    /\ events = [e \in EventNames \X Torrents \X Ids |-> 0]

Requests ==
    \/ \E t \in Torrents : UserAdd(t)
    \/ \E k \in Keys : UserRemove(k) \/ \E op \in {"configure", "queue"} \cap Ops : UserChange(k, op)

Load == LoadRun \/ (\E t \in Torrents : LoadRow(t)) \/ LoadFinish \/ LoadFinishEmpty

Reconcile == ReconcileJob \/ ReconcileTorrent \/ ReconcileGone

Stopping == StopStatus \/ StopChunk \/ StopRead \/ StopAlert \/ StopChunkDone

\* The io thread finishes what it began and answers timers and notifications.
IoThread ==
    \/ ReadAlerts \/ ProcessAlert \/ CommitAlerts \/ Load \/ Reconcile
    \/ SaveDirty \/ SaveStateUntrack \/ SaveStateSave \/ PostTorrentUpdates \/ Stopping

Next ==
    \/ LtStep \/ (\E t \in Torrents : LtMetadata(t))
    \/ IoThread \/ Requests \/ Stop
    \/ (pc = "down" /\ UNCHANGED vars)

Spec == Init /\ [][Next]_vars

\* The io thread goes on with the handler it is in.
InHandler ==
    \/ ProcessAlert \/ CommitAlerts \/ ReconcileTorrent \/ ReconcileGone \/ SaveStateSave \/ Stopping

\* The network thread runs; the io thread ends every handler and serves the alert
\* notification, each timer and each job in turn, so none of them starves.
Fairness ==
    /\ WF_vars(LtStep) /\ WF_vars(InHandler)
    /\ SF_vars(ReadAlerts) /\ SF_vars(ReconcileJob) /\ SF_vars(Load)
    /\ SF_vars(PostTorrentUpdates) /\ SF_vars(SaveStateUntrack)

FairSpec == Spec /\ Fairness

-----------------------------------------------------------------------------
(* Properties                                                                *)

Maybe(S) == S \cup {None}

\* A torrent of libtorrent, an entry of the map and a row of the table.
LtTorrents == [id : Ids, form : Forms, meta : BOOLEAN, cfg : Maybe(0..MaxChanges),
               pos : 0..MaxChanges, unsaved : BOOLEAN]
Entries == [state : {"Adding", "Loading", "Current"}, id : Ids,
            handle : BOOLEAN, announced : BOOLEAN, saved : BOOLEAN]
TableRows == [form : Forms, key : Forms, cfg : Maybe(0..MaxChanges),
              pos : 0..MaxChanges, info : Maybe(Forms)]

\* None is no value of any kind.
ASSUME NoneAssumption ==
    None \notin LtTorrents /\ None \notin Entries /\ None \notin TableRows /\ None \notin Forms

\* The shape of the state; the alert queue keeps its limit, and a current entry has the
\* handle that the jobs and requests use.
TypeOK ==
    /\ lt \in [Torrents -> Maybe(LtTorrents)]
    /\ Len(alerts) <= AlertLimit
    /\ m_torrents \in [Keys -> Maybe(Entries)]
    /\ \A k \in Keys : Current(k) => m_torrents[k].handle
    /\ m_dirty \in [Keys -> {"no", "plain", "force"}]
    /\ rows \in [Torrents -> Maybe(TableRows)]
    /\ toLoad = None \/ toLoad \subseteq Torrents
    /\ pc \in {"idle", "alerts", "load", "reconcile", "saveState", "stopStatus", "stopSave", "stopWait", "down"}

\* torrent.added is published at most once for an add, by the alert or by a reconcile
\* but not by both, and never for a torrent loaded from the database.
AddedOnce ==
    \A t \in Torrents, id \in Ids :
        events[<<"added", t, id>>] <= IF <<t, id>> \in loadedIds THEN 0 ELSE 1

\* torrent.metadata_received is published at most once for an add, whichever of the
\* alert, a state update and a reconcile notices the metadata.  An add whose own
\* alert was dropped is left out: until the reconcile moves its entry, the metadata
\* alert of a hybrid finds no entry to mark.
MetadataOnce ==
    \A t \in Torrents, id \in Ids : <<"add", t, id>> \notin lost => events[<<"metadata", t, id>>] <= 1

\* torrent.removed is published at most once, for a torrent that was announced or
\* loaded and whose removal was asked for, whichever of the alert, a reconcile, the
\* SaveState job and Stop notices that it is gone.
RemovedMatches ==
    \A t \in Torrents, id \in Ids :
        events[<<"removed", t, id>>] <=
            IF <<t, id>> \in removing /\ (<<t, id>> \in loadedIds \/ events[<<"added", t, id>>] = 1) THEN 1 ELSE 0

\* Between handlers every current torrent whose removal was not asked for has a row
\* its resume data will be stored in.
CurrentIsStored ==
    pc = "idle" => \A k \in Keys :
        Current(k) /\ <<k[1], m_torrents[k].id>> \notin removing => Matches(rows[k[1]], k[2])

Wanted(t, id) ==
    \/ Valid(t, id)
    \/ \E i \in DOMAIN calls : calls[i].op = "add" /\ calls[i].t = t /\ calls[i].id = id

\* A torrent that is in libtorrent, or on its way, has an entry: the entry owns the
\* client data libtorrent points to, so it may not go before the torrent does.
DataOwned ==
    \A t \in Torrents, id \in Ids : Wanted(t, id) =>
        \E f \in Forms : Tracked(<<t, f>>) /\ m_torrents[<<t, f>>].id = id

\* An add alert that is waiting is of a torrent that is still there: nothing removes a
\* torrent before its alert was read, because a reconcile reads the alerts first.
AddAlertIsLive ==
    \A queue \in {alerts, batch} : \A i \in DOMAIN queue :
        queue[i].type = "add" => Valid(queue[i].t, queue[i].id)

Lost(type, t) == <<type, t, lt[t].id>> \in lost

Unread(t) == \E i \in DOMAIN alerts : alerts[i].type = "saved" /\ alerts[i].t = t

\* After Stop the row of every torrent has its last configuration and queue position,
\* and its metadata if it was tracked under its final hash, except for resume data
\* that was dropped or that Stop left unread.
StopStoresLatest ==
    pc = "down" =>
        \A t \in Torrents : Live(t) /\ ~Unread(t) /\ ~Lost("saved", t) =>
            /\ rows[t] # None /\ rows[t].cfg = lt[t].cfg /\ rows[t].pos = lt[t].pos
            /\ lt[t].meta /\ Tracked(Key(t)) => rows[t].info # None

\* A row only goes if a removal of its torrent was asked for: not when its add fails,
\* when alerts are dropped or when the session stops.
RowKept ==
    [][\A t \in Torrents : rows[t] # None /\ rows'[t] = None => \E id \in Ids : <<t, id>> \in removing]_vars

\* A torrent that libtorrent has added becomes current even if its alert is dropped.
BecomesCurrent ==
    \A t \in Torrents :
        Live(t) ~> (~Live(t) \/ Current(<<t, "half">>) \/ Current(<<t, "full">>) \/ pc = "down")

\* A removal is announced even if its alert is dropped, or names a hash under which the
\* torrent is not tracked.
RemovalAnnounced ==
    \A t \in Torrents, id \in Ids :
        <<t, id>> \in removing ~> (events[<<"removed", t, id>>] = 1 \/ pc = "down")

\* Metadata is announced, and the torrent tracked under its final hash, even if the
\* metadata alert is dropped.
MetadataAnnounced ==
    \A t \in Torrents :
        (Live(t) /\ lt[t].meta) ~>
            (~Live(t) \/ (Current(Key(t)) /\ m_torrents[Key(t)].announced) \/ pc = "down")

\* The events and the state they are published from: each of torrent.added, torrent.removed
\* and torrent.metadata_received comes once and matches what users did and libtorrent has.
EventsMatch == TypeOK /\ AddedOnce /\ RemovedMatches /\ MetadataOnce /\ AddAlertIsLive

\* What a dropped alert would have said, of a removal or of metadata, is announced all the same.
NewsArrives == RemovalAnnounced /\ MetadataAnnounced
=============================================================================
