------------------------------ MODULE Migration ------------------------------
(***************************************************************************)
(* torrents.migrate (src/rpc/methods/torrents.cpp, Migrate): one torrent    *)
(* moves between sessions.  The stored row moves first, then the torrent is *)
(* removed from the source, and the coroutine waits for torrent.removed or  *)
(* for 30 seconds before it adds the torrent to the target or back.  While  *)
(* it waits, requests, the sessions' load jobs, unloads and a crash go on.  *)
(*                                                                         *)
(* A session is cut down to what Migrate meets of it: whether it tracks the *)
(* torrent and in which state, the one operation libtorrent has in flight   *)
(* for it, and its row.  Dropped alerts, hash changes and the contents of   *)
(* the row are the subject of TorrentSession.                               *)
(***************************************************************************)
EXTENDS Naturals, FiniteSets

CONSTANTS
    Sessions,
    Requests,  \* the migrate requests, each made once
    MaxAdds,   \* bound on the adds by users
    Races      \* what may happen during a wait, see AllRaces

\* "timeout": the removal takes longer than 30 seconds.  "loading": the target has not
\* read all its rows yet.  "reload": a target that was unloaded is loaded again.
AllRaces == {"timeout", "loading", "reload"}

ASSUME MigrationAssumption ==
    /\ MaxAdds \in Nat /\ Races \subseteq AllRaces
    /\ IsFiniteSet(Sessions) /\ IsFiniteSet(Requests)

VARIABLES
    loaded,      \* the sessions in m_sessions
    reading,     \* per session: the load job has rows left to read
    tracked,     \* per session: "no" or the state of the entry of the torrent
    op,          \* per session: the call or the alert in flight
    published,   \* per session: torrent.removed is queued for delivery
    row,         \* per session: the torrent is stored there
    req,         \* the state of each request
    userAdds,    \* history: adds by users
    userRemoved  \* history: a user asked for a removal

sessionVars == <<loaded, reading, tracked, op, published>>
histVars == <<userAdds, userRemoved>>
vars == <<sessionVars, row, req, histVars>>

Removal == {"remove", "removed"}

Contains(s) == tracked[s] # "no"

\* The handle of a current entry is valid until libtorrent has removed the torrent.
HandleValid(s) == tracked[s] = "Current" /\ op[s] \in {"none", "remove"}

\* Mutant: the row is only inserted in the session it moves to.
BugMoveParamsKeeps(from, to) == [row EXCEPT ![to] = TRUE]

\* Sessions::MoveParams: the rows of both sessions go and one is inserted.
MoveParams(from, to) == [s \in Sessions |-> s = to \/ (row[s] /\ s # from)]

\* Session::Add, once Contains(s) was found false.
Add(s, state) ==
    /\ tracked' = [tracked EXCEPT ![s] = state]
    /\ op' = [op EXCEPT ![s] = "add"]

-----------------------------------------------------------------------------
(* Migrate                                                                   *)

Waiting(r) == req[r].pc = "waiting"

\* The wait has ended: what follows it is queued on the io thread.
Queued(r) == Waiting(r) /\ req[r].removed

NoRequest(s) == [pc |-> "idle", source |-> s, target |-> s, removed |-> FALSE,
                 sourceAlive |-> FALSE, targetAlive |-> FALSE]

\* Mutant: the row is left to the save in the target session.
BugMigrateNoMove(r, s, d) ==
    /\ req[r].pc = "idle" /\ s # d /\ {s, d} \subseteq loaded
    /\ HandleValid(s) /\ op[s] = "none" /\ ~Contains(d)
    /\ reading[d] => "loading" \in Races
    /\ row' = row
    /\ op' = [op EXCEPT ![s] = "remove"]
    /\ req' = [req EXCEPT ![r] = [pc |-> "waiting", source |-> s, target |-> d, removed |-> FALSE,
                                  sourceAlive |-> TRUE, targetAlive |-> TRUE]]
    /\ UNCHANGED <<loaded, reading, tracked, published, histVars>>

\* The checks, the move of the row and the call that removes the torrent, up to the
\* wait.  The resume data is read by a call that runs after the calls posted before
\* it, so a torrent with a removal in flight is refused.
Migrate(r, s, d) ==
    /\ req[r].pc = "idle" /\ s # d /\ {s, d} \subseteq loaded
    /\ HandleValid(s) /\ op[s] = "none" /\ ~Contains(d)
    /\ reading[d] => "loading" \in Races
    /\ row' = MoveParams(s, d)
    /\ op' = [op EXCEPT ![s] = "remove"]
    /\ req' = [req EXCEPT ![r] = [pc |-> "waiting", source |-> s, target |-> d, removed |-> FALSE,
                                  sourceAlive |-> TRUE, targetAlive |-> TRUE]]
    /\ UNCHANGED <<loaded, reading, tracked, published, histVars>>

Answer(r, pc) == req' = [req EXCEPT ![r].pc = pc]

\* The timer fires first: the row goes back.
MigrateTimeout(r) ==
    /\ "timeout" \in Races
    /\ Waiting(r) /\ ~req[r].removed
    /\ row' = MoveParams(req[r].target, req[r].source)
    /\ Answer(r, "timedOut")
    /\ UNCHANGED <<sessionVars, histVars>>

TargetAccepts(r) == req[r].targetAlive /\ ~Contains(req[r].target)

\* The target takes the torrent and keeps the row.
MigrateAccepted(r) ==
    /\ Queued(r) /\ TargetAccepts(r)
    /\ Add(req[r].target, "Adding")
    /\ Answer(r, "migrated")
    /\ UNCHANGED <<loaded, reading, published, row, histVars>>

\* Mutant: the row is taken from a target that has the torrent.
BugTakesTargetRow(r) == MoveParams(req[r].target, req[r].source)

\* The rows when the torrent goes back: the target keeps its row if it has the torrent.
RowBack(r) ==
    IF req[r].targetAlive /\ Contains(req[r].target)
    THEN MoveParams(req[r].source, req[r].source)
    ELSE MoveParams(req[r].target, req[r].source)

\* The target is gone or refuses the torrent: it goes back to the source with its row.
MigrateBack(r) ==
    /\ Queued(r) /\ ~TargetAccepts(r) /\ req[r].sourceAlive
    /\ row' = RowBack(r)
    /\ IF Contains(req[r].source)
       THEN Answer(r, "failed") /\ UNCHANGED <<tracked, op>>
       ELSE Answer(r, "back") /\ Add(req[r].source, "Adding")
    /\ UNCHANGED <<loaded, reading, published, histVars>>

\* Both sessions are gone: the row stays where it is.
MigrateNeither(r) ==
    /\ Queued(r) /\ ~TargetAccepts(r) /\ ~req[r].sourceAlive
    /\ Answer(r, "failed")
    /\ UNCHANGED <<sessionVars, row, histVars>>

-----------------------------------------------------------------------------
(* What the sessions do                                                      *)

\* The network thread runs the call; an add may be refused.
LtStep(s) ==
    /\ \/ op[s] = "remove" /\ op' = [op EXCEPT ![s] = "removed"]
       \/ op[s] = "add" /\ \E a \in {"added", "addFailed"} : op' = [op EXCEPT ![s] = a]
    /\ UNCHANGED <<loaded, reading, tracked, published, row, req, histVars>>

\* UntrackTorrent: the entry and the row go, torrent.removed is published.
OnRemoved(s) ==
    /\ op[s] = "removed"
    /\ tracked' = [tracked EXCEPT ![s] = "no"]
    /\ op' = [op EXCEPT ![s] = "none"]
    /\ published' = [published EXCEPT ![s] = TRUE]
    /\ row' = [row EXCEPT ![s] = FALSE]
    /\ UNCHANGED <<loaded, reading, req, histVars>>

\* Mutant: the migrations that wait are not told.
BugDeliverNobody(s) ==
    /\ published[s]
    /\ published' = [published EXCEPT ![s] = FALSE]
    /\ UNCHANGED <<loaded, reading, tracked, op, row, req, histVars>>

\* The event is delivered: it ends the waits of the migrations from that session.
Deliver(s) ==
    /\ published[s]
    /\ published' = [published EXCEPT ![s] = FALSE]
    /\ req' = [r \in Requests |-> [req[r] EXCEPT !.removed = @ \/ (Waiting(r) /\ req[r].source = s)]]
    /\ UNCHANGED <<loaded, reading, tracked, op, row, histVars>>

\* The event, and then the migration whose wait it ends, were queued on the io thread
\* before an add made after the removal could be answered by libtorrent.
NoneQueued(s) == ~published[s] /\ \A r \in Requests : Queued(r) => req[r].source # s

\* OnAddTorrentAlert: a new torrent gets a row unless it has one.
OnAdded(s) ==
    /\ op[s] = "added" /\ NoneQueued(s)
    /\ tracked' = [tracked EXCEPT ![s] = "Current"]
    /\ op' = [op EXCEPT ![s] = "none"]
    /\ row' = [row EXCEPT ![s] = @ \/ tracked[s] = "Adding"]
    /\ UNCHANGED <<loaded, reading, published, req, histVars>>

\* The entry goes, the row stays.
OnAddFailed(s) ==
    /\ op[s] = "addFailed"
    /\ tracked' = [tracked EXCEPT ![s] = "no"]
    /\ op' = [op EXCEPT ![s] = "none"]
    /\ UNCHANGED <<loaded, reading, published, row, req, histVars>>

UserAdd(s) ==
    /\ s \in loaded /\ ~Contains(s) /\ userAdds < MaxAdds
    /\ userAdds' = userAdds + 1
    /\ Add(s, "Adding")
    /\ UNCHANGED <<loaded, reading, published, row, req, userRemoved>>

UserRemove(s) ==
    /\ HandleValid(s)
    /\ op' = [op EXCEPT ![s] = "remove"]
    /\ userRemoved' = TRUE
    /\ UNCHANGED <<loaded, reading, tracked, published, row, req, userAdds>>

\* LoadById: the session is there before its torrents are.  The load job it starts
\* comes after a migration that is queued.
LoadById(s) ==
    /\ s \notin loaded /\ \A d \in Sessions : NoneQueued(d)
    /\ \A r \in Requests : Waiting(r) /\ req[r].target = s => "reload" \in Races
    /\ loaded' = loaded \cup {s}
    /\ reading' = [reading EXCEPT ![s] = TRUE]
    /\ UNCHANGED <<tracked, op, published, row, req, histVars>>

\* The load job reads the row, if there is one, and adds the torrent unless it has it.
LoadRow(s) ==
    /\ reading[s]
    /\ reading' = [reading EXCEPT ![s] = FALSE]
    /\ IF row[s] /\ ~Contains(s) THEN Add(s, "Loading") ELSE UNCHANGED <<tracked, op>>
    /\ UNCHANGED <<loaded, published, row, req, histVars>>

\* UnloadById: Stop reads the alerts and reconciles, so a removal in flight ends with
\* the torrent untracked and a new torrent with its row.
UnloadById(s) ==
    /\ s \in loaded
    /\ loaded' = loaded \ {s}
    /\ reading' = [reading EXCEPT ![s] = FALSE]
    /\ tracked' = [tracked EXCEPT ![s] = "no"]
    /\ op' = [op EXCEPT ![s] = "none"]
    /\ row' = [row EXCEPT ![s] = op[s] \notin Removal /\ (@ \/ (tracked[s] = "Adding" /\ op[s] # "addFailed"))]
    /\ published' = [published EXCEPT ![s] = @ \/ op[s] \in Removal]
    /\ req' = [r \in Requests |-> [req[r] EXCEPT !.sourceAlive = @ /\ req[r].source # s,
                                                 !.targetAlive = @ /\ req[r].target # s]]
    /\ UNCHANGED histVars

\* The process dies: only the rows are left.
Crash ==
    /\ loaded' = {}
    /\ reading' = [s \in Sessions |-> FALSE]
    /\ tracked' = [s \in Sessions |-> "no"]
    /\ op' = [s \in Sessions |-> "none"]
    /\ published' = [s \in Sessions |-> FALSE]
    /\ req' = [r \in Requests |-> IF Waiting(r) THEN [req[r] EXCEPT !.pc = "lost"] ELSE req[r]]
    /\ UNCHANGED <<row, histVars>>

-----------------------------------------------------------------------------
\* All sessions are loaded and one of them has the torrent.
Init ==
    \E home \in Sessions :
        /\ loaded = Sessions
        /\ reading = [s \in Sessions |-> FALSE]
        /\ tracked = [s \in Sessions |-> IF s = home THEN "Current" ELSE "no"]
        /\ op = [s \in Sessions |-> "none"]
        /\ published = [s \in Sessions |-> FALSE]
        /\ row = [s \in Sessions |-> s = home]
        /\ req = [r \in Requests |-> NoRequest(home)]
        /\ userAdds = 0 /\ userRemoved = FALSE

Finish(r) == MigrateAccepted(r) \/ MigrateBack(r) \/ MigrateNeither(r)

Handlers(s) == OnRemoved(s) \/ Deliver(s) \/ OnAdded(s) \/ OnAddFailed(s) \/ LoadRow(s)

Next ==
    \/ \E r \in Requests :
          \/ MigrateTimeout(r) \/ Finish(r)
          \/ \E s, d \in Sessions : Migrate(r, s, d)
    \/ \E s \in Sessions :
          \/ LtStep(s) \/ Handlers(s)
          \/ UserAdd(s) \/ UserRemove(s) \/ LoadById(s) \/ UnloadById(s)
    \/ Crash

Spec == Init /\ [][Next]_vars

\* The network thread and the io thread serve what is queued.
Fairness ==
    /\ \A r \in Requests : WF_vars(Finish(r))
    /\ \A s \in Sessions : WF_vars(LtStep(s)) /\ WF_vars(Handlers(s))

FairSpec == Spec /\ Fairness

-----------------------------------------------------------------------------
(* Properties                                                                *)

States == {"no", "Adding", "Loading", "Current"}
InFlight == {"none", "add", "added", "addFailed", "remove", "removed"}
Outcomes == {"migrated", "back", "failed", "timedOut", "lost"}

\* An entry is being added while its add is in flight, is removed only once current,
\* and goes with its session.
EntriesMatch ==
    \A s \in Sessions :
        /\ op[s] \in {"add", "added", "addFailed"} <=> tracked[s] \in {"Adding", "Loading"}
        /\ op[s] \in Removal => tracked[s] = "Current"
        /\ s \notin loaded => tracked[s] = "no" /\ ~reading[s]

\* The shape of the state.
TypeOK ==
    /\ EntriesMatch
    /\ loaded \subseteq Sessions
    /\ reading \in [Sessions -> BOOLEAN]
    /\ tracked \in [Sessions -> States]
    /\ op \in [Sessions -> InFlight]
    /\ published \in [Sessions -> BOOLEAN]
    /\ row \in [Sessions -> BOOLEAN]
    /\ req \in [Requests -> [pc : {"idle", "waiting"} \cup Outcomes, source : Sessions, target : Sessions,
                             removed : BOOLEAN, sourceAlive : BOOLEAN, targetAlive : BOOLEAN]]
    /\ userAdds \in Nat /\ userRemoved \in BOOLEAN

\* "a shutdown or crash at any point leaves the torrent stored in one of the
\* sessions": the torrent has a row at every point until a user removes it.
StoredAtEveryPoint == userRemoved \/ \E s \in Sessions : row[s]

TimedOut == \E r \in Requests : req[r].pc = "timedOut"

\* As long as no wait has timed out, the torrent has a row at every point: through the
\* steps of a migration, the end of either session, a crash, and the adds that
\* libtorrent refuses.
StoredSomewhere == TimedOut \/ StoredAtEveryPoint

\* "the torrent is stored in exactly one of the sessions at every point": unless a
\* user added it to a second session, it is never stored in two.
StoredOnce ==
    userAdds = 0 => \A s, d \in Sessions : row[s] /\ row[d] => s = d

\* A torrent that runs in a session is stored there: it is neither lost with the
\* session nor loaded by another one.
RunningIsStored ==
    TimedOut \/ \A s \in Sessions : tracked[s] = "Current" /\ op[s] = "none" => row[s]

\* Two sessions never run the torrent at once, on the same files, unless a user added
\* it to the second one.
RunsOnce ==
    userAdds = 0 => \A s, d \in Sessions : Contains(s) /\ Contains(d) => s = d

Settled(r) == req[r].pc \notin {"idle", "waiting"}

\* Every migration ends, and no wait is left behind by a removal another session or
\* request caused.
MigrationEnds == \A r \in Requests : Waiting(r) ~> Settled(r)

\* Through a migration the torrent is in one place: the entries match what is in flight, and
\* it is neither stored nor run twice.
OnePlace == TypeOK /\ StoredOnce /\ RunsOnce
=============================================================================
