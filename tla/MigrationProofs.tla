--------------------------- MODULE MigrationProofs ---------------------------
(***************************************************************************)
(* The torrent stays stored, for any number of sessions and of concurrent   *)
(* migrations, until a wait for a removal times out.                        *)
(***************************************************************************)
EXTENDS Migration, TLAPS

\* The weak references of a migration that waits are to sessions that are loaded.
AliveLoaded ==
    \A r \in Requests : Waiting(r) =>
        /\ req[r].sourceAlive => req[r].source \in loaded
        /\ req[r].targetAlive => req[r].target \in loaded

TInv == TypeOK /\ AliveLoaded

\* A row that no removal in flight will delete: UntrackTorrent deletes the row of its
\* session whoever wrote it, so a row beside a removal does not count.
SafeRow == TimedOut \/ userRemoved \/ \E s \in Sessions : row[s] /\ op[s] \notin Removal

\* Until a migration has gone on after its wait the torrent is not current in the
\* source, so no removal from there is in flight.
SourceLeft ==
    /\ \A s \in Sessions : published[s] => tracked[s] # "Current"
    /\ \A r \in Requests : Queued(r) => tracked[req[r].source] # "Current"

SInv == SafeRow /\ SourceLeft

-----------------------------------------------------------------------------
(* Types                                                                     *)

\* The record of a request keeps its fields.
ReqType == [pc : {"idle", "waiting"} \cup Outcomes, source : Sessions, target : Sessions,
            removed : BOOLEAN, sourceAlive : BOOLEAN, targetAlive : BOOLEAN]

\* The initial state has the shape.
LEMMA InitTInv == Init => TInv
<1> SUFFICES ASSUME Init PROVE TInv
    OBVIOUS
<1>1. PICK home \in Sessions :
        /\ loaded = Sessions
        /\ reading = [s \in Sessions |-> FALSE]
        /\ tracked = [s \in Sessions |-> IF s = home THEN "Current" ELSE "no"]
        /\ op = [s \in Sessions |-> "none"]
        /\ published = [s \in Sessions |-> FALSE]
        /\ row = [s \in Sessions |-> s = home]
        /\ req = [r \in Requests |-> NoRequest(home)]
        /\ userAdds = 0 /\ userRemoved = FALSE
    BY DEF Init
<1>2. row \in [Sessions -> BOOLEAN]
    BY <1>1, Zenon
<1>3. EntriesMatch
    BY <1>1 DEF EntriesMatch, Removal
<1>4. AliveLoaded
    BY <1>1 DEF AliveLoaded, Waiting, NoRequest
<1>5. reading \in [Sessions -> BOOLEAN] /\ published \in [Sessions -> BOOLEAN] /\ userRemoved \in BOOLEAN
    BY <1>1, Zenon
<1>6. NoRequest(home) \in ReqType
    BY DEF NoRequest, ReqType
<1>7. req \in [Requests -> ReqType]
    BY <1>1, <1>6
<1> QED
    BY <1>1, <1>2, <1>3, <1>4, <1>5, <1>7 DEF TInv, TypeOK, ReqType, States, InFlight

\* Every step keeps the shape, whatever races there are.
LEMMA NextTInv == TInv /\ [Next]_vars => TInv'
<1> SUFFICES ASSUME TInv, [Next]_vars PROVE TInv'
    OBVIOUS
<1> USE DEF TInv, TypeOK, EntriesMatch, AliveLoaded, Waiting, Queued, Removal, States, InFlight, Outcomes
<1>1. ASSUME NEW r \in Requests, NEW s \in Sessions, NEW d \in Sessions, Migrate(r, s, d) PROVE TInv'
    BY <1>1 DEF Migrate, MoveParams, HandleValid, Contains, histVars
<1>2. ASSUME NEW r \in Requests, MigrateTimeout(r) PROVE TInv'
    BY <1>2 DEF MigrateTimeout, MoveParams, Answer, sessionVars, histVars
<1>3. ASSUME NEW r \in Requests, MigrateAccepted(r) PROVE TInv'
    BY <1>3 DEF MigrateAccepted, TargetAccepts, Contains, Add, Answer, histVars
<1>4. ASSUME NEW r \in Requests, MigrateBack(r) PROVE TInv'
    BY <1>4 DEF MigrateBack, RowBack, MoveParams, Contains, Add, Answer, histVars
<1>5. ASSUME NEW r \in Requests, MigrateNeither(r) PROVE TInv'
    BY <1>5 DEF MigrateNeither, Answer, sessionVars, histVars
<1>6. ASSUME NEW s \in Sessions, LtStep(s) PROVE TInv'
    BY <1>6 DEF LtStep, histVars
<1>7. ASSUME NEW s \in Sessions, OnRemoved(s) PROVE TInv'
    BY <1>7 DEF OnRemoved, histVars
<1>8. ASSUME NEW s \in Sessions, OnAdded(s) PROVE TInv'
    BY <1>8 DEF OnAdded, histVars
<1>9. ASSUME NEW s \in Sessions, OnAddFailed(s) PROVE TInv'
    BY <1>9 DEF OnAddFailed, histVars
<1>10. ASSUME NEW s \in Sessions, LoadRow(s) PROVE TInv'
    BY <1>10 DEF LoadRow, Add, Contains, histVars
<1>11. ASSUME NEW s \in Sessions, UserAdd(s) PROVE TInv'
    BY <1>11 DEF UserAdd, Add, Contains
<1>12. ASSUME NEW s \in Sessions, UserRemove(s) PROVE TInv'
    BY <1>12 DEF UserRemove, HandleValid
<1>13. ASSUME NEW s \in Sessions, LoadById(s) PROVE TInv'
    BY <1>13 DEF LoadById, histVars
<1>14. ASSUME NEW s \in Sessions, UnloadById(s) PROVE TInv'
  <2>1. ASSUME NEW r \in Requests
        PROVE  /\ req'[r] \in ReqType
               /\ req'[r].pc = req[r].pc
               /\ req'[r].source = req[r].source
               /\ req'[r].target = req[r].target
               /\ req'[r].sourceAlive => req[r].sourceAlive /\ req[r].source # s
               /\ req'[r].targetAlive => req[r].targetAlive /\ req[r].target # s
    <3>1. req[r] \in ReqType
        BY DEF ReqType
    <3>2. PICK y, z \in BOOLEAN :
            /\ req'[r] = [req[r] EXCEPT !.sourceAlive = y, !.targetAlive = z]
            /\ y => req[r].sourceAlive /\ req[r].source # s
            /\ z => req[r].targetAlive /\ req[r].target # s
        BY <1>14, Zenon DEF UnloadById
    <3> QED
        BY <3>1, <3>2 DEF ReqType
  <2>2. req' \in [Requests -> ReqType]
    BY <1>14, <2>1 DEF UnloadById
  <2>3. EntriesMatch'
    BY <1>14 DEF UnloadById
  <2>4. AliveLoaded'
    <3> SUFFICES ASSUME NEW r \in Requests, Waiting(r)'
                 PROVE  /\ req'[r].sourceAlive => req'[r].source \in loaded'
                        /\ req'[r].targetAlive => req'[r].target \in loaded'
        BY DEF AliveLoaded
    <3> QED
        <4>1. Waiting(r) /\ loaded' = loaded \ {s}
            BY <1>14, <2>1 DEF UnloadById
        <4> QED
            BY <2>1, <4>1
  <2>5. row' \in [Sessions -> BOOLEAN] /\ published' \in [Sessions -> BOOLEAN]
    BY <1>14 DEF UnloadById
  <2> QED
    BY <1>14, <2>2, <2>3, <2>4, <2>5 DEF UnloadById, ReqType, histVars
<1>15. CASE Crash
    BY <1>15 DEF Crash, histVars
<1>16. CASE UNCHANGED vars
    BY <1>16 DEF vars, sessionVars, histVars
<1>17. ASSUME NEW s \in Sessions, Deliver(s) PROVE TInv'
    BY <1>17 DEF Deliver, histVars
<1> QED
    BY <1>1, <1>2, <1>3, <1>4, <1>5, <1>6, <1>7, <1>8, <1>9, <1>10, <1>11, <1>12, <1>13, <1>14, <1>15, <1>16, <1>17
    DEF Next, Finish, Handlers

\* The state of the sessions and the migrations keeps its shape, and the entry of the
\* torrent fits the call or the alert libtorrent has in flight for it.
THEOREM TypeCorrect == Spec => []TypeOK
<1>1. Spec => []TInv
    BY InitTInv, NextTInv, PTL DEF Spec
<1> QED
    BY <1>1, PTL DEF TInv

-----------------------------------------------------------------------------
(* Storage                                                                   *)

\* The torrent begins with a row in its home session.
LEMMA InitSInv == Init => SInv
<1> SUFFICES ASSUME Init PROVE SInv
    OBVIOUS
<1>1. PICK home \in Sessions :
        /\ op = [s \in Sessions |-> "none"]
        /\ published = [s \in Sessions |-> FALSE]
        /\ row = [s \in Sessions |-> s = home]
        /\ req = [r \in Requests |-> NoRequest(home)]
    BY DEF Init
<1>2. row[home] /\ op[home] \notin Removal
    BY <1>1 DEF Removal
<1>3. (\A s \in Sessions : ~published[s]) /\ \A r \in Requests : ~Queued(r)
    BY <1>1 DEF Queued, Waiting, NoRequest
<1> QED
    BY <1>2, <1>3 DEF SInv, SafeRow, SourceLeft

\* A step that moves no row away and begins no removal keeps a safe row.
LEMMA KeepsSafeRow ==
    ASSUME SafeRow, TimedOut => TimedOut', userRemoved' = userRemoved,
           \A s \in Sessions : row[s] /\ op[s] \notin Removal => row'[s] /\ op'[s] \notin Removal
    PROVE  SafeRow'
BY DEF SafeRow

\* The answer of a request is final.
LEMMA AnswersStay == TInv /\ [Next]_vars => (TimedOut => TimedOut')
<1> SUFFICES ASSUME TInv, [Next]_vars, NEW q \in Requests, req[q].pc = "timedOut"
             PROVE  req'[q].pc = "timedOut"
    BY DEF TimedOut
<1> USE DEF TInv, TypeOK, Waiting, Queued
<1>1. ASSUME NEW r \in Requests, NEW s \in Sessions, NEW d \in Sessions, Migrate(r, s, d)
      PROVE  req'[q].pc = "timedOut"
    BY <1>1 DEF Migrate
<1>2. ASSUME NEW r \in Requests, MigrateTimeout(r) \/ Finish(r) PROVE req'[q].pc = "timedOut"
    BY <1>2 DEF MigrateTimeout, Finish, MigrateAccepted, MigrateBack, MigrateNeither, Answer
<1>3. ASSUME NEW s \in Sessions, LtStep(s) \/ OnRemoved(s) \/ OnAdded(s) \/ OnAddFailed(s) \/ LoadRow(s)
                                   \/ UserAdd(s) \/ UserRemove(s) \/ LoadById(s)
      PROVE  req'[q].pc = "timedOut"
    BY <1>3 DEF LtStep, OnRemoved, OnAdded, OnAddFailed, LoadRow, UserAdd, UserRemove, LoadById
<1>4. ASSUME NEW s \in Sessions, Deliver(s) PROVE req'[q].pc = "timedOut"
    BY <1>4 DEF Deliver
<1>5. ASSUME NEW s \in Sessions, UnloadById(s) PROVE req'[q].pc = "timedOut"
  <2>1. PICK y, z \in BOOLEAN : req'[q] = [req[q] EXCEPT !.sourceAlive = y, !.targetAlive = z]
    BY <1>5, Zenon DEF UnloadById
  <2>2. req[q] \in ReqType
    BY DEF ReqType
  <2> QED
    BY <2>1, <2>2 DEF ReqType
<1>6. CASE Crash
    BY <1>6 DEF Crash
<1>7. CASE UNCHANGED vars
    BY <1>7 DEF vars
<1> QED
    BY <1>1, <1>2, <1>3, <1>4, <1>5, <1>6, <1>7 DEF Next, Handlers

\* Every step keeps a row that nothing is about to delete, or is a timeout.
LEMMA NextSInv ==
    ASSUME TInv, SInv, [Next]_vars
    PROVE  SInv'
<1> USE DEF TInv, TypeOK, EntriesMatch, SInv, Waiting, Queued, Removal, InFlight
<1>0. TimedOut => TimedOut'
    BY AnswersStay
<1>1. ASSUME NEW r \in Requests, NEW s \in Sessions, NEW d \in Sessions, Migrate(r, s, d) PROVE SInv'
  <2>1. row'[d] /\ op'[d] \notin Removal
    BY <1>1 DEF Migrate, MoveParams, Contains
  <2>2. SourceLeft'
    BY <1>1 DEF Migrate, SourceLeft
  <2> QED
    BY <2>1, <2>2 DEF SafeRow
<1>2. ASSUME NEW r \in Requests, MigrateAccepted(r) PROVE SInv'
  <2>1. SafeRow'
    BY <1>2, <1>0, KeepsSafeRow DEF MigrateAccepted, TargetAccepts, Contains, Add, histVars
  <2>2. SourceLeft'
    BY <1>2 DEF MigrateAccepted, Add, Answer, SourceLeft
  <2> QED
    BY <2>1, <2>2
<1>3. ASSUME NEW r \in Requests, MigrateBack(r) PROVE SInv'
  <2>1. req[r].source \in Sessions /\ tracked[req[r].source] # "Current"
    BY <1>3 DEF MigrateBack, SourceLeft
  <2>2. row'[req[r].source]
    BY <1>3, <2>1 DEF MigrateBack, RowBack, MoveParams
  <2>3. op'[req[r].source] \notin Removal
    BY <1>3, <2>1 DEF MigrateBack, Add
  <2>4. SourceLeft'
    BY <1>3 DEF MigrateBack, Add, Answer, SourceLeft
  <2> QED
    BY <2>1, <2>2, <2>3, <2>4 DEF SafeRow
<1>4. ASSUME NEW r \in Requests, MigrateNeither(r) PROVE SInv'
    BY <1>4, <1>0 DEF MigrateNeither, Answer, sessionVars, histVars, SafeRow, SourceLeft
<1>5. ASSUME NEW s \in Sessions, LtStep(s) PROVE SInv'
    BY <1>5, <1>0 DEF LtStep, histVars, SafeRow, SourceLeft
<1>6. ASSUME NEW s \in Sessions, OnRemoved(s) PROVE SInv'
  <2>1. SafeRow'
    BY <1>6, <1>0, KeepsSafeRow DEF OnRemoved, histVars
  <2>2. SourceLeft'
    BY <1>6 DEF OnRemoved, SourceLeft
  <2> QED
    BY <2>1, <2>2
<1>7. ASSUME NEW s \in Sessions, OnAdded(s) PROVE SInv'
  <2>1. SafeRow'
    BY <1>7, <1>0, KeepsSafeRow DEF OnAdded, histVars
  <2>2. SourceLeft'
    BY <1>7 DEF OnAdded, NoneQueued, SourceLeft
  <2> QED
    BY <2>1, <2>2
<1>8. ASSUME NEW s \in Sessions, OnAddFailed(s) PROVE SInv'
    BY <1>8, <1>0 DEF OnAddFailed, histVars, SafeRow, SourceLeft
<1>9. ASSUME NEW s \in Sessions, LoadRow(s) PROVE SInv'
  <2>1. SafeRow'
    BY <1>9, <1>0, KeepsSafeRow DEF LoadRow, Add, Contains, histVars
  <2>2. SourceLeft'
    BY <1>9 DEF LoadRow, Add, Contains, SourceLeft
  <2> QED
    BY <2>1, <2>2
<1>10. ASSUME NEW s \in Sessions, UserAdd(s) PROVE SInv'
    BY <1>10, <1>0 DEF UserAdd, Add, Contains, SafeRow, SourceLeft
<1>11. ASSUME NEW s \in Sessions, UserRemove(s) PROVE SInv'
    BY <1>11, <1>0 DEF UserRemove, SafeRow, SourceLeft
<1>12. ASSUME NEW s \in Sessions, LoadById(s) PROVE SInv'
    BY <1>12, <1>0 DEF LoadById, histVars, SafeRow, SourceLeft
<1>13. ASSUME NEW s \in Sessions, UnloadById(s) PROVE SInv'
  <2>1. SafeRow'
    BY <1>13, <1>0, KeepsSafeRow DEF UnloadById, histVars
  <2>2. SourceLeft'
    <3>1. ASSUME NEW r \in Requests
          PROVE  req'[r].source = req[r].source /\ (Queued(r)' => Queued(r))
      <4>1. PICK y, z \in BOOLEAN : req'[r] = [req[r] EXCEPT !.sourceAlive = y, !.targetAlive = z]
        BY <1>13, Zenon DEF UnloadById
      <4>2. req[r] \in ReqType
        BY DEF ReqType
      <4> QED
        BY <4>1, <4>2 DEF ReqType
    <3>2. tracked' = [tracked EXCEPT ![s] = "no"] /\ \A d \in Sessions : published'[d] => d = s \/ published[d]
        BY <1>13 DEF UnloadById
    <3> QED
        BY <3>1, <3>2 DEF SourceLeft
  <2> QED
    BY <2>1, <2>2
<1>14. CASE Crash
    BY <1>14, <1>0 DEF Crash, histVars, SafeRow, SourceLeft
<1>15. CASE UNCHANGED vars
    BY <1>15, <1>0 DEF vars, sessionVars, histVars, SafeRow, SourceLeft
<1>16. ASSUME NEW r \in Requests, MigrateTimeout(r) PROVE SInv'
  <2>1. TimedOut'
    BY <1>16 DEF MigrateTimeout, Answer, TimedOut
  <2>2. SourceLeft'
    BY <1>16 DEF MigrateTimeout, Answer, SourceLeft, sessionVars
  <2> QED
    BY <2>1, <2>2 DEF SafeRow
<1>17. ASSUME NEW s \in Sessions, Deliver(s) PROVE SInv'
  <2>1. SafeRow'
    BY <1>17, <1>0 DEF Deliver, histVars, SafeRow
  <2>2. SourceLeft'
    BY <1>17 DEF Deliver, SourceLeft
  <2> QED
    BY <2>1, <2>2
<1> QED
    BY <1>1, <1>2, <1>3, <1>4, <1>5, <1>6, <1>7, <1>8, <1>9, <1>10, <1>11, <1>12, <1>13, <1>14, <1>15, <1>16, <1>17
    DEF Next, Finish, Handlers

\* Until a wait for a removal times out or a user removes it, the torrent is stored in
\* some session at every point: for any number of sessions, concurrent migrations and
\* adds, with sessions that are unloaded, reloaded or still loading, and crashes.
THEOREM StaysStored == Spec => []StoredSomewhere
<1>1. Spec => [](TInv /\ SInv)
  <2>1. Init => TInv /\ SInv
    BY InitTInv, InitSInv
  <2>2. TInv /\ SInv /\ [Next]_vars => (TInv /\ SInv)'
    BY NextTInv, NextSInv
  <2> QED
    BY <2>1, <2>2, PTL DEF Spec
<1>2. SInv => StoredSomewhere
    BY DEF SInv, SafeRow, StoredSomewhere, StoredAtEveryPoint
<1> QED
    BY <1>1, <1>2, PTL

-----------------------------------------------------------------------------
(* A torrent that runs is stored where it runs                                *)

\* UnloadById ends the weak references to the session and leaves the rest of the requests.
LEMMA UnloadRequests ==
    ASSUME TInv, NEW s \in Sessions, UnloadById(s), NEW r \in Requests
    PROVE  /\ req'[r].pc = req[r].pc /\ req'[r].source = req[r].source /\ req'[r].target = req[r].target
           /\ ~req'[r].targetAlive => ~req[r].targetAlive \/ req[r].target = s
<1>1. req[r] \in ReqType
  BY DEF TInv, TypeOK, ReqType
<1>2. PICK y, z \in BOOLEAN :
        /\ req'[r] = [req[r] EXCEPT !.sourceAlive = y, !.targetAlive = z]
        /\ ~z => ~req[r].targetAlive \/ req[r].target = s
  BY Zenon DEF UnloadById
<1> QED BY <1>1, <1>2 DEF ReqType

\* Deliver ends waits and leaves the rest of the requests.
LEMMA DeliverRequests ==
    ASSUME TInv, NEW s \in Sessions, Deliver(s), NEW r \in Requests
    PROVE  /\ req'[r].pc = req[r].pc /\ req'[r].source = req[r].source /\ req'[r].target = req[r].target
           /\ req'[r].targetAlive = req[r].targetAlive
<1>1. req[r] \in ReqType
  BY DEF TInv, TypeOK, ReqType
<1>2. PICK y \in BOOLEAN : req'[r] = [req[r] EXCEPT !.removed = y]
  BY Zenon DEF Deliver
<1> QED BY <1>1, <1>2 DEF ReqType

\* A target that was unloaded during the wait is not loaded again before the wait is over, without
\* the race "reload".
DeadUnloaded == \A r \in Requests : Waiting(r) /\ ~req[r].targetAlive => req[r].target \notin loaded

\* What an entry that was read from a row, or that runs, relies on.
EntryStored ==
    TimedOut \/ \A s \in Sessions :
        tracked[s] = "Loading" \/ (tracked[s] = "Current" /\ op[s] = "none") => row[s]

\* The targets that are gone stay away.
LEMMA NextDeadUnloaded ==
    ASSUME "reload" \notin Races, TInv, DeadUnloaded, [Next]_vars
    PROVE  DeadUnloaded'
<1> USE DEF TInv, TypeOK, DeadUnloaded, Waiting, Queued
<1>1. ASSUME NEW r \in Requests, NEW s \in Sessions, NEW d \in Sessions, Migrate(r, s, d) PROVE DeadUnloaded'
  BY <1>1 DEF Migrate
<1>2. ASSUME NEW r \in Requests, MigrateTimeout(r) PROVE DeadUnloaded'
  BY <1>2 DEF MigrateTimeout, Answer, sessionVars
<1>3. ASSUME NEW r \in Requests, Finish(r) PROVE DeadUnloaded'
  BY <1>3 DEF Finish, MigrateAccepted, MigrateBack, MigrateNeither, Answer, sessionVars
<1>4. ASSUME NEW s \in Sessions, LtStep(s) \/ OnRemoved(s) \/ OnAdded(s) \/ OnAddFailed(s) \/ LoadRow(s)
                                   \/ UserAdd(s) \/ UserRemove(s)
      PROVE  DeadUnloaded'
  BY <1>4 DEF LtStep, OnRemoved, OnAdded, OnAddFailed, LoadRow, UserAdd, UserRemove
<1>5. ASSUME NEW s \in Sessions, Deliver(s) PROVE DeadUnloaded'
  BY <1>5, DeliverRequests DEF Deliver
<1>6. ASSUME NEW s \in Sessions, LoadById(s) PROVE DeadUnloaded'
  BY <1>6 DEF LoadById
<1>7. ASSUME NEW s \in Sessions, UnloadById(s) PROVE DeadUnloaded'
  <2>1. loaded' = loaded \ {s}
    BY <1>7 DEF UnloadById
  <2> QED BY <1>7, <2>1, UnloadRequests
<1>8. CASE Crash
  BY <1>8 DEF Crash
<1>9. CASE UNCHANGED vars
  BY <1>9 DEF vars, sessionVars
<1> QED BY <1>1, <1>2, <1>3, <1>4, <1>5, <1>6, <1>7, <1>8, <1>9 DEF Next, Handlers

\* No step takes the row of a session whose entry relies on it.
LEMMA NextEntryStored ==
    ASSUME TInv, DeadUnloaded, EntryStored, [Next]_vars
    PROVE  EntryStored'
<1> USE DEF TInv, TypeOK, EntriesMatch, DeadUnloaded, Waiting, Queued, Removal, InFlight, States
<1>0. SUFFICES ASSUME ~TimedOut', NEW x \in Sessions,
                      (tracked[x] = "Loading" \/ (tracked[x] = "Current" /\ op[x] = "none"))'
               PROVE  row'[x]
  BY DEF EntryStored
<1>1. \A s \in Sessions : tracked[s] = "Loading" \/ (tracked[s] = "Current" /\ op[s] = "none") => row[s]
  BY <1>0, AnswersStay DEF EntryStored
<1>2. ASSUME NEW r \in Requests, NEW s \in Sessions, NEW d \in Sessions, Migrate(r, s, d) PROVE row'[x]
  BY <1>0, <1>1, <1>2 DEF Migrate, MoveParams
<1>3. ASSUME NEW r \in Requests, MigrateTimeout(r) PROVE FALSE
  BY <1>0, <1>3 DEF MigrateTimeout, Answer, TimedOut
<1>4. ASSUME NEW r \in Requests, MigrateAccepted(r) PROVE row'[x]
  BY <1>0, <1>1, <1>4 DEF MigrateAccepted, Add
<1>5. ASSUME NEW r \in Requests, MigrateBack(r) PROVE row'[x]
  <2>1. tracked[req[r].target] = "no" \/ row' = MoveParams(req[r].source, req[r].source)
    BY <1>5 DEF MigrateBack, RowBack, Contains, TargetAccepts
  <2>2. x = req[r].source \/ (row[x] /\ x # req[r].target) \/ (row[x] /\ row' = MoveParams(req[r].source, req[r].source))
    BY <1>0, <1>1, <1>5, <2>1 DEF MigrateBack, Add
  <2> QED BY <1>5, <2>2 DEF MigrateBack, RowBack, MoveParams
<1>6. ASSUME NEW r \in Requests, MigrateNeither(r) PROVE row'[x]
  BY <1>0, <1>1, <1>6 DEF MigrateNeither, sessionVars
<1>7. ASSUME NEW s \in Sessions, LtStep(s) \/ OnAddFailed(s) \/ UserRemove(s) PROVE row'[x]
  BY <1>0, <1>1, <1>7 DEF LtStep, OnAddFailed, UserRemove
<1>8. ASSUME NEW s \in Sessions, OnRemoved(s) PROVE row'[x]
  BY <1>0, <1>1, <1>8 DEF OnRemoved
<1>9. ASSUME NEW s \in Sessions, OnAdded(s) PROVE row'[x]
  BY <1>0, <1>1, <1>9 DEF OnAdded
<1>10. ASSUME NEW s \in Sessions, LoadRow(s) \/ UserAdd(s) PROVE row'[x]
  BY <1>0, <1>1, <1>10 DEF LoadRow, UserAdd, Add, Contains
<1>11. ASSUME NEW s \in Sessions, Deliver(s) \/ LoadById(s) PROVE row'[x]
  BY <1>0, <1>1, <1>11 DEF Deliver, LoadById
<1>12. ASSUME NEW s \in Sessions, UnloadById(s) PROVE row'[x]
  <2>1. x # s /\ row'[x] = row[x] /\ tracked'[x] = tracked[x] /\ op'[x] = op[x]
    BY <1>0, <1>12 DEF UnloadById
  <2> QED BY <1>0, <1>1, <2>1
<1>13. CASE Crash
  BY <1>0, <1>13 DEF Crash
<1>14. CASE UNCHANGED vars
  BY <1>0, <1>1, <1>14 DEF vars, sessionVars
<1> QED BY <1>2, <1>3, <1>4, <1>5, <1>6, <1>7, <1>8, <1>9, <1>10, <1>11, <1>12, <1>13, <1>14 DEF Next, Finish, Handlers

\* Until a wait times out, a torrent that runs in a session is stored there, for any number of
\* sessions, concurrent migrations and adds, with crashes and targets that are still loading, as
\* long as a target that was unloaded during a wait is not loaded again before the wait is over.
THEOREM RunsWhereStored ==
    ASSUME "reload" \notin Races
    PROVE  Spec => []RunningIsStored
<1> DEFINE Inv == TInv /\ DeadUnloaded /\ EntryStored
<1>1. Init => Inv
  <2> SUFFICES ASSUME Init PROVE DeadUnloaded /\ EntryStored
    BY InitTInv
  <2>1. PICK home \in Sessions :
          /\ tracked = [s \in Sessions |-> IF s = home THEN "Current" ELSE "no"]
          /\ row = [s \in Sessions |-> s = home]
          /\ req = [r \in Requests |-> NoRequest(home)]
    BY DEF Init
  <2>2. \A r \in Requests : ~Waiting(r)
    BY <2>1 DEF Waiting, NoRequest
  <2> QED BY <2>1, <2>2 DEF DeadUnloaded, EntryStored
<1>2. Inv /\ [Next]_vars => Inv'
  BY NextTInv, NextDeadUnloaded, NextEntryStored
<1>3. Inv => RunningIsStored
  BY DEF EntryStored, RunningIsStored
<1> QED BY <1>1, <1>2, <1>3, PTL DEF Spec

-----------------------------------------------------------------------------
(* One place                                                                  *)

NoWait == \A r \in Requests : ~Waiting(r)

\* The row of a torrent that nobody migrates is where the torrent runs.
RowAtHome ==
    /\ \A s, d \in Sessions : row[s] /\ row[d] => s = d
    /\ \A s, d \in Sessions : Contains(s) /\ Contains(d) => s = d
    /\ NoWait => \A s, d \in Sessions : Contains(s) /\ row[d] => s = d

\* A migration that waits is the only one, its target has the row and not the torrent, and has no
\* load job that could read the row; only the source may still have the torrent, which it removes.
OneMigration ==
    /\ \A r, q \in Requests : Waiting(r) /\ Waiting(q) => r = q
    /\ \A r \in Requests : Waiting(r) =>
          /\ req[r].source # req[r].target
          /\ row[req[r].target] /\ ~Contains(req[r].target) /\ ~reading[req[r].target]
          /\ \A s \in Sessions : Contains(s) => s = req[r].source /\ op[s] \in Removal

OneHome == userAdds = 0 => RowAtHome /\ OneMigration

\* A migration whose wait has ended finds the torrent in no session.
LEMMA NobodyRuns ==
    ASSUME TInv, SourceLeft, OneMigration, NEW r \in Requests, Queued(r), NEW s \in Sessions
    PROVE  ~Contains(s)
<1>1. Waiting(r) /\ tracked[req[r].source] # "Current"
  BY DEF SourceLeft, Queued
<1> QED BY <1>1 DEF OneMigration, TInv, TypeOK, EntriesMatch

\* The end of the only migration leaves none.
LEMMA LastWait ==
    ASSUME TInv, OneMigration, NEW r \in Requests, Waiting(r), NEW pc \in Outcomes, Answer(r, pc)
    PROVE  NoWait'
BY DEF OneMigration, NoWait, Waiting, Answer, Outcomes, TInv, TypeOK

\* Every step keeps the torrent in one place, unless a target is loading while it waits for it.
LEMMA NextOneHome ==
    ASSUME Races \subseteq {"timeout"}, TInv, SourceLeft, OneHome, [Next]_vars
    PROVE  OneHome'
<1> USE DEF TInv, TypeOK
<1>1. userAdds' = 0 => userAdds = 0
  <2>1. ASSUME NEW r \in Requests, MigrateTimeout(r) \/ Finish(r) PROVE UNCHANGED userAdds
    BY <2>1 DEF MigrateTimeout, Finish, MigrateAccepted, MigrateBack, MigrateNeither, histVars
  <2>2. ASSUME NEW r \in Requests, NEW s \in Sessions, NEW d \in Sessions, Migrate(r, s, d) PROVE UNCHANGED userAdds
    BY <2>2 DEF Migrate, histVars
  <2>3. ASSUME NEW s \in Sessions, LtStep(s) \/ Handlers(s) \/ UserRemove(s) \/ LoadById(s) \/ UnloadById(s)
        PROVE  UNCHANGED userAdds
    BY <2>3 DEF LtStep, Handlers, OnRemoved, Deliver, OnAdded, OnAddFailed, LoadRow, UserRemove, LoadById,
                UnloadById, histVars
  <2>4. ASSUME NEW s \in Sessions, UserAdd(s) PROVE userAdds' # 0
    BY <2>4 DEF UserAdd
  <2>5. CASE Crash \/ UNCHANGED vars
    BY <2>5 DEF Crash, vars, histVars
  <2> QED BY <2>1, <2>2, <2>3, <2>4, <2>5 DEF Next
<1> SUFFICES ASSUME userAdds = 0, userAdds' = 0, RowAtHome, OneMigration
             PROVE  RowAtHome' /\ OneMigration'
  BY <1>1 DEF OneHome
<1> DEFINE Goal == RowAtHome' /\ OneMigration'
<1>3. ASSUME NoWait' PROVE OneMigration'
  BY <1>3 DEF NoWait, OneMigration
<1>4. ASSUME NEW r \in Requests, NEW s \in Sessions, NEW d \in Sessions, Migrate(r, s, d) PROVE Goal
  <2>1. /\ Contains(s) /\ op[s] = "none" /\ ~Contains(d) /\ ~reading[d] /\ s # d
        /\ UNCHANGED <<tracked, reading>>
        /\ row' = [x \in Sessions |-> x = d \/ (row[x] /\ x # s)]
        /\ op' = [op EXCEPT ![s] = "remove"]
        /\ req' = [req EXCEPT ![r] = [pc |-> "waiting", source |-> s, target |-> d, removed |-> FALSE,
                                      sourceAlive |-> TRUE, targetAlive |-> TRUE]]
    BY <1>4 DEF Migrate, MoveParams, HandleValid, Contains
  <2>2. NoWait
    BY <2>1 DEF NoWait, OneMigration, Removal
  <2>3. \A x \in Sessions : Contains(x) => x = s
    BY <2>1 DEF RowAtHome
  <2>4. \A x \in Sessions : row'[x] => x = d
    BY <2>1, <2>2 DEF RowAtHome
  <2>5. Waiting(r)' /\ req'[r].source = s /\ req'[r].target = d /\ \A q \in Requests : Waiting(q)' => q = r
    BY <2>1, <2>2 DEF Waiting, NoWait
  <2>6. row'[d] /\ op'[s] \in Removal
    BY <2>1 DEF Removal
  <2>7. RowAtHome'
    BY <2>1, <2>3, <2>4, <2>5 DEF RowAtHome, NoWait, Contains
  <2>8. OneMigration'
    BY <2>1, <2>3, <2>5, <2>6 DEF OneMigration, Contains
  <2> QED BY <2>7, <2>8
<1>5. ASSUME NEW r \in Requests, MigrateTimeout(r) PROVE Goal
  <2>1. Waiting(r) /\ NoWait'
    BY <1>5, LastWait DEF MigrateTimeout, Outcomes
  <2>2. \A x \in Sessions : row'[x] => x = req[r].source
    BY <1>5, <2>1 DEF MigrateTimeout, MoveParams, RowAtHome, OneMigration
  <2>3. \A x \in Sessions : Contains(x)' => x = req[r].source
    BY <1>5, <2>1 DEF MigrateTimeout, OneMigration, Contains, sessionVars
  <2> QED BY <1>3, <2>1, <2>2, <2>3 DEF RowAtHome
<1>6. ASSUME NEW r \in Requests, MigrateAccepted(r) PROVE Goal
  <2>1. Waiting(r) /\ Queued(r) /\ NoWait' /\ req[r].target \in Sessions
    BY <1>6, LastWait DEF MigrateAccepted, Queued, Outcomes
  <2>2. \A x \in Sessions : Contains(x)' => x = req[r].target
    BY <1>6, <2>1, NobodyRuns DEF MigrateAccepted, Add, Contains
  <2>3. \A x \in Sessions : row'[x] => x = req[r].target
    BY <1>6, <2>1 DEF MigrateAccepted, OneMigration, RowAtHome
  <2> QED BY <1>3, <2>1, <2>2, <2>3 DEF RowAtHome
<1>7. ASSUME NEW r \in Requests, MigrateBack(r) PROVE Goal
  <2>1. Waiting(r) /\ Queued(r) /\ NoWait' /\ req[r].source \in Sessions /\ req[r].target \in Sessions
    BY <1>7, LastWait DEF MigrateBack, Queued, Outcomes
  <2>2. ~Contains(req[r].source) /\ ~Contains(req[r].target)
    BY <2>1, NobodyRuns
  <2>3. \A x \in Sessions : Contains(x)' => x = req[r].source
    BY <1>7, <2>1, <2>2, NobodyRuns DEF MigrateBack, Add, Contains
  <2>4. \A x \in Sessions : row'[x] => x = req[r].source
    BY <1>7, <2>1, <2>2 DEF MigrateBack, RowBack, MoveParams, OneMigration, RowAtHome
  <2> QED BY <1>3, <2>1, <2>3, <2>4 DEF RowAtHome
<1>8. ASSUME NEW r \in Requests, MigrateNeither(r) PROVE Goal
  <2>1. Waiting(r) /\ Queued(r) /\ NoWait'
    BY <1>8, LastWait DEF MigrateNeither, Queued, Outcomes
  <2>2. \A x \in Sessions : ~Contains(x)'
    BY <1>8, <2>1, NobodyRuns DEF MigrateNeither, Contains, sessionVars
  <2>3. UNCHANGED row
    BY <1>8 DEF MigrateNeither
  <2> QED BY <1>3, <2>1, <2>2, <2>3 DEF RowAtHome
<1>9. ASSUME NEW s \in Sessions, LtStep(s) PROVE Goal
  <2>1. UNCHANGED <<tracked, reading, row, req>> /\ \A x \in Sessions : op[x] \in Removal => op'[x] \in Removal
    BY <1>9 DEF LtStep, Removal, InFlight
  <2> QED BY <2>1 DEF RowAtHome, OneMigration, NoWait, Waiting, Contains
<1>10. ASSUME NEW s \in Sessions, UserRemove(s) PROVE Goal
  <2>1. UNCHANGED <<tracked, reading, row, req>> /\ \A x \in Sessions : op[x] \in Removal => op'[x] \in Removal
    BY <1>10 DEF UserRemove, Removal, InFlight
  <2> QED BY <2>1 DEF RowAtHome, OneMigration, NoWait, Waiting, Contains
<1>11. ASSUME NEW s \in Sessions, OnRemoved(s) PROVE Goal
  <2>1. /\ UNCHANGED <<reading, req>> /\ Contains(s)
        /\ tracked' = [tracked EXCEPT ![s] = "no"] /\ row' = [row EXCEPT ![s] = FALSE]
        /\ \A x \in Sessions : x # s => op'[x] = op[x]
    BY <1>11 DEF OnRemoved, EntriesMatch, Removal, Contains
  <2> QED BY <2>1 DEF RowAtHome, OneMigration, NoWait, Waiting, Contains
<1>12. ASSUME NEW s \in Sessions, op[s] \notin Removal, Contains(s), UNCHANGED req,
              \A x \in Sessions : x # s => tracked'[x] = tracked[x] /\ row'[x] = row[x]
       PROVE  Goal
  <2>1. NoWait
    BY <1>12 DEF NoWait, OneMigration
  <2>2. \A x \in Sessions : Contains(x)' \/ row'[x] => x = s
    BY <1>12, <2>1 DEF RowAtHome, Contains
  <2>3. NoWait'
    BY <1>12, <2>1 DEF NoWait, Waiting
  <2> QED BY <1>3, <2>2, <2>3 DEF RowAtHome
<1>13. ASSUME NEW s \in Sessions, OnAdded(s) \/ OnAddFailed(s) PROVE Goal
  <2>1. op[s] \notin Removal /\ Contains(s)
    BY <1>13 DEF OnAdded, OnAddFailed, EntriesMatch, Removal, Contains
  <2> QED BY <1>12, <1>13, <2>1 DEF OnAdded, OnAddFailed
<1>14. ASSUME UNCHANGED <<tracked, row, op, req>>, \A x \in Sessions : reading'[x] => reading[x] PROVE Goal
  BY <1>14 DEF RowAtHome, OneMigration, NoWait, Waiting, Contains
<1>15. ASSUME NEW s \in Sessions, LoadRow(s) PROVE Goal
  <2>1. UNCHANGED <<row, req>> /\ reading[s] /\ \A x \in Sessions : reading'[x] => reading[x]
    BY <1>15 DEF LoadRow
  <2>2. CASE row[s] /\ ~Contains(s)
    <3>1. tracked' = [tracked EXCEPT ![s] = "Loading"]
      BY <1>15, <2>2 DEF LoadRow, Add
    <3>2. NoWait
      BY <2>1, <2>2 DEF NoWait, OneMigration, RowAtHome
    <3>3. \A x \in Sessions : Contains(x)' \/ row'[x] => x = s
      BY <2>1, <2>2, <3>1, <3>2 DEF RowAtHome, Contains
    <3>4. NoWait'
      BY <2>1, <3>2 DEF NoWait, Waiting
    <3> QED BY <1>3, <3>3, <3>4 DEF RowAtHome
  <2>3. CASE ~(row[s] /\ ~Contains(s))
    BY <1>14, <1>15, <2>1, <2>3 DEF LoadRow
  <2> QED BY <2>2, <2>3
<1>16. ASSUME NEW s \in Sessions, Deliver(s) PROVE Goal
  <2>1. UNCHANGED <<tracked, row, op, reading>>
    BY <1>16 DEF Deliver
  <2>2. \A r \in Requests : /\ req'[r].source = req[r].source /\ req'[r].target = req[r].target
                            /\ Waiting(r)' <=> Waiting(r)
    BY <1>16, DeliverRequests DEF Waiting
  <2> QED BY <2>1, <2>2 DEF RowAtHome, OneMigration, NoWait, Contains
<1>17. ASSUME NEW s \in Sessions, LoadById(s) PROVE Goal
  <2>1. UNCHANGED <<tracked, row, op, req>> /\ reading' = [reading EXCEPT ![s] = TRUE]
        /\ \A r \in Requests : Waiting(r) => req[r].target # s
    BY <1>17 DEF LoadById
  <2> QED BY <2>1 DEF RowAtHome, OneMigration, NoWait, Waiting, Contains
<1>18. ASSUME NEW s \in Sessions, UnloadById(s) PROVE Goal
  <2>1. /\ tracked' = [tracked EXCEPT ![s] = "no"] /\ reading' = [reading EXCEPT ![s] = FALSE]
        /\ \A x \in Sessions : x # s => row'[x] = row[x] /\ op'[x] = op[x]
    BY <1>18 DEF UnloadById
  <2>2. row'[s] => row[s] \/ (tracked[s] = "Adding" /\ op[s] \notin Removal)
    BY <1>18, Zenon DEF UnloadById
  <2>3. row[s] /\ op[s] \notin Removal => row'[s]
    BY <1>18, Zenon DEF UnloadById
  <2>4. \A r \in Requests : /\ req'[r].source = req[r].source /\ req'[r].target = req[r].target
                            /\ Waiting(r)' <=> Waiting(r)
    BY <1>18, UnloadRequests DEF Waiting
  <2>5. CASE NoWait
    <3>1. \A x \in Sessions : row'[x] => row[x] \/ (Contains(s) /\ x = s)
      BY <2>1, <2>2 DEF Contains
    <3>2. \A x \in Sessions : Contains(x)' => Contains(x)
      BY <2>1 DEF Contains
    <3>3. NoWait'
      BY <2>4, <2>5 DEF NoWait
    <3>4. RowAtHome'
      BY <2>5, <3>1, <3>2 DEF RowAtHome
    <3> QED BY <1>3, <3>3, <3>4
  <2>6. CASE ~NoWait
    <3>1. PICK r \in Requests : Waiting(r)
      BY <2>6 DEF NoWait
    <3>2. row'[s] => row[s]
      BY <2>2, <3>1 DEF OneMigration, Contains
    <3>3. \A x \in Sessions : row'[x] => row[x]
      BY <2>1, <3>2
    <3>4. req[r].target \in Sessions /\ op[req[r].target] \notin Removal
      BY <3>1 DEF OneMigration, Contains, EntriesMatch
    <3>5. row'[req[r].target]
      BY <2>1, <2>3, <3>1, <3>4 DEF OneMigration
    <3>6. RowAtHome'
      BY <2>1, <2>4, <3>1, <3>3 DEF RowAtHome, NoWait, Contains
    <3>7. OneMigration'
      BY <2>1, <2>4, <3>1, <3>5 DEF OneMigration, Contains
    <3> QED BY <3>6, <3>7
  <2> QED BY <2>5, <2>6
<1>19. CASE Crash
  <2>1. UNCHANGED row /\ NoWait' /\ \A x \in Sessions : ~Contains(x)'
    BY <1>19 DEF Crash, NoWait, Waiting, Contains
  <2> QED BY <1>3, <2>1 DEF RowAtHome
<1>20. CASE UNCHANGED vars
  BY <1>14, <1>20 DEF vars, sessionVars
<1>21. ASSUME NEW s \in Sessions, UserAdd(s) PROVE FALSE
  BY <1>21 DEF UserAdd
<1> QED
  BY <1>4, <1>5, <1>6, <1>7, <1>8, <1>9, <1>10, <1>11, <1>13, <1>15, <1>16, <1>17, <1>18, <1>19, <1>20, <1>21
  DEF Next, Finish, Handlers

\* "the torrent is stored in exactly one of the sessions": for any number of sessions and of
\* concurrent migrations, crashes, unloads and waits that time out, the torrent is neither stored
\* nor run in two sessions unless a user adds it to a second one.  The target must have read its
\* rows before the migration and must not be loaded again during it.
THEOREM StaysInOnePlace ==
    ASSUME Races \subseteq {"timeout"}
    PROVE  Spec => []OnePlace
<1> DEFINE Inv == TInv /\ SInv /\ OneHome
<1>1. Init => Inv
  <2> SUFFICES ASSUME Init PROVE OneHome
    BY InitTInv, InitSInv
  <2>1. PICK home \in Sessions :
          /\ tracked = [s \in Sessions |-> IF s = home THEN "Current" ELSE "no"]
          /\ row = [s \in Sessions |-> s = home]
          /\ req = [r \in Requests |-> NoRequest(home)]
    BY DEF Init
  <2>2. NoWait /\ \A s \in Sessions : row[s] \/ Contains(s) => s = home
    BY <2>1 DEF NoWait, Waiting, NoRequest, Contains
  <2> QED BY <2>2 DEF OneHome, RowAtHome, OneMigration, NoWait
<1>2. Inv /\ [Next]_vars => Inv'
  BY NextTInv, NextSInv, NextOneHome DEF SInv
<1>3. Inv => OnePlace
  BY DEF TInv, OneHome, RowAtHome, OnePlace, StoredOnce, RunsOnce
<1> QED BY <1>1, <1>2, <1>3, PTL DEF Spec

=============================================================================
