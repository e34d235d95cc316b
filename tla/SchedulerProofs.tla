-------------------------- MODULE SchedulerProofs --------------------------
(***************************************************************************)
(* Proofs about Scheduler for any number of jobs of each kind: no trigger   *)
(* is lost, the scheduled flag is never stale, periodic jobs stay in the    *)
(* cycle, and nothing starts after Stop.                                    *)
(***************************************************************************)
EXTENDS LoadTorrents, TLAPS

\* Only registered jobs are triggered, scheduled or run, and manual jobs are never
\* unregistered.
ManualIsRegistered ==
    \A j \in Manual : triggered[j] \/ scheduled[j] \/ running[j] => j \in entries

\* The inductive invariant.
SchedulerInv ==
    /\ TypeOK
    /\ ManualIsRegistered
    /\ NoLostTrigger
    /\ ScheduledHasWait
    /\ PeriodicGoesOn

\* Appending a handler to the io queue keeps the ones that are there.
LEMMA AppendReady ==
    ASSUME ready \in Seq(Jobs), NEW j \in Jobs, ready' = Append(ready, j)
    PROVE  /\ ready' \in Seq(Jobs)
           /\ InReady(j)'
           /\ \A k \in Jobs : InReady(k) => InReady(k)'
<1>1. /\ Len(ready') = Len(ready) + 1
      /\ \A i \in 1 .. Len(ready) : ready'[i] = ready[i]
      /\ ready'[Len(ready) + 1] = j
      /\ ready' \in Seq(Jobs)
  OBVIOUS
<1>2. /\ DOMAIN ready = 1 .. Len(ready)
      /\ DOMAIN ready' = 1 .. Len(ready')
      /\ Len(ready) \in Nat
  BY <1>1
<1>3. QED
  BY <1>1, <1>2 DEF InReady

\* Taking the head of the io queue keeps the handlers of every other job.
LEMMA TailReady ==
    ASSUME ready \in Seq(Jobs), ready # <<>>, ready' = Tail(ready)
    PROVE  /\ Head(ready) \in Jobs
           /\ ready' \in Seq(Jobs)
           /\ \A k \in Jobs : InReady(k) /\ k # Head(ready) => InReady(k)'
<1>1. /\ Len(ready) \in Nat /\ Len(ready) > 0
      /\ Len(ready') = Len(ready) - 1
      /\ \A i \in 1 .. Len(ready') : ready'[i] = ready[i + 1]
      /\ Head(ready) = ready[1]
      /\ ready' \in Seq(Jobs)
      /\ Head(ready) \in Jobs
  OBVIOUS
<1>2. /\ DOMAIN ready = 1 .. Len(ready)
      /\ DOMAIN ready' = 1 .. Len(ready')
  BY <1>1
<1>3. ASSUME NEW k \in Jobs, NEW i \in DOMAIN ready, ready[i] = k, k # Head(ready)
      PROVE  InReady(k)'
  <2>1. i - 1 \in 1 .. Len(ready') /\ (i - 1) + 1 = i
    BY <1>1, <1>2, <1>3
  <2>2. ready'[i - 1] = k
    BY <1>1, <1>3, <2>1
  <2>3. QED
    BY <1>2, <2>1, <2>2 DEF InReady
<1>4. QED
  BY <1>1, <1>3 DEF InReady

\* A step that leaves the io queue alone leaves its handlers.
LEMMA SameReady ==
    ASSUME ready' = ready
    PROVE  \A k \in Jobs : InReady(k)' <=> InReady(k)
BY DEF InReady

\* Every step of the scheduler, of its timers and of the io thread preserves the
\* invariant.
LEMMA SchedulerStep ==
    ASSUME SchedulerInv, [Next]_vars
    PROVE  SchedulerInv'
<1> USE KindsDisjoint, BoundsAssumption
    DEF SchedulerInv, TypeOK, ManualIsRegistered, NoLostTrigger,
        ScheduledHasWait, PeriodicGoesOn, Jobs
<1>1. ASSUME NEW j \in Jobs, StartJob(j)
      PROVE  SchedulerInv'
  <2>1. \A k \in Jobs : InReady(k)' <=> InReady(k)
    BY <1>1, SameReady DEF StartJob
  <2>2. TypeOK'
    BY <1>1, <2>1 DEF StartJob, Schedule
  <2>3. ManualIsRegistered'
    BY <1>1 DEF StartJob, Schedule
  <2>4. NoLostTrigger'
    BY <1>1 DEF StartJob, Schedule
  <2>5. ScheduledHasWait'
    BY <1>1, <2>1 DEF StartJob, Schedule
  <2>6. PeriodicGoesOn'
    BY <1>1 DEF StartJob, Schedule
  <2>7. QED
    BY <2>2, <2>3, <2>4, <2>5, <2>6
<1>2. ASSUME NEW j \in Jobs, Register(j)
      PROVE  SchedulerInv'
  <2>1. \A k \in Jobs : InReady(k)' <=> InReady(k)
    BY <1>2, SameReady DEF Register
  <2>2. TypeOK'
    BY <1>2, <2>1 DEF Register
  <2>3. ManualIsRegistered'
    BY <1>2 DEF Register
  <2>4. NoLostTrigger'
    BY <1>2 DEF Register
  <2>5. ScheduledHasWait'
    BY <1>2, <2>1 DEF Register
  <2>6. PeriodicGoesOn'
    BY <1>2 DEF Register
  <2>7. QED
    BY <2>2, <2>3, <2>4, <2>5, <2>6
<1>3. ASSUME NEW j \in Jobs, SetInterval(j)
      PROVE  SchedulerInv'
  <2>1. \A k \in Jobs : InReady(k)' <=> InReady(k)
    BY <1>3, SameReady DEF SetInterval
  <2>2. TypeOK'
    BY <1>3, <2>1 DEF SetInterval, Schedule
  <2>3. ManualIsRegistered'
    BY <1>3 DEF SetInterval, Schedule
  <2>4. NoLostTrigger'
    BY <1>3 DEF SetInterval, Schedule
  <2>5. ScheduledHasWait'
    BY <1>3, <2>1 DEF SetInterval, Schedule
  <2>6. PeriodicGoesOn'
    BY <1>3 DEF SetInterval, Schedule
  <2>7. QED
    BY <2>2, <2>3, <2>4, <2>5, <2>6
<1>4. ASSUME NEW j \in Jobs, Trigger(j)
      PROVE  SchedulerInv'
  <2>1. \A k \in Jobs : InReady(k)' <=> InReady(k)
    BY <1>4, SameReady DEF Trigger
  <2>2. TypeOK'
    BY <1>4, <2>1 DEF Trigger, Schedule
  <2>3. ManualIsRegistered'
    BY <1>4 DEF Trigger, Schedule
  <2>4. NoLostTrigger'
    BY <1>4 DEF Trigger, Schedule
  <2>5. ScheduledHasWait'
    BY <1>4, <2>1 DEF Trigger, Schedule
  <2>6. PeriodicGoesOn'
    BY <1>4 DEF Trigger, Schedule
  <2>7. QED
    BY <2>2, <2>3, <2>4, <2>5, <2>6
<1>5. ASSUME NEW j \in Jobs, Expire(j)
      PROVE  SchedulerInv'
  <2>1. /\ ready' \in Seq(Jobs)
        /\ InReady(j)'
        /\ \A k \in Jobs : InReady(k) => InReady(k)'
    BY <1>5, AppendReady DEF Expire
  <2>2. TypeOK'
    BY <1>5, <2>1 DEF Expire
  <2>3. ManualIsRegistered'
    BY <1>5 DEF Expire
  <2>4. NoLostTrigger'
    BY <1>5 DEF Expire
  <2>5. ScheduledHasWait'
    BY <1>5, <2>1 DEF Expire
  <2>6. PeriodicGoesOn'
    BY <1>5 DEF Expire
  <2>7. QED
    BY <2>2, <2>3, <2>4, <2>5, <2>6
<1>6. ASSUME NEW j \in Jobs, NEW again \in BOOLEAN, Returned(j, again)
      PROVE  SchedulerInv'
  <2>1. \A k \in Jobs : InReady(k)' <=> InReady(k)
    BY <1>6, SameReady DEF Returned
  <2>2. TypeOK'
    BY <1>6, <2>1 DEF Returned, Schedule
  <2>3. ManualIsRegistered'
    BY <1>6 DEF Returned, Schedule
  <2>4. NoLostTrigger'
    BY <1>6 DEF Returned, Schedule
  <2>5. ScheduledHasWait'
    BY <1>6, <2>1 DEF Returned, Schedule
  <2>6. PeriodicGoesOn'
    BY <1>6 DEF Returned, Schedule
  <2>7. QED
    BY <2>2, <2>3, <2>4, <2>5, <2>6
<1>7. CASE Suspend
  <2>1. \A k \in Jobs : InReady(k)' <=> InReady(k)
    BY <1>7, SameReady DEF Suspend
  <2>2. TypeOK'
    BY <1>7, <2>1 DEF Suspend
  <2>3. ManualIsRegistered'
    BY <1>7 DEF Suspend
  <2>4. NoLostTrigger'
    BY <1>7 DEF Suspend
  <2>5. ScheduledHasWait'
    BY <1>7, <2>1 DEF Suspend
  <2>6. PeriodicGoesOn'
    BY <1>7 DEF Suspend
  <2>7. QED
    BY <2>2, <2>3, <2>4, <2>5, <2>6
<1>8. CASE Resume
  <2>1. \A k \in Jobs : InReady(k)' <=> InReady(k)
    BY <1>8, SameReady DEF Resume
  <2>2. TypeOK'
    BY <1>8, <2>1 DEF Resume, Schedule, Held
  <2>3. ManualIsRegistered'
    BY <1>8 DEF Resume, Schedule, Held
  <2>4. NoLostTrigger'
    BY <1>8 DEF Resume, Schedule, Held
  <2>5. ScheduledHasWait'
    BY <1>8, <2>1 DEF Resume, Schedule, Held
  <2>6. PeriodicGoesOn'
    BY <1>8 DEF Resume, Schedule, Held
  <2>7. QED
    BY <2>2, <2>3, <2>4, <2>5, <2>6
<1>9. CASE Stop
  <2>1. \A k \in Jobs : InReady(k)' <=> InReady(k)
    BY <1>9, SameReady DEF Stop
  <2>2. TypeOK'
    BY <1>9, <2>1 DEF Stop
  <2>3. ManualIsRegistered'
    BY <1>9 DEF Stop
  <2>4. NoLostTrigger'
    BY <1>9 DEF Stop
  <2>5. ScheduledHasWait'
    BY <1>9, <2>1 DEF Stop
  <2>6. PeriodicGoesOn'
    BY <1>9 DEF Stop
  <2>7. QED
    BY <2>2, <2>3, <2>4, <2>5, <2>6
<1>10. CASE Handler
  <2>1. /\ Head(ready) \in Jobs
        /\ ready' \in Seq(Jobs)
        /\ \A k \in Jobs : InReady(k) /\ k # Head(ready) => InReady(k)'
    BY <1>10, TailReady DEF Handler
  <2>2. TypeOK'
    BY <1>10, <2>1 DEF Handler
  <2>3. ManualIsRegistered'
    BY <1>10 DEF Handler
  <2>4. NoLostTrigger'
    BY <1>10 DEF Handler
  <2>5. ScheduledHasWait'
    BY <1>10, <2>1 DEF Handler
  <2>6. PeriodicGoesOn'
    BY <1>10 DEF Handler
  <2>7. QED
    BY <2>2, <2>3, <2>4, <2>5, <2>6
<1>11. CASE UNCHANGED vars
  BY <1>11, SameReady DEF vars
<1> HIDE DEF SchedulerInv
<1>12. QED
  BY <1>1, <1>2, <1>3, <1>4, <1>5, <1>6, <1>7, <1>8, <1>9, <1>10, <1>11 DEF Next

\* The scheduler starts with nothing.
LEMMA SchedulerInitInv ==
    ASSUME Init
    PROVE  SchedulerInv
<1>1. TypeOK
  <2>1. ready \in Seq(Jobs) /\ suspends \in Nat /\ entries \in SUBSET Jobs
    BY DEF Init
  <2>2. /\ scheduled \in [Jobs -> BOOLEAN] /\ running \in [Jobs -> BOOLEAN]
        /\ triggered \in [Jobs -> BOOLEAN] /\ armed \in [Jobs -> BOOLEAN]
        /\ stopped \in BOOLEAN
    BY DEF Init
  <2> QED BY <2>1, <2>2 DEF TypeOK
<1>2. ManualIsRegistered /\ NoLostTrigger
  BY DEF Init, ManualIsRegistered, NoLostTrigger, Jobs
<1>3. ScheduledHasWait /\ PeriodicGoesOn
  BY DEF Init, ScheduledHasWait, PeriodicGoesOn
<1> QED BY <1>1, <1>2, <1>3 DEF SchedulerInv

\* The invariant holds in every behaviour.
THEOREM SchedulerInvariant == Spec => []SchedulerInv
<1>1. Init => SchedulerInv
  BY SchedulerInitInv
<1>2. SchedulerInv /\ [Next]_vars => SchedulerInv'
  BY SchedulerStep
<1>3. QED
  BY <1>1, <1>2, PTL DEF Spec

\* A trigger is never lost, for any set of jobs and any interleaving of triggers
\* with runs, suspends and resumes.
THEOREM TriggersAreKept == Spec => []NoLostTrigger
BY SchedulerInvariant, PTL DEF SchedulerInv

\* The scheduled flag is never stale.
THEOREM ScheduledIsReal == Spec => []ScheduledHasWait
BY SchedulerInvariant, PTL DEF SchedulerInv

\* A periodic or running-to-completion job stays scheduled or running.
THEOREM PeriodicStays == Spec => []PeriodicGoesOn
BY SchedulerInvariant, PTL DEF SchedulerInv

\* Handlers queued before Stop start no job after it.
THEOREM StopIsFinal == Spec => NoRunAfterStop
<1>1. TypeOK /\ [Next]_vars => [stopped => \A j \in Jobs : running'[j] => running[j]]_vars
  <2> SUFFICES ASSUME TypeOK, [Next]_vars, stopped, NEW j \in Jobs, running'[j]
               PROVE  running[j] \/ UNCHANGED vars
    OBVIOUS
  <2>1. CASE Handler
    BY <2>1 DEF Handler
  <2>2. ASSUME NEW k \in Jobs, NEW again \in BOOLEAN, Returned(k, again)
        PROVE  running[j]
    BY <2>2 DEF Returned, TypeOK
  <2>3. QED
    BY <2>1, <2>2 DEF Next, StartJob, Register, SetInterval, Trigger, Expire, Suspend, Resume, Stop
<1>2. SchedulerInv => TypeOK
  BY DEF SchedulerInv
<1>3. QED
  BY <1>1, <1>2, SchedulerInvariant, PTL DEF Spec, NoRunAfterStop
-----------------------------------------------------------------------------
(* The load job                                                               *)

\* The reconcile job is never unregistered, only registered jobs run, and nothing runs once the
\* scheduler is stopped: Session::Stop comes between two handlers.
Booted ==
    /\ entries # {} => ReconcileJob \in entries
    /\ \A j \in Jobs : scheduled[j] \/ running[j] \/ triggered[j] => entries # {}
    /\ \A j \in Jobs : running[j] => j \in entries /\ ~stopped

\* Until session.loaded the reconcile job is suspended and has no wait that could start it.
HeldBack ==
    loadedEvents = 0 =>
        /\ entries # {} => suspends > 0
        /\ ~scheduled[ReconcileJob] /\ ~armed[ReconcileJob] /\ ~running[ReconcileJob] /\ ~InReady(ReconcileJob)

\* What is loaded and what is left are rows of the session; the second pass begins when the first is over.
RowsLeft ==
    /\ left \in [{"queued", "unqueued"} -> Nat] /\ m_loaded \in Nat
    /\ m_loaded + left["queued"] + left["unqueued"] <= QueuedRows + UnqueuedRows
    /\ unqueued \in BOOLEAN /\ (unqueued => left["queued"] = 0)

\* The load job does not run again.
Retired == ~running[LoadJob] /\ entries # {} /\ (stopped \/ LoadJob \notin entries)

\* The load job has seen the end of the rows or has given up.
AtEnd == running[LoadJob] /\ step \in {"finish", "resume", "done"}

Phases ==
    /\ step \in {"count", "alerts", "next", "finish", "resume", "done"}
    /\ m_count \in {-1, QueuedRows + UnqueuedRows}
    /\ m_errors \in 0 .. MaxChunkErrors + 1 /\ m_failed \in BOOLEAN /\ m_callback \in BOOLEAN
    /\ ~running[LoadJob] => step = "count"
    /\ loadedEvents \in {0, 1} /\ callbacks \in {0, 1} /\ (m_callback => callbacks = 0)
    /\ loadedEvents > 0 => (running[LoadJob] /\ step = "done") \/ Retired
    /\ m_errors > MaxChunkErrors \/ m_failed => AtEnd \/ Retired
    /\ AtEnd \/ loadedEvents > 0 => m_failed \/ (left["queued"] = 0 /\ left["unqueued"] = 0)

LoadInv == SchedulerInv /\ Booted /\ HeldBack /\ RowsLeft /\ Phases

\* The kinds of the two jobs.
LEMMA JobKinds ==
    /\ LoadJob \in Jobs /\ ReconcileJob \in Jobs /\ LoadJob # ReconcileJob
    /\ LoadJob \in Once /\ LoadJob \notin Periodic /\ LoadJob \notin Manual
    /\ ReconcileJob \in Manual /\ ReconcileJob \notin Periodic /\ ReconcileJob \notin Once
    /\ \A j \in Jobs \ {LoadJob} : j \notin Once
BY JobsAssumption, KindsDisjoint DEF Jobs

\* What the load job and the rest of the session do to the scheduler once it has started.
SchedulerMove ==
    \/ \E again \in BOOLEAN : Returned(LoadJob, again)
    \/ \E j \in Jobs \ {LoadJob} : Returned(j, FALSE)
    \/ Trigger(ReconcileJob)
    \/ \E j \in Periodic : SetInterval(j)
    \/ \E j \in Jobs : Expire(j)
    \/ Handler
    \/ UNCHANGED vars

\* Every step of the composition is one of the scheduler.
LEMMA LoadMoves ==
    ASSUME [LoadNext]_allVars
    PROVE  SessionStart \/ SessionStop \/ FinishResume \/ (SchedulerMove /\ UNCHANGED loadedEvents)
<1>1. CASE CountRows \/ CountThrows \/ ReadAlerts
  BY <1>1 DEF CountRows, CountThrows, ReadAlerts, LoadReturned, SchedulerMove
<1>2. CASE NextChunk \/ NextEnd \/ RetryChunk \/ GiveUp
  BY <1>2 DEF NextChunk, NextEnd, RetryChunk, GiveUp, LoadReturned, SchedulerMove
<1>3. CASE FinishReconcile \/ FinishThrows \/ LoadDone
  BY <1>3 DEF FinishReconcile, FinishThrows, LoadDone, LoadReturned, SchedulerMove
<1>4. CASE AlertTriggers \/ SetTimers \/ OtherReturned \/ IoThread
  BY <1>4 DEF AlertTriggers, SetTimers, OtherReturned, IoThread, SchedulerMove, loadVars
<1>5. ASSUME NEW j \in Jobs, TimerExpires(j) PROVE SchedulerMove /\ UNCHANGED loadedEvents
  BY <1>5 DEF TimerExpires, SchedulerMove, loadVars
<1>6. CASE UNCHANGED allVars
  BY <1>6 DEF allVars, loadVars, SchedulerMove
<1> QED BY <1>1, <1>2, <1>3, <1>4, <1>5, <1>6 DEF LoadNext, LoadStep

\* Such a step is a step of Scheduler.
LEMMA MovesAreNext == SchedulerMove \/ SessionStop \/ FinishResume => [Next]_vars
<1>1. SchedulerMove => [Next]_vars
  BY JobKinds DEF SchedulerMove, Next, Jobs
<1>2. SessionStop \/ FinishResume => [Next]_vars
  BY DEF SessionStop, FinishResume, Next
<1> QED BY <1>1, <1>2

\* The start of a session sets the scheduler up as its invariant wants it.
LEMMA StartSchedulerInv ==
    ASSUME SchedulerInv, Booted, SessionStart
    PROVE  SchedulerInv'
<1>1. /\ entries = {} /\ entries' = Jobs /\ ~stopped /\ UNCHANGED <<running, triggered, ready, stopped>>
      /\ suspends' = suspends + 1
      /\ scheduled' = [j \in Jobs |-> j \in Periodic \cup Once \/ scheduled[j]]
      /\ armed' = [j \in Jobs |-> j \in Periodic \cup Once \/ armed[j]]
  BY DEF SessionStart, Schedule
<1>2. \A j \in Jobs : ~scheduled[j] /\ ~triggered[j]
  BY <1>1 DEF Booted
<1>3. TypeOK /\ suspends \in Nat /\ suspends' > 0
  BY <1>1 DEF SchedulerInv, TypeOK
<1>4. scheduled' \in [Jobs -> BOOLEAN] /\ armed' \in [Jobs -> BOOLEAN]
  BY <1>1, Zenon
<1>5. TypeOK'
  BY <1>1, <1>3, <1>4 DEF TypeOK
<1>6. \A j \in Jobs : scheduled'[j] => armed'[j]
  BY <1>1, <1>2
<1>7. NoLostTrigger'
  BY <1>3 DEF NoLostTrigger
<1>8. ScheduledHasWait'
  BY <1>1, <1>6, Zenon DEF ScheduledHasWait
<1>9. PeriodicGoesOn'
  BY <1>1 DEF PeriodicGoesOn
<1>10. ManualIsRegistered'
  BY <1>1 DEF ManualIsRegistered, Jobs
<1> QED BY <1>5, <1>7, <1>8, <1>9, <1>10 DEF SchedulerInv

\* Every step keeps the registrations.
LEMMA BootedStep ==
    ASSUME SchedulerInv, Booted, [LoadNext]_allVars
    PROVE  Booted'
<1> USE DEF SchedulerInv, TypeOK, Booted
<1>1. CASE SessionStart
  BY <1>1, JobKinds DEF SessionStart, Schedule
<1>2. CASE SessionStop
  BY <1>2 DEF SessionStop, Stop, Idle
<1>3. CASE FinishResume
  BY <1>3, JobKinds DEF FinishResume, Resume, Schedule, Held
<1>4. ASSUME NEW again \in BOOLEAN, Returned(LoadJob, again) PROVE Booted'
  BY <1>4, JobKinds DEF Returned, Schedule
<1>5. ASSUME NEW j \in Jobs \ {LoadJob}, Returned(j, FALSE) PROVE Booted'
  <2>1. UNCHANGED <<entries, triggered, stopped>> /\ running[j] /\ running' = [running EXCEPT ![j] = FALSE]
    BY <1>5, JobKinds DEF Returned
  <2> QED BY <2>1
<1>6. CASE Trigger(ReconcileJob)
  BY <1>6, JobKinds DEF Trigger, Schedule
<1>7. ASSUME NEW j \in Periodic, SetInterval(j) PROVE Booted'
  BY <1>7 DEF SetInterval, Schedule
<1>8. ASSUME NEW j \in Jobs, Expire(j) PROVE Booted'
  BY <1>8 DEF Expire
<1>9. CASE Handler
  <2>1. Head(ready) \in Jobs
    BY <1>9, TailReady DEF Handler
  <2> QED BY <1>9, <2>1 DEF Handler
<1>10. CASE UNCHANGED vars
  BY <1>10 DEF vars
<1> QED BY <1>1, <1>2, <1>3, <1>4, <1>5, <1>6, <1>7, <1>8, <1>9, <1>10, LoadMoves DEF SchedulerMove

\* Nothing wakes the reconcile job during the load.
LEMMA HeldBackStep ==
    ASSUME SchedulerInv, Booted, HeldBack, loadedEvents \in Nat, [LoadNext]_allVars
    PROVE  HeldBack'
<1> USE JobKinds DEF SchedulerInv, TypeOK, Booted
<1> DEFINE R == ReconcileJob
<1>1. CASE FinishResume
  BY <1>1 DEF FinishResume, HeldBack
<1>2. SUFFICES ASSUME ~FinishResume, loadedEvents' = 0 PROVE HeldBack'
  BY <1>1 DEF HeldBack
<1>3. loadedEvents = 0 /\ UNCHANGED loadedEvents
  BY <1>2, LoadMoves DEF SessionStart, SessionStop, loadVars
<1>4. (entries # {} => suspends > 0) /\ ~scheduled[R] /\ ~armed[R] /\ ~running[R] /\ ~InReady(R)
  BY <1>3 DEF HeldBack
<1> DEFINE Goal == (entries' # {} => suspends' > 0) /\ ~scheduled'[R] /\ ~armed'[R] /\ ~running'[R] /\ ~InReady(R)'
<1>5. CASE SessionStart
  BY <1>4, <1>5, SameReady DEF SessionStart, Schedule, HeldBack
<1>6. CASE SessionStop
  BY <1>4, <1>6, SameReady DEF SessionStop, Stop, HeldBack
<1>7. ASSUME NEW j \in Jobs, NEW again \in BOOLEAN, Returned(j, again) PROVE HeldBack'
  <2>1. j # R /\ UNCHANGED <<ready, suspends>> /\ entries' \subseteq entries /\ running'[R] = running[R]
    BY <1>4, <1>7 DEF Returned
  <2>2. scheduled'[R] = scheduled[R] /\ armed'[R] = armed[R]
    BY <1>4, <1>7, <2>1 DEF Returned, Schedule
  <2> QED BY <1>4, <2>1, <2>2, SameReady DEF HeldBack
<1>8. CASE Trigger(R)
  <2>1. suspends > 0 /\ UNCHANGED <<entries, scheduled, armed, running, ready, suspends>>
    BY <1>4, <1>8 DEF Trigger
  <2> QED BY <1>4, <2>1, SameReady DEF HeldBack
<1>9. ASSUME NEW j \in Periodic, SetInterval(j) PROVE HeldBack'
  BY <1>4, <1>9, SameReady DEF SetInterval, Schedule, HeldBack
<1>10. ASSUME NEW j \in Jobs, Expire(j) PROVE HeldBack'
  <2>1. j # R
    BY <1>4, <1>10 DEF Expire
  <2>2. ~InReady(R)'
    BY <1>4, <1>10, <2>1 DEF Expire, InReady
  <2> QED BY <1>4, <1>10, <2>1, <2>2 DEF Expire, HeldBack
<1>11. CASE Handler
  <2>1. Head(ready) \in Jobs /\ Head(ready) # R /\ ~InReady(R)'
    BY <1>4, <1>11, TailReady DEF Handler, InReady
  <2> QED BY <1>4, <1>11, <2>1 DEF Handler, HeldBack
<1>12. CASE UNCHANGED vars
  BY <1>4, <1>12, SameReady DEF vars, HeldBack
<1> QED BY <1>2, <1>5, <1>6, <1>7, <1>8, <1>9, <1>10, <1>11, <1>12, LoadMoves DEF SchedulerMove

\* The rows add up through every chunk, retried or not.
LEMMA RowsLeftStep ==
    ASSUME RowsLeft, [LoadNext]_allVars
    PROVE  RowsLeft'
<1> USE LoadAssumption DEF RowsLeft
<1>1. ASSUME UNCHANGED <<left, m_loaded, unqueued>> PROVE RowsLeft'
  BY <1>1
<1>2. Pass \in {"queued", "unqueued"} /\ (Pass = "unqueued" <=> unqueued)
  BY DEF Pass
<1>3. Chunk \in Nat /\ Chunk <= left[Pass] /\ (Chunk = 0 => left[Pass] = 0)
  BY <1>2 DEF Chunk
<1>4. ASSUME NEW rows \in 0 .. Chunk, NEW added \in 0 .. rows,
             left' = [left EXCEPT ![Pass] = left[Pass] - rows], m_loaded' = m_loaded + added
      PROVE  /\ left' \in [{"queued", "unqueued"} -> Nat] /\ m_loaded' \in Nat
             /\ m_loaded' + left'["queued"] + left'["unqueued"] <= QueuedRows + UnqueuedRows
             /\ left["queued"] = 0 => left'["queued"] = 0
  <2>1. left[Pass] - rows \in Nat /\ added <= rows /\ added \in Nat /\ rows \in Nat /\ rows <= left[Pass]
    BY <1>2, <1>3, <1>4
  <2>2. CASE Pass = "queued"
    <3>1. left'["queued"] = left["queued"] - rows /\ left'["unqueued"] = left["unqueued"]
      BY <1>4, <2>2
    <3> QED BY <1>4, <2>1, <2>2, <3>1
  <2>3. CASE Pass = "unqueued"
    <3>1. left'["unqueued"] = left["unqueued"] - rows /\ left'["queued"] = left["queued"]
      BY <1>4, <2>3
    <3> QED BY <1>4, <2>1, <2>3, <3>1
  <2> QED BY <1>2, <2>2, <2>3
<1>5. CASE NextChunk
  <2>1. PICK added \in 0 .. Chunk : m_loaded' = m_loaded + added
    BY <1>5 DEF NextChunk
  <2>2. left' = [left EXCEPT ![Pass] = left[Pass] - Chunk] /\ unqueued' = (unqueued \/ Chunk = 0)
    BY <1>5 DEF NextChunk
  <2>3. Chunk \in 0 .. Chunk
    BY <1>3
  <2>4. /\ left' \in [{"queued", "unqueued"} -> Nat] /\ m_loaded' \in Nat
        /\ m_loaded' + left'["queued"] + left'["unqueued"] <= QueuedRows + UnqueuedRows
        /\ left["queued"] = 0 => left'["queued"] = 0
    BY <1>4, <2>1, <2>2, <2>3
  <2>5. unqueued' \in BOOLEAN
    BY <2>2, Zenon
  <2>6. unqueued' => left["queued"] = 0
    BY <1>2, <1>3, <2>2
  <2> QED BY <2>4, <2>5, <2>6
<1>6. CASE RetryChunk \/ GiveUp
  <2>1. PICK rows \in 0 .. Chunk : /\ left' = [left EXCEPT ![Pass] = left[Pass] - rows]
                                  /\ \E added \in 0 .. rows : m_loaded' = m_loaded + added
    BY <1>6 DEF RetryChunk, GiveUp, PartOfChunk
  <2>2. PICK added \in 0 .. rows : m_loaded' = m_loaded + added
    BY <2>1
  <2>3. UNCHANGED unqueued
    BY <1>6 DEF RetryChunk, GiveUp
  <2> QED BY <1>4, <2>1, <2>2, <2>3
<1>7. CASE CountRows \/ CountThrows \/ ReadAlerts \/ NextEnd \/ FinishReconcile \/ FinishThrows \/ FinishResume \/ LoadDone
  BY <1>1, <1>7 DEF CountRows, CountThrows, ReadAlerts, NextEnd, FinishReconcile, FinishThrows, FinishResume, LoadDone
<1>8. CASE SessionStart \/ SessionStop \/ AlertTriggers \/ SetTimers \/ OtherReturned \/ IoThread \/ UNCHANGED allVars
  BY <1>1, <1>8 DEF SessionStart, SessionStop, AlertTriggers, SetTimers, OtherReturned, IoThread, allVars, loadVars
<1>9. ASSUME NEW j \in Jobs, TimerExpires(j) PROVE RowsLeft'
  BY <1>1, <1>9 DEF TimerExpires, loadVars
<1> QED BY <1>5, <1>6, <1>7, <1>8, <1>9 DEF LoadNext, LoadStep

\* A load job that has retired stays so, and what it reported stays true.
LEMMA RetiredStays ==
    ASSUME SchedulerInv, Booted, Retired, [LoadNext]_allVars
    PROVE  Retired' /\ ~LoadStep /\ ~SessionStart
<1> USE JobKinds DEF SchedulerInv, TypeOK, Booted
<1>1. ~LoadStep /\ ~SessionStart
  BY DEF Retired, LoadStep, CountRows, CountThrows, ReadAlerts, NextChunk, NextEnd, RetryChunk, GiveUp,
         FinishReconcile, FinishThrows, FinishResume, LoadDone, LoadAt, SessionStart
<1>2. ASSUME SessionStop PROVE Retired'
  BY <1>2 DEF SessionStop, Stop, Retired
<1>3. ASSUME NEW j \in Jobs, NEW again \in BOOLEAN, Returned(j, again) PROVE Retired'
  BY <1>3 DEF Returned, Retired
<1>4. ASSUME Trigger(ReconcileJob) PROVE Retired'
  BY <1>4 DEF Trigger, Retired
<1>5. ASSUME NEW j \in Periodic, SetInterval(j) PROVE Retired'
  BY <1>5 DEF SetInterval, Retired
<1>6. ASSUME NEW j \in Jobs, Expire(j) PROVE Retired'
  BY <1>6 DEF Expire, Retired
<1>7. ASSUME Handler PROVE Retired'
  <2>1. Head(ready) \in Jobs
    BY <1>7, TailReady DEF Handler
  <2> QED BY <1>7, <2>1 DEF Handler, Retired
<1>8. ASSUME UNCHANGED vars PROVE Retired'
  BY <1>8 DEF vars, Retired
<1> QED BY <1>1, <1>2, <1>3, <1>4, <1>5, <1>6, <1>7, <1>8, LoadMoves DEF SchedulerMove, LoadStep

\* A run of the load job that does not ask for another one is its last.
LEMMA LastRun ==
    ASSUME SchedulerInv, Booted, running[LoadJob], LoadReturned(FALSE)
    PROVE  Retired' /\ step' = "count"
BY JobKinds DEF SchedulerInv, TypeOK, Booted, LoadReturned, Returned, Retired

\* Steps that are not of the load job leave its position.
LEMMA OtherSteps ==
    ASSUME SchedulerInv, Booted, SessionStart \/ AlertTriggers \/ SetTimers \/ OtherReturned \/ IoThread
                                 \/ (\E j \in Jobs : TimerExpires(j)) \/ UNCHANGED allVars
    PROVE  UNCHANGED loadVars /\ (running[LoadJob] => running'[LoadJob])
<1> USE JobKinds DEF SchedulerInv, TypeOK
<1>1. CASE SessionStart \/ AlertTriggers \/ UNCHANGED allVars
  BY <1>1 DEF SessionStart, AlertTriggers, Trigger, allVars, vars
<1>2. CASE SetTimers
  BY <1>2 DEF SetTimers, SetInterval
<1>3. CASE OtherReturned
  BY <1>3 DEF OtherReturned, Returned
<1>4. CASE IoThread
  BY <1>4 DEF IoThread, Handler, Idle
<1>5. ASSUME NEW j \in Jobs, TimerExpires(j) PROVE UNCHANGED loadVars /\ UNCHANGED running
  BY <1>5 DEF TimerExpires, Expire
<1> QED BY <1>1, <1>2, <1>3, <1>4, <1>5

\* Complete calls the callback if nobody has.
LEMMA CompleteOnce ==
    ASSUME Phases, Complete
    PROVE  m_callback' \in BOOLEAN /\ callbacks' \in {0, 1} /\ ~m_callback'
<1>1. m_callback' \in BOOLEAN /\ ~m_callback'
  BY Zenon DEF Complete
<1>2. callbacks' = IF m_callback THEN callbacks + 1 ELSE callbacks
  BY Zenon DEF Complete
<1>3. callbacks \in {0, 1} /\ (m_callback => callbacks = 0) /\ m_callback \in BOOLEAN
  BY DEF Phases
<1>4. callbacks' \in {0, 1}
  BY <1>2, <1>3
<1> QED BY <1>1, <1>4

\* What the load job has reported is true at every point of it.
LEMMA PhasesStep ==
    ASSUME SchedulerInv, Booted, RowsLeft, Phases, [LoadNext]_allVars
    PROVE  Phases'
<1> USE LoadAssumption
<1>1. Retired => Retired'
  BY RetiredStays
<1>2. ASSUME UNCHANGED loadVars, running[LoadJob] => running'[LoadJob] PROVE Phases'
  BY <1>1, <1>2 DEF Phases, AtEnd, loadVars
<1>3. CASE SessionStart \/ AlertTriggers \/ SetTimers \/ OtherReturned \/ IoThread
           \/ (\E j \in Jobs : TimerExpires(j)) \/ UNCHANGED allVars
  BY <1>2, <1>3, OtherSteps
<1>4. CASE SessionStop
  <2>1. UNCHANGED <<step, m_count, left, m_errors, m_failed, loadedEvents, running>>
    BY <1>4 DEF SessionStop, Stop
  <2>2. m_callback' \in BOOLEAN /\ callbacks' \in {0, 1} /\ (m_callback' => callbacks' = 0)
    BY <1>4, CompleteOnce DEF SessionStop, Phases
  <2> QED BY <1>1, <2>1, <2>2 DEF Phases, AtEnd
<1>5. ASSUME LoadStep PROVE running[LoadJob] /\ ~Retired /\ (step # "done" => loadedEvents = 0)
  <2>1. running[LoadJob]
    BY <1>5 DEF LoadStep, CountRows, CountThrows, ReadAlerts, NextChunk, NextEnd, RetryChunk, GiveUp,
         FinishReconcile, FinishThrows, FinishResume, LoadDone, LoadAt
  <2>2. loadedEvents \in {0, 1} /\ (loadedEvents > 0 => step = "done" \/ Retired)
    BY DEF Phases
  <2> QED BY <2>1, <2>2 DEF Retired
<1>6. CASE CountRows \/ ReadAlerts
  <2>1. /\ running'[LoadJob] /\ step \in {"count", "alerts"} /\ step' \in {"alerts", "next"}
        /\ UNCHANGED <<left, m_errors, m_failed, m_callback, callbacks, loadedEvents>>
        /\ m_count' \in {m_count, QueuedRows + UnqueuedRows}
    BY <1>5, <1>6 DEF LoadStep, CountRows, ReadAlerts, LoadAt, Trigger, vars
  <2>2. m_errors <= MaxChunkErrors /\ ~m_failed /\ loadedEvents = 0
    BY <1>5, <1>6, <2>1 DEF LoadStep, Phases, AtEnd
  <2> QED BY <2>1, <2>2 DEF Phases, AtEnd
<1>7. CASE CountThrows \/ FinishThrows \/ LoadDone
  <2>1. Retired' /\ step' = "count" /\ UNCHANGED <<m_count, left, m_errors, m_failed, m_callback, callbacks, loadedEvents>>
    BY <1>5, <1>7, LastRun DEF LoadStep, CountThrows, FinishThrows, LoadDone
  <2>2. loadedEvents > 0 => m_failed \/ (left["queued"] = 0 /\ left["unqueued"] = 0)
    BY DEF Phases
  <2> QED BY <2>1, <2>2 DEF Phases, AtEnd, Retired
<1>8. CASE NextChunk \/ RetryChunk
  <2>1. /\ ~running'[LoadJob] /\ step = "next" /\ step' = "count"
        /\ UNCHANGED <<m_count, m_failed, m_callback, callbacks, loadedEvents>>
        /\ m_errors' = 0 \/ (m_errors' = m_errors + 1 /\ m_errors' <= MaxChunkErrors)
    BY <1>5, <1>8, JobKinds DEF LoadStep, NextChunk, RetryChunk, LoadAt, LoadReturned, Returned, SchedulerInv, TypeOK
  <2>2. ~m_failed /\ loadedEvents = 0
    BY <1>5, <1>8, <2>1 DEF LoadStep, Phases, AtEnd
  <2>3. m_errors' \in 0 .. MaxChunkErrors + 1 /\ ~(m_errors' > MaxChunkErrors)
    BY <2>1 DEF Phases
  <2> QED BY <2>1, <2>2, <2>3 DEF Phases, AtEnd
<1>9. CASE NextEnd
  <2>1. /\ running'[LoadJob] /\ step = "next" /\ step' = "finish" /\ m_errors' = 0
        /\ UNCHANGED <<m_count, left, m_failed, m_callback, callbacks, loadedEvents>>
    BY <1>5, <1>9 DEF LoadStep, NextEnd, LoadAt, vars
  <2>2. left["queued"] = 0 /\ left["unqueued"] = 0
    BY <1>9 DEF NextEnd, Chunk, Pass, RowsLeft
  <2>3. loadedEvents = 0 /\ m_errors' \in 0 .. MaxChunkErrors + 1
    BY <1>5, <1>9, <2>1 DEF LoadStep
  <2> QED BY <2>1, <2>2, <2>3 DEF Phases, AtEnd
<1>10. CASE GiveUp
  <2>1. /\ running'[LoadJob] /\ step = "next" /\ step' = "finish" /\ m_errors' = m_errors + 1 /\ m_failed' = TRUE
        /\ UNCHANGED <<m_count, m_callback, callbacks, loadedEvents>>
    BY <1>5, <1>10 DEF LoadStep, GiveUp, LoadAt, vars
  <2>2. loadedEvents = 0 /\ ~(m_errors > MaxChunkErrors)
    BY <1>5, <1>10, <2>1 DEF LoadStep, Phases, AtEnd
  <2>3. m_errors' \in 0 .. MaxChunkErrors + 1
    BY <2>1, <2>2 DEF Phases
  <2> QED BY <2>1, <2>2, <2>3 DEF Phases, AtEnd
<1>11. CASE FinishReconcile
  <2>1. /\ running'[LoadJob] /\ step = "finish" /\ step' = "resume"
        /\ UNCHANGED <<m_count, left, m_errors, m_failed, m_callback, callbacks, loadedEvents>>
    BY <1>5, <1>11 DEF LoadStep, FinishReconcile, LoadAt, Trigger, vars
  <2>2. loadedEvents = 0
    BY <1>5, <1>11, <2>1 DEF LoadStep
  <2> QED BY <1>5, <1>11, <2>1, <2>2 DEF LoadStep, Phases, AtEnd
<1>12. CASE FinishResume
  <2>1. /\ running'[LoadJob] /\ step = "resume" /\ step' = "done" /\ loadedEvents' = loadedEvents + 1
        /\ UNCHANGED <<m_count, left, m_errors, m_failed>>
    BY <1>5, <1>12 DEF LoadStep, FinishResume, LoadAt, Resume
  <2>2. loadedEvents = 0
    BY <1>5, <1>12, <2>1 DEF LoadStep
  <2>3. m_callback' \in BOOLEAN /\ callbacks' \in {0, 1} /\ (m_callback' => callbacks' = 0)
    BY <1>12, CompleteOnce DEF FinishResume
  <2>4. m_failed \/ (left["queued"] = 0 /\ left["unqueued"] = 0)
    BY <1>5, <1>12, <2>1 DEF LoadStep, Phases, AtEnd
  <2> QED BY <2>1, <2>2, <2>3, <2>4 DEF Phases, AtEnd
<1> QED BY <1>3, <1>4, <1>6, <1>7, <1>8, <1>9, <1>10, <1>11, <1>12 DEF LoadNext, LoadStep

\* The inductive invariant of the load.
THEOREM LoadInvariant == LoadSpec => []LoadInv
<1>1. LoadInit => LoadInv
  <2> SUFFICES ASSUME LoadInit PROVE LoadInv
    OBVIOUS
  <2>1. Init
    BY DEF LoadInit
  <2>2. SchedulerInv
    BY <2>1, SchedulerInitInv
  <2>3. Booted /\ HeldBack
    BY <2>1, JobKinds DEF Init, Booted, HeldBack, InReady
  <2>4. RowsLeft
    <3>1. left["queued"] = QueuedRows /\ left["unqueued"] = UnqueuedRows /\ left \in [{"queued", "unqueued"} -> Nat]
      BY LoadAssumption DEF LoadInit
    <3>2. unqueued = FALSE /\ m_loaded = 0
      BY DEF LoadInit
    <3>3. unqueued \in BOOLEAN
      BY <3>2, Zenon
    <3> QED BY <3>1, <3>2, <3>3, LoadAssumption DEF RowsLeft
  <2>5. ~running[LoadJob]
    BY <2>1, JobKinds DEF Init
  <2>6. Phases
    <3>1. /\ step = "count" /\ m_count = -1 /\ m_errors = 0 /\ m_failed = FALSE /\ m_callback = TRUE
          /\ callbacks = 0 /\ loadedEvents = 0
      BY DEF LoadInit
    <3>2. m_failed \in BOOLEAN /\ m_callback \in BOOLEAN
      BY <3>1, Zenon
    <3>3. m_errors \in 0 .. MaxChunkErrors + 1 /\ ~(m_errors > MaxChunkErrors) /\ ~m_failed /\ ~(loadedEvents > 0)
      BY <3>1, LoadAssumption
    <3> QED BY <2>5, <3>1, <3>2, <3>3 DEF Phases, AtEnd
  <2> QED BY <2>2, <2>3, <2>4, <2>6 DEF LoadInv
<1>2. LoadInv /\ [LoadNext]_allVars => LoadInv'
  <2> SUFFICES ASSUME LoadInv, [LoadNext]_allVars PROVE LoadInv'
    OBVIOUS
  <2>1. SchedulerInv /\ Booted /\ HeldBack /\ RowsLeft /\ Phases
    BY DEF LoadInv
  <2>2. SchedulerInv'
    BY <2>1, LoadMoves, MovesAreNext, StartSchedulerInv, SchedulerStep
  <2>3. Booted' /\ RowsLeft' /\ Phases'
    BY <2>1, BootedStep, RowsLeftStep, PhasesStep
  <2>4. HeldBack'
    BY <2>1, HeldBackStep DEF Phases
  <2> QED BY <2>2, <2>3, <2>4 DEF LoadInv
<1> QED BY <1>1, <1>2, PTL DEF LoadSpec

\* LoadTorrents::Finish and Complete: whatever the database does, the load callback is called and
\* session.loaded published at most once, and session.loaded means that every row of both passes
\* was read or that the load was cut short, for any number of rows, chunk size and error limit.
THEOREM LoadReportsTruth == LoadSpec => []LoadReports
<1>1. LoadInv => LoadReports
  <2> SUFFICES ASSUME LoadInv PROVE LoadReports
    OBVIOUS
  <2>1. RowsLeft /\ Phases
    BY DEF LoadInv
  <2>2. left \in [{"queued", "unqueued"} -> 0 .. QueuedRows + UnqueuedRows] /\ m_loaded \in 0 .. QueuedRows + UnqueuedRows
    BY <2>1, LoadAssumption DEF RowsLeft
  <2>3. LoadTypeOK
    BY <2>1, <2>2 DEF LoadTypeOK, RowsLeft, Phases
  <2>4. CallbackOnce
    BY <2>1 DEF CallbackOnce, Phases
  <2>5. LoadReadsAll
    BY <2>1 DEF LoadReadsAll, RowsLeft, Phases
  <2> QED BY <2>3, <2>4, <2>5 DEF LoadReports
<1> QED BY <1>1, LoadInvariant, PTL

\* Scheduler::Suspend in the constructor of the load job: no reconcile starts before session.loaded,
\* whatever triggers it and whichever handlers are queued.
THEOREM ReconcileWaitsForLoad == LoadSpec => NoReconcileWhileLoading
<1>1. LoadInv /\ [LoadNext]_allVars =>
        [running'[ReconcileJob] => running[ReconcileJob] \/ loadedEvents > 0]_allVars
  <2> SUFFICES ASSUME LoadInv, [LoadNext]_allVars, running'[ReconcileJob], ~running[ReconcileJob]
               PROVE  loadedEvents > 0
    OBVIOUS
  <2>1. SchedulerInv /\ Booted /\ HeldBack /\ Phases
    BY DEF LoadInv
  <2>2. CASE FinishResume \/ SessionStart \/ SessionStop
    BY <2>2 DEF FinishResume, Resume, SessionStart, SessionStop, Stop
  <2>3. CASE SchedulerMove /\ UNCHANGED loadedEvents
    <3>1. HeldBack'
      BY <2>1, HeldBackStep DEF Phases
    <3> QED BY <2>1, <2>3, <3>1 DEF HeldBack, Phases
  <2> QED BY <2>2, <2>3, LoadMoves
<1> QED BY <1>1, LoadInvariant, PTL DEF LoadSpec, NoReconcileWhileLoading

\* The load job suspends and resumes the manual jobs without losing a trigger.
THEOREM LoadKeepsTriggers == LoadSpec => []NoLostTrigger
BY LoadInvariant, PTL DEF LoadInv, SchedulerInv

=============================================================================
