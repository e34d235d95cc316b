----------------------------- MODULE Scheduler -----------------------------
(***************************************************************************)
(* The job scheduler of a session (src/sessions/scheduler.cpp).  All jobs   *)
(* run on the io thread, one at a time.  A job that is scheduled has a wait *)
(* on its steady_timer; when the timer expires the wait's handler is queued *)
(* on the io_context and runs later.  Cancelling or re-arming a timer does  *)
(* nothing to a handler that is queued already.                             *)
(*                                                                         *)
(* Delays and intervals are left out: an armed timer may expire at any time.*)
(* The calls (Trigger, Suspend, ...) may come from another handler of the   *)
(* io thread or from the running job itself.                                *)
(***************************************************************************)
EXTENDS Naturals, Sequences

CONSTANTS
    Periodic, Once, Manual,  \* the jobs of each Kind
    MaxSuspends,             \* bound on nested Suspend calls
    MaxReady                 \* bound on queued handlers of one job

Jobs == Periodic \cup Once \cup Manual

ASSUME KindsDisjoint ==
    Periodic \cap Once = {} /\ Periodic \cap Manual = {} /\ Once \cap Manual = {}

ASSUME BoundsAssumption == MaxSuspends \in Nat /\ MaxReady \in Nat

VARIABLES
    entries,    \* the jobs in State::entries
    scheduled,  \* Entry::scheduled
    running,    \* Entry::running
    triggered,  \* Entry::triggered
    armed,      \* the entry's timer has a wait that is neither expired nor cancelled
    ready,      \* the io_context's queue of expired waits
    suspends,   \* State::suspends
    stopped     \* State::stopped

vars == <<entries, scheduled, running, triggered, armed, ready, suspends, stopped>>

Idle == \A j \in Jobs : ~running[j]

InReady(j) == \E i \in DOMAIN ready : ready[i] = j

ReadyCount(j) == Len(SelectSeq(ready, LAMBDA k : k = j))

-----------------------------------------------------------------------------
(* Schedule: nothing once stopped, else arm the timer.  expires_after        *)
(* cancels the wait that was pending.                                        *)

Schedule(S) ==
    IF stopped
    THEN UNCHANGED <<scheduled, armed>>
    ELSE /\ scheduled' = [j \in Jobs |-> j \in S \/ scheduled[j]]
         /\ armed' = [j \in Jobs |-> j \in S \/ armed[j]]

\* Every and Start.
StartJob(j) ==
    /\ j \in Periodic \cup Once
    /\ j \notin entries
    /\ entries' = entries \cup {j}
    /\ Schedule({j})
    /\ UNCHANGED <<running, triggered, ready, suspends, stopped>>

Register(j) ==
    /\ j \in Manual
    /\ j \notin entries
    /\ entries' = entries \cup {j}
    /\ UNCHANGED <<scheduled, running, triggered, armed, ready, suspends, stopped>>

\* Only a wait in progress is moved; a handler queued already still runs.
SetInterval(j) ==
    /\ j \in Periodic \cap entries
    /\ scheduled[j] /\ ~running[j]
    /\ ReadyCount(j) < MaxReady
    /\ Schedule({j})
    /\ UNCHANGED <<entries, running, triggered, ready, suspends, stopped>>

Trigger(j) ==
    /\ j \in Manual \cap entries
    /\ triggered' = [triggered EXCEPT ![j] = TRUE]
    /\ IF suspends = 0 /\ ~scheduled[j] /\ ~running[j]
       THEN Schedule({j})
       ELSE UNCHANGED <<scheduled, armed>>
    /\ UNCHANGED <<entries, running, ready, suspends, stopped>>

Suspend ==
    /\ suspends < MaxSuspends
    /\ suspends' = suspends + 1
    /\ UNCHANGED <<entries, scheduled, running, triggered, armed, ready, stopped>>

\* The manual jobs that were triggered while suspended.
Held == {j \in Manual \cap entries : triggered[j] /\ ~scheduled[j] /\ ~running[j]}

\* Mutant: the triggers that came while suspended are left to the next trigger.
BugResumeNoSchedule ==
    /\ suspends' = IF suspends = 0 THEN 0 ELSE suspends - 1
    /\ UNCHANGED <<entries, scheduled, running, triggered, armed, ready, stopped>>

\* A Resume without a Suspend does nothing; the last one schedules what was held.
Resume ==
    /\ suspends' = IF suspends = 0 THEN 0 ELSE suspends - 1
    /\ IF suspends = 1 THEN Schedule(Held) ELSE UNCHANGED <<scheduled, armed>>
    /\ UNCHANGED <<entries, running, triggered, ready, stopped>>

\* Cancels every timer and tells every job.
Stop ==
    /\ ~stopped
    /\ stopped' = TRUE
    /\ armed' = [j \in Jobs |-> armed[j] /\ j \notin entries]
    /\ UNCHANGED <<entries, scheduled, running, triggered, ready, suspends>>

-----------------------------------------------------------------------------
(* The timer and the io thread                                               *)

\* asio: the wait is over, its handler is queued.
Expire(j) ==
    /\ armed[j]
    /\ armed' = [armed EXCEPT ![j] = FALSE]
    /\ ready' = Append(ready, j)
    /\ UNCHANGED <<entries, scheduled, running, triggered, suspends, stopped>>

\* Mutant: the handler does not look at State::stopped.
BugHandlerRunsStopped ==
    /\ Idle /\ ready # <<>>
    /\ ready' = Tail(ready)
    /\ LET j == Head(ready) IN
       IF j \notin entries
       THEN UNCHANGED <<scheduled, running, triggered>>
       ELSE /\ scheduled' = [scheduled EXCEPT ![j] = FALSE]
            /\ running' = [running EXCEPT ![j] = TRUE]
            /\ triggered' = [triggered EXCEPT ![j] = FALSE]
    /\ UNCHANGED <<entries, armed, suspends, stopped>>

\* The wait's handler, and Run up to the call of the job.
Handler ==
    /\ Idle /\ ready # <<>>
    /\ ready' = Tail(ready)
    /\ LET j == Head(ready) IN
       IF stopped \/ j \notin entries
       THEN UNCHANGED <<scheduled, running, triggered>>
       ELSE /\ scheduled' = [scheduled EXCEPT ![j] = FALSE]
            /\ running' = [running EXCEPT ![j] = TRUE]
            /\ triggered' = [triggered EXCEPT ![j] = FALSE]
    /\ UNCHANGED <<entries, armed, suspends, stopped>>

\* Run after the job has returned or thrown: again is the job's result, FALSE
\* when it threw.  A Once job that is done leaves the scheduler.
Returned(j, again) ==
    /\ running[j]
    /\ running' = [running EXCEPT ![j] = FALSE]
    /\ entries' = IF ~stopped /\ ~again /\ j \in Once THEN entries \ {j} ELSE entries
    /\ IF again \/ j \in Periodic \/ (j \in Manual /\ triggered[j] /\ suspends = 0)
       THEN Schedule({j})
       ELSE UNCHANGED <<scheduled, armed>>
    /\ UNCHANGED <<triggered, ready, suspends, stopped>>

-----------------------------------------------------------------------------

Init ==
    /\ entries = {}
    /\ scheduled = [j \in Jobs |-> FALSE]
    /\ running = [j \in Jobs |-> FALSE]
    /\ triggered = [j \in Jobs |-> FALSE]
    /\ armed = [j \in Jobs |-> FALSE]
    /\ ready = <<>>
    /\ suspends = 0
    /\ stopped = FALSE

Next ==
    \/ \E j \in Jobs : \/ StartJob(j)
                       \/ Register(j)
                       \/ SetInterval(j)
                       \/ Trigger(j)
                       \/ Expire(j)
                       \/ \E again \in BOOLEAN : Returned(j, again)
    \/ Suspend
    \/ Resume
    \/ Stop
    \/ Handler

\* Timers expire, the io thread takes the queue in order, and jobs return.
Fairness ==
    /\ \A j \in Jobs : WF_vars(Expire(j))
    /\ WF_vars(Handler)
    /\ \A j \in Jobs : WF_vars(\E again \in BOOLEAN : Returned(j, again))

Spec == Init /\ [][Next]_vars /\ Fairness

-----------------------------------------------------------------------------
(* Properties                                                                *)

\* The shape of the state; the suspend count is never negative.
TypeOK ==
    /\ entries \in SUBSET Jobs
    /\ scheduled \in [Jobs -> BOOLEAN]
    /\ running \in [Jobs -> BOOLEAN]
    /\ triggered \in [Jobs -> BOOLEAN]
    /\ armed \in [Jobs -> BOOLEAN]
    /\ ready \in Seq(Jobs)
    /\ suspends \in Nat
    /\ stopped \in BOOLEAN

\* No trigger is lost, whatever it overlaps with: while the scheduler is neither
\* stopped nor suspended, a triggered job is scheduled or running, so another run
\* of it is on its way.
NoLostTrigger ==
    ~stopped /\ suspends = 0 =>
        \A j \in Manual \cap entries : triggered[j] => scheduled[j] \/ running[j]

\* A scheduled job really has a wait or a queued handler.  Trigger and Resume
\* skip a job that says it is scheduled, so a stale flag would silence it for good.
ScheduledHasWait ==
    ~stopped => \A j \in entries : scheduled[j] => armed[j] \/ InReady(j)

\* A periodic job never falls out of the cycle: an interval changed at any moment,
\* or a run that overlaps it, leaves the job scheduled or running.
PeriodicGoesOn ==
    ~stopped => \A j \in (Periodic \cup Once) \cap entries : scheduled[j] \/ running[j]

\* A handler that was queued before Stop does not run its job afterwards, when the
\* session the job refers to is being taken down.
NoRunAfterStop ==
    [][stopped => \A j \in Jobs : running'[j] => running[j]]_vars

\* Every trigger is followed by a run that starts after it, unless the scheduler is
\* stopped or suspended.
TriggerRuns ==
    \A j \in Manual :
        (triggered[j] /\ suspends = 0) ~> (~triggered[j] \/ stopped \/ suspends > 0)
=============================================================================
