---------------------------- MODULE LoadTorrents ----------------------------
(***************************************************************************)
(* The jobs of one session from Session::Start to Session::Stop: the        *)
(* LoadTorrents job (src/sessions/jobs/loadtorrents.cpp) composed with the  *)
(* scheduler that runs it.  The load job suspends the manual jobs when it   *)
(* is created, adds the stored torrents chunk by chunk, retries a chunk the *)
(* database fails on, and at the end resumes the manual jobs and calls the  *)
(* load callback, which the start of the daemon waits for.                  *)
(*                                                                         *)
(* The rows themselves are counted, not named: the first pass of the cursor *)
(* reads the queued rows, the second one the unqueued rows.                 *)
(***************************************************************************)
EXTENDS Scheduler, Integers

CONSTANTS
    LoadJob, ReconcileJob,
    QueuedRows, UnqueuedRows,  \* rows stored for the session
    ChunkSize,                 \* kLoadChunkSize
    MaxChunkErrors,            \* kLoadMaxChunkErrors
    Faults                     \* the calls that may throw: "count", "next", "reconcile"

ASSUME JobsAssumption == Once = {LoadJob} /\ Manual = {ReconcileJob}

ASSUME LoadAssumption ==
    /\ QueuedRows \in Nat /\ UnqueuedRows \in Nat
    /\ ChunkSize \in Nat \ {0} /\ MaxChunkErrors \in Nat
    /\ Faults \subseteq {"count", "next", "reconcile"}

VARIABLES
    step,        \* where the running load job is
    m_count,     \* -1 until the rows are counted
    left,        \* rows after the cursor, by pass
    unqueued,    \* Cursor::unqueued: the second pass
    m_loaded, m_errors, m_failed,
    m_callback,  \* the callback is still set
    callbacks,   \* how often it was called
    loadedEvents \* how often session.loaded was published

loadVars == <<step, m_count, left, unqueued, m_loaded, m_errors, m_failed,
              m_callback, callbacks, loadedEvents>>

allVars == <<vars, loadVars>>

-----------------------------------------------------------------------------
(* Session::Start: the periodic jobs, the reconcile job, and the load job,   *)
(* whose constructor suspends the scheduler.                                 *)

\* Mutant: the load job is started without suspending the manual jobs.
BugStartNotSuspended ==
    /\ entries = {} /\ ~stopped /\ m_callback
    /\ entries' = Jobs
    /\ Schedule(Periodic \cup Once)
    /\ UNCHANGED <<running, triggered, ready, suspends, stopped, loadVars>>

SessionStart ==
    /\ entries = {} /\ ~stopped /\ m_callback
    /\ entries' = Jobs
    /\ Schedule(Periodic \cup Once)
    /\ suspends' = suspends + 1
    /\ UNCHANGED <<running, triggered, ready, stopped, loadVars>>

\* LoadTorrents::Complete: the callback is taken before it is called.
Complete ==
    /\ m_callback' = FALSE
    /\ callbacks' = IF m_callback THEN callbacks + 1 ELSE callbacks

\* Scheduler::Stop, with LoadTorrents::Stopped if the load job is still there.
SessionStop ==
    /\ Idle /\ entries # {}
    /\ Stop
    /\ IF LoadJob \in entries THEN Complete ELSE UNCHANGED <<m_callback, callbacks>>
    /\ UNCHANGED <<step, m_count, left, unqueued, m_loaded, m_errors, m_failed, loadedEvents>>

-----------------------------------------------------------------------------
(* LoadTorrents::Run                                                         *)

LoadReturned(again) == Returned(LoadJob, again) /\ step' = "count"

LoadAt(s) == running[LoadJob] /\ step = s

CountRows ==
    /\ LoadAt("count")
    /\ m_count' = IF m_count < 0 THEN QueuedRows + UnqueuedRows ELSE m_count
    /\ step' = "alerts"
    /\ UNCHANGED <<vars, left, unqueued, m_loaded, m_errors, m_failed,
                   m_callback, callbacks, loadedEvents>>

\* Count is called outside of any try block: the exception reaches Scheduler::Run.
CountThrows ==
    /\ "count" \in Faults
    /\ LoadAt("count") /\ m_count < 0
    /\ LoadReturned(FALSE)
    /\ UNCHANGED <<m_count, left, unqueued, m_loaded, m_errors, m_failed,
                   m_callback, callbacks, loadedEvents>>

\* Session::ReadAlerts: dropped alerts, or the state of an unknown torrent, trigger
\* the reconcile job.
ReadAlerts ==
    /\ LoadAt("alerts")
    /\ step' = "next"
    /\ Trigger(ReconcileJob) \/ UNCHANGED vars
    /\ UNCHANGED <<m_count, left, unqueued, m_loaded, m_errors, m_failed,
                   m_callback, callbacks, loadedEvents>>

Pass == IF unqueued THEN "unqueued" ELSE "queued"

Chunk == IF left[Pass] < ChunkSize THEN left[Pass] ELSE ChunkSize

\* AddTorrentParams::Next found rows, or the first pass is over: there is more.
NextChunk ==
    /\ LoadAt("next")
    /\ Chunk > 0 \/ ~unqueued
    /\ left' = [left EXCEPT ![Pass] = @ - Chunk]
    /\ unqueued' = (unqueued \/ Chunk = 0)
    /\ \E added \in 0 .. Chunk : m_loaded' = m_loaded + added
    /\ m_errors' = 0
    /\ LoadReturned(TRUE)
    /\ UNCHANGED <<m_count, m_failed, m_callback, callbacks, loadedEvents>>

NextEnd ==
    /\ LoadAt("next")
    /\ Chunk = 0 /\ unqueued
    /\ m_errors' = 0
    /\ step' = "finish"
    /\ UNCHANGED <<vars, m_count, left, unqueued, m_loaded, m_failed,
                   m_callback, callbacks, loadedEvents>>

\* The chunk throws after some of its rows; the cursor has moved past those.
PartOfChunk ==
    \E rows \in 0 .. Chunk :
        /\ left' = [left EXCEPT ![Pass] = @ - rows]
        /\ \E added \in 0 .. rows : m_loaded' = m_loaded + added

\* Mutant: the failing chunk is tried without end.
BugRetryForever ==
    /\ "next" \in Faults
    /\ LoadAt("next")
    /\ PartOfChunk
    /\ m_errors' = m_errors
    /\ LoadReturned(TRUE)
    /\ UNCHANGED <<m_count, unqueued, m_failed, m_callback, callbacks, loadedEvents>>

RetryChunk ==
    /\ "next" \in Faults
    /\ LoadAt("next")
    /\ m_errors + 1 <= MaxChunkErrors
    /\ PartOfChunk
    /\ m_errors' = m_errors + 1
    /\ LoadReturned(TRUE)
    /\ UNCHANGED <<m_count, unqueued, m_failed, m_callback, callbacks, loadedEvents>>

GiveUp ==
    /\ "next" \in Faults
    /\ LoadAt("next")
    /\ m_errors + 1 > MaxChunkErrors
    /\ PartOfChunk
    /\ m_errors' = m_errors + 1
    /\ m_failed' = TRUE
    /\ step' = "finish"
    /\ UNCHANGED <<vars, m_count, unqueued, m_callback, callbacks, loadedEvents>>

\* LoadTorrents::Finish up to the reconcile, whose ReadAlerts may trigger again.
FinishReconcile ==
    /\ LoadAt("finish")
    /\ step' = "resume"
    /\ (m_loaded > 0 /\ Trigger(ReconcileJob)) \/ UNCHANGED vars
    /\ UNCHANGED <<m_count, left, unqueued, m_loaded, m_errors, m_failed,
                   m_callback, callbacks, loadedEvents>>

\* The reconcile is not guarded either.
FinishThrows ==
    /\ "reconcile" \in Faults
    /\ LoadAt("finish") /\ m_loaded > 0
    /\ LoadReturned(FALSE)
    /\ UNCHANGED <<m_count, left, unqueued, m_loaded, m_errors, m_failed,
                   m_callback, callbacks, loadedEvents>>

\* session.loaded is published, the manual jobs resume, the callback is called.
FinishResume ==
    /\ LoadAt("resume")
    /\ loadedEvents' = loadedEvents + 1
    /\ Resume
    /\ Complete
    /\ step' = "done"
    /\ UNCHANGED <<m_count, left, unqueued, m_loaded, m_errors, m_failed>>

\* Mutant: the job asks for another run after its end.
BugDoneAgain ==
    /\ LoadAt("done")
    /\ LoadReturned(TRUE)
    /\ UNCHANGED <<m_count, left, unqueued, m_loaded, m_errors, m_failed,
                   m_callback, callbacks, loadedEvents>>

LoadDone ==
    /\ LoadAt("done")
    /\ LoadReturned(FALSE)
    /\ UNCHANGED <<m_count, left, unqueued, m_loaded, m_errors, m_failed,
                   m_callback, callbacks, loadedEvents>>

LoadStep ==
    \/ CountRows \/ CountThrows \/ ReadAlerts
    \/ NextChunk \/ NextEnd \/ RetryChunk \/ GiveUp
    \/ FinishReconcile \/ FinishThrows \/ FinishResume \/ LoadDone

-----------------------------------------------------------------------------
(* The rest of the io thread                                                 *)

\* An alert handler, or the reconcile job itself, triggers a reconcile.
AlertTriggers ==
    /\ Idle \/ running[ReconcileJob]
    /\ Trigger(ReconcileJob)
    /\ UNCHANGED loadVars

\* Session::SetTimers.
SetTimers ==
    /\ Idle
    /\ \E j \in Periodic : SetInterval(j)
    /\ UNCHANGED loadVars

OtherReturned ==
    /\ \E j \in Jobs \ {LoadJob} : Returned(j, FALSE)
    /\ UNCHANGED loadVars

TimerExpires(j) == Expire(j) /\ UNCHANGED loadVars

IoThread == Handler /\ UNCHANGED loadVars

LoadInit ==
    /\ Init
    /\ step = "count"
    /\ m_count = -1
    /\ left = [queued |-> QueuedRows, unqueued |-> UnqueuedRows]
    /\ unqueued = FALSE
    /\ m_loaded = 0 /\ m_errors = 0 /\ m_failed = FALSE
    /\ m_callback = TRUE /\ callbacks = 0 /\ loadedEvents = 0

LoadNext ==
    \/ SessionStart
    \/ SessionStop
    \/ LoadStep
    \/ AlertTriggers
    \/ SetTimers
    \/ OtherReturned
    \/ \E j \in Jobs : TimerExpires(j)
    \/ IoThread

LoadFairness ==
    /\ WF_allVars(SessionStart)
    /\ WF_allVars(LoadStep)
    /\ WF_allVars(OtherReturned)
    /\ \A j \in Jobs : WF_allVars(TimerExpires(j))
    /\ WF_allVars(IoThread)

LoadSpec == LoadInit /\ [][LoadNext]_allVars /\ LoadFairness

-----------------------------------------------------------------------------
(* Properties                                                                *)

Started == entries # {}

\* The shape of the state; no more errors are counted than are allowed.
LoadTypeOK ==
    /\ step \in {"count", "alerts", "next", "finish", "resume", "done"}
    /\ m_count \in {-1, QueuedRows + UnqueuedRows}
    /\ left \in [{"queued", "unqueued"} -> 0 .. QueuedRows + UnqueuedRows]
    /\ m_loaded \in 0 .. QueuedRows + UnqueuedRows
    /\ m_errors \in 0 .. MaxChunkErrors + 1
    /\ unqueued \in BOOLEAN /\ m_failed \in BOOLEAN /\ m_callback \in BOOLEAN

\* The load callback is called and session.loaded published at most once, by the end
\* of the load or by a Stop at any point of it.  Sessions::Load counts sessions down in it, so a second call
\* would start the daemon before the other sessions are loaded.
CallbackOnce == callbacks <= 1 /\ loadedEvents <= 1

\* A load that was not cut short by errors has read every row of both passes when
\* it announces session.loaded.
LoadReadsAll == loadedEvents > 0 /\ ~m_failed => left.queued = 0 /\ left.unqueued = 0

\* The reconcile job never starts before session.loaded: whatever triggers it during
\* the load is held until the load job resumes the manual jobs.
NoReconcileWhileLoading ==
    [][running'[ReconcileJob] => running[ReconcileJob] \/ loadedEvents > 0]_allVars

\* "load_callback will be called when session is fully loaded" (session.hpp): the
\* callback is called in the end, whatever the database does to single chunks.
LoadCompletes == <>(callbacks = 1)

\* The load job was dropped by the scheduler because Count or the final reconcile threw:
\* neither Resume nor the callback was reached.
LoadThrew == Started /\ LoadJob \notin entries /\ m_callback

\* The load comes to an end whatever the database does: a chunk is not retried for ever,
\* and the callback is called unless the job threw outside of the guarded part.
LoadEnds == <>(callbacks = 1 \/ LoadThrew)

\* A reconcile asked for at any point of the load does run, or the session stops,
\* or the load job threw and left the manual jobs suspended.
ReconcileRuns == triggered[ReconcileJob] ~> (~triggered[ReconcileJob] \/ stopped \/ LoadThrew)

\* What the load reports is true: its state has its shape, the callback and session.loaded
\* come once, and session.loaded only when every row was read or the load was cut short.
LoadReports == LoadTypeOK /\ CallbackOnce /\ LoadReadsAll

\* LoadTorrents::Run and Scheduler::Resume: the load ends, and a reconcile that was held up
\* by it, or triggered later, runs.
LoadSettles == LoadEnds /\ ReconcileRuns /\ TriggerRuns
=============================================================================
