\* Chunks of two rows, two retries of a chunk, and every database call may throw.
SPECIFICATION LoadSpec
CONSTANTS
    Periodic = {saveState}
    Once = {loadTorrents}
    Manual = {reconcile}
    LoadJob = loadTorrents
    ReconcileJob = reconcile
    MaxSuspends = 1
    MaxReady = 2
    QueuedRows = 3
    UnqueuedRows = 1
    ChunkSize = 2
    MaxChunkErrors = 2
    Faults = {"count", "next", "reconcile"}
INVARIANTS LoadReports NoLostTrigger
PROPERTIES NoReconcileWhileLoading NoRunAfterStop LoadSettles
CHECK_DEADLOCK FALSE
