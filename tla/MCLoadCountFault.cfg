\* The database fails while the rows are counted, or the final reconcile throws.
SPECIFICATION LoadSpec
CONSTANTS
    Periodic = {saveState}
    Once = {loadTorrents}
    Manual = {reconcile}
    LoadJob = loadTorrents
    ReconcileJob = reconcile
    MaxSuspends = 1
    MaxReady = 2
    QueuedRows = 1
    UnqueuedRows = 0
    ChunkSize = 2
    MaxChunkErrors = 2
    Faults = {"count", "reconcile"}
PROPERTIES LoadCompletes
CHECK_DEADLOCK FALSE
