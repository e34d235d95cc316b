\* One torrent, stored as a magnet or new, with every request and job but the updates.
SPECIFICATION Spec
CONSTANTS
    None = None
    Torrents = {t1}
    AlertLimit = 2
    MaxAdds = 1
    MaxChanges = 1
    StoredForms = {"half"}
    Ops = {"remove", "configure", "queue", "metadata", "saveState", "stop"}
INVARIANTS EventsMatch   DataOwned
PROPERTIES RowKept
