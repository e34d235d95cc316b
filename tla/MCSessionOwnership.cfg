\* A torrent that is removed and added again, and the SaveState job.
SPECIFICATION Spec
CONSTANTS
    None = None
    Torrents = {t1}
    AlertLimit = 2
    MaxAdds = 2
    MaxChanges = 0
    StoredForms = {}
    Ops = {"remove", "saveState"}
INVARIANTS DataOwned
