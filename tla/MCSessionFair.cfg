\* An alert queue of one, so that any alert may be dropped, and the jobs that make it good.
SPECIFICATION FairSpec
CONSTANTS
    None = None
    Torrents = {t1}
    AlertLimit = 1
    MaxAdds = 1
    MaxChanges = 0
    StoredForms = {}
    Ops = {"remove", "metadata", "update", "saveState"}
PROPERTIES BecomesCurrent 
