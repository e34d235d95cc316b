\* One torrent that has its files, or some of them, when it is checked first.
SPECIFICATION FlagsSpec
CONSTANTS
    MaxTorrentAlerts = 2
    MaxTorrentRestarts = 0
INVARIANT FirstIsAnnounced
CHECK_DEADLOCK FALSE
