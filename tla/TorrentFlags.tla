---------------------------- MODULE TorrentFlags ----------------------------
(***************************************************************************)
(* The flags of one torrent and the requests that change them (the methods  *)
(* torrents.pause, resume, properties.set, files.prioritize and recheck of  *)
(* src/rpc/methods/torrents.cpp, Session::Recheck), and the handlers of the *)
(* alerts that end a check and a download                                   *)
(* (src/sessions/handlers/torrents.cpp).  Requests and alerts interleave:   *)
(* an alert is handled some time after libtorrent has posted it, or is      *)
(* dropped when the queue is full.                                          *)
(***************************************************************************)
EXTENDS Naturals, Sequences

CONSTANTS
    MaxTorrentAlerts,   \* bound on the alerts that wait
    MaxTorrentRestarts  \* bound on the restarts

ASSUME TorrentFlagsAssumption == MaxTorrentAlerts \in Nat /\ MaxTorrentRestarts \in Nat

Paused == "paused"
Managed == "auto_managed"
NotSet == {"not set"}

VARIABLES
    flags,     \* of paused and auto_managed, the ones the torrent has
    restore,   \* restore_after_check
    checking,  \* libtorrent checks the files, or will when the torrent runs
    missing,   \* a wanted file is not complete
    payload,   \* total_payload_download > 0
    alerts,    \* the checked and finished alerts that are not read
    completed, \* completed_at is set
    saved,     \* the flags in the resume data of the row
    restarts,
    asked,     \* history: what the last request for flags asked for
    meddled,   \* history: the flags changed, an alert was lost or the program ended in a check
    paidEnd,   \* history: a finished alert was handled when there was payload
    firsts     \* history: the torrent.finished events with first, at most 2

flagVars == <<flags, restore, checking, missing, payload, alerts, completed, saved, restarts,
              asked, meddled, paidEnd, firsts>>

\* How a torrent is to run: libtorrent pauses and resumes the ones it manages.
AskedOf(f) == IF Managed \in f THEN "managed" ELSE IF Paused \in f THEN "paused" ELSE "running"

-----------------------------------------------------------------------------
(* Requests                                                                   *)

SetFlags(f) ==
    /\ flags' = f
    /\ asked' = AskedOf(f)
    /\ meddled' = (restore # NotSet)
    /\ UNCHANGED <<restore, checking, missing, payload, alerts, completed, saved, restarts, paidEnd, firsts>>

PauseTorrent == SetFlags((flags \ {Managed}) \cup {Paused})

ResumeTorrent == SetFlags(flags \ {Paused})

\* PropertiesSet with flags and flags_mask.
PropertiesSet(f, mask) == SetFlags((flags \ mask) \cup (f \cap mask))

\* Mutant: a second recheck remembers the flags of the first one.
BugRemembered == flags

\* Recheck remembers flags only when it changes them.
Remembered == IF flags # {} THEN flags ELSE restore

\* Session::Recheck runs the torrent unmanaged for the check.
Recheck ==
    /\ restore' = Remembered
    /\ flags' = {}
    /\ checking' = TRUE
    /\ UNCHANGED <<missing, payload, alerts, completed, saved, restarts, asked, meddled, paidEnd, firsts>>

Post(as) == IF Len(alerts) + Len(as) <= MaxTorrentAlerts THEN alerts \o as ELSE alerts

Lost(as) == Len(alerts) + Len(as) > MaxTorrentAlerts

Finished == "finished"
Checked == "checked"

\* FilesPrioritize: a file is wanted, or the last incomplete one is not any more.
FilesPrioritize ==
    /\ ~checking
    /\ missing' = ~missing
    /\ alerts' = IF missing THEN Post(<<Finished>>) ELSE alerts
    /\ UNCHANGED <<flags, restore, checking, payload, completed, saved, restarts, asked, meddled, paidEnd, firsts>>

-----------------------------------------------------------------------------
(* libtorrent                                                                 *)

\* Auto management.
Manage ==
    /\ Managed \in flags
    /\ flags' = IF Paused \in flags THEN flags \ {Paused} ELSE flags \cup {Paused}
    /\ UNCHANGED <<restore, checking, missing, payload, alerts, completed, saved, restarts, asked, meddled, paidEnd, firsts>>

\* The check of a torrent that runs ends, and may find that data is missing.
CheckEnds(bad) ==
    LET as == <<Checked>> \o (IF missing \/ bad THEN <<>> ELSE <<Finished>>)
    IN  /\ checking /\ Paused \notin flags
        /\ checking' = FALSE
        /\ missing' = (missing \/ bad)
        /\ alerts' = Post(as)
        /\ meddled' = (meddled \/ Lost(as))
        /\ UNCHANGED <<flags, restore, payload, completed, saved, restarts, asked, paidEnd, firsts>>

\* The last wanted piece arrives.
Download ==
    /\ ~checking /\ missing /\ Paused \notin flags
    /\ missing' = FALSE /\ payload' = TRUE
    /\ alerts' = Post(<<Finished>>)
    /\ UNCHANGED <<flags, restore, checking, completed, saved, restarts, asked, meddled, paidEnd, firsts>>

-----------------------------------------------------------------------------
(* Alert handlers                                                             *)

\* OnTorrentCheckedAlert puts the flags back: auto_managed, then paused.
OnTorrentChecked ==
    /\ alerts # <<>> /\ Head(alerts) = Checked
    /\ alerts' = Tail(alerts)
    /\ restore' = NotSet
    /\ flags' = IF restore = NotSet THEN flags ELSE flags \cup restore
    /\ UNCHANGED <<checking, missing, payload, completed, saved, restarts, asked, meddled, paidEnd, firsts>>

\* OnTorrentFinishedAlert, with the status of the moment.
OnTorrentFinished ==
    /\ alerts # <<>> /\ Head(alerts) = Finished
    /\ alerts' = Tail(alerts)
    /\ completed' = TRUE
    /\ paidEnd' = (paidEnd \/ payload)
    /\ firsts' = IF ~completed /\ payload /\ firsts < 2 THEN firsts + 1 ELSE firsts
    /\ UNCHANGED <<flags, restore, checking, missing, payload, saved, restarts, asked, meddled>>

\* Resume data is saved, with the flags of the moment.
SaveFlags ==
    /\ saved # flags
    /\ saved' = flags
    /\ UNCHANGED <<flags, restore, checking, missing, payload, alerts, completed, restarts, asked, meddled, paidEnd, firsts>>

\* The program ends and starts again; the files are checked.
RestartTorrent ==
    /\ restarts < MaxTorrentRestarts
    /\ restarts' = restarts + 1
    /\ flags' = saved /\ restore' = NotSet /\ checking' = TRUE /\ alerts' = <<>> /\ payload' = FALSE
    /\ meddled' = (meddled \/ AskedOf(saved) # asked)
    /\ UNCHANGED <<missing, completed, saved, asked, paidEnd, firsts>>

FlagsInit ==
    /\ flags \in SUBSET {Paused, Managed} /\ saved = flags
    /\ restore = NotSet /\ checking = TRUE /\ missing \in BOOLEAN /\ payload = FALSE /\ alerts = <<>>
    /\ completed = FALSE /\ restarts = 0
    /\ asked = AskedOf(flags) /\ meddled = FALSE /\ paidEnd = FALSE /\ firsts = 0

FlagsNext ==
    \/ PauseTorrent \/ ResumeTorrent \/ Recheck \/ FilesPrioritize
    \/ \E f, mask \in SUBSET {Paused, Managed} : PropertiesSet(f, mask)
    \/ Manage \/ Download \/ \E bad \in BOOLEAN : CheckEnds(bad)
    \/ OnTorrentChecked \/ OnTorrentFinished \/ SaveFlags \/ RestartTorrent

FlagsSpec == FlagsInit /\ [][FlagsNext]_flagVars

-----------------------------------------------------------------------------
(* Properties                                                                 *)

\* Session::Recheck, "put the flags back when torrent_checked arrives": however many checks a
\* user asks for, and whenever their alerts are handled, the torrent runs as it was asked to
\* when no flags are remembered, unless the flags were changed during the check, its alert was
\* lost, or the program ended.
FlagsRestored == restore = NotSet /\ ~meddled => AskedOf(flags) = asked

\* OnTorrentFinishedAlert, "'first' is true exactly once per torrent - the first time it
\* finishes with payload we downloaded": once such an end was handled there was a first.
FirstIsAnnounced == paidEnd => firsts = 1
=============================================================================
