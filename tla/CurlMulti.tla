------------------------------ MODULE CurlMulti ------------------------------
(***************************************************************************)
(* The HTTP client: libcurl's multi handle driven by asio                   *)
(* (src/curlmulti.cpp), and the requests of plugins on top of it            *)
(* (src/lua/packages/httpclient.cpp).  libcurl says through two callbacks   *)
(* which sockets it wants to read or write and when it wants to be called;  *)
(* the code must wait for just that, once per direction, although libcurl   *)
(* closes a socket and gets its descriptor again while handlers of the old  *)
(* socket are queued.                                                       *)
(*                                                                         *)
(* All calls come from the io thread, where a dispatch to the strand runs   *)
(* at once.  libcurl is a choice: every call of it may change what it wants *)
(* of a socket, close or open it, set the timer and end transfers.  The ids *)
(* of sockets and the generations of timers only tell the current ones from *)
(* the old ones, and the model keeps only that.                             *)
(***************************************************************************)
EXTENDS Naturals, FiniteSets

CONSTANTS
    Transfers,   \* one per call of AddTransfer
    Owned,       \* the transfers that are requests of a plugin
    Sockets,     \* the descriptors libcurl gets
    MaxRedrives  \* bound on the re-drives posted for one socket

ASSUME CurlAssumption == MaxRedrives \in Nat /\ Owned \subseteq Transfers

In == "in"
Out == "out"
Directions == {In, Out}

VARIABLES
    shutdown,   \* m_shutdown
    hasPlugin,  \* the LuaState of the plugin that owns transfers exists
    transfers,  \* m_transfers
    answer,     \* per transfer: "none", "posted", "given" or "dropped"
    calls,      \* history: how often the callback of a transfer was called, at most 2
    sock,       \* per descriptor, see Closed
    old,        \* per descriptor: the directions in which a removed socket has a queued handler
    redrives,   \* per descriptor: the DriveSocket calls that are posted
    readable,   \* per descriptor: poll reports POLLIN
    timer,      \* the wait for m_timer: "none", "armed" or "ready"
    oldTimer    \* a handler of an older generation is queued

curlVars == <<shutdown, hasPlugin, transfers, answer, calls, sock, old, redrives, readable, timer, oldTimer>>

\* SocketState: the mask libcurl asked for, the flags reading and writing, and the waits
\* that asio has.  A closed socket is not in m_sockets.
Closed == [open |-> FALSE, want |-> {}, flight |-> {}, waits |-> [d \in Directions |-> 0]]

-----------------------------------------------------------------------------
(* The callbacks of libcurl                                                  *)

\* Mutant: a wait is started without a look at the flags.
BugArmSocket(s) ==
    [s EXCEPT !.flight = @ \cup s.want,
              !.waits = [d \in Directions |-> IF d \in s.want /\ @[d] < 2 THEN @[d] + 1 ELSE @[d]]]

\* ArmSocket: a wait for every wanted direction that has none.
ArmSocket(s) ==
    LET new == s.want \ s.flight
    IN  [s EXCEPT !.flight = @ \cup new,
                  !.waits = [d \in Directions |-> IF d \in new THEN @[d] + 1 ELSE @[d]]]

\* OnSocketUpdate, with what libcurl may say of a descriptor in one call: nothing, remove
\* it, watch it, or remove it and watch a new socket that has the same descriptor.  dup may
\* fail for a new socket, which then is not watched at all.
SocketUpdates(s) ==
    LET Watched(base) == {ArmSocket([base EXCEPT !.open = TRUE, !.want = want]) : want \in SUBSET Directions}
    IN  {[now |-> n, removed |-> FALSE] : n \in {s} \cup Watched(s)}
        \cup {[now |-> n, removed |-> TRUE] : n \in {x \in {Closed} \cup Watched(Closed) : s.open}}

\* The handlers of a removed socket: the waits end with operation_aborted.
LeftOver(f, s, u) == IF u.removed THEN old[f] \cup {d \in Directions : s.waits[d] > 0} ELSE old[f]

\* TimerCallback: libcurl leaves the timer, clears it or sets it.  A handler that expired
\* before the cancel is queued with an older generation.
TimerUpdate(now) ==
    \E u \in {<<now, oldTimer>>} \cup ({"armed", "none"} \X {oldTimer \/ now = "ready"}) :
        timer' = u[1] /\ oldTimer' = u[2]

-----------------------------------------------------------------------------
(* The end of transfers                                                       *)

Called(ts) == [t \in Transfers |-> IF t \in ts /\ calls[t] < 2 THEN calls[t] + 1 ELSE calls[t]]

\* The callback of a transfer posts the answer; a plugin's does nothing once the plugin is gone.
Posted(ts) ==
    [t \in Transfers |->
        IF t \notin ts THEN answer[t] ELSE IF t \in Owned /\ ~hasPlugin THEN "dropped" ELSE "posted"]

\* Mutant: the transfer stays in the map, and is ended again.
BugErased(all, ts) == all

\* FinishTransfer erases the transfer before it calls back.
Erased(all, ts) == all \ ts

\* FinishTransfer for every transfer of ts, of those in all.
FinishTransfers(all, ts) ==
    /\ transfers' = Erased(all, ts)
    /\ calls' = Called(ts)
    /\ answer' = Posted(ts)

\* SocketAction and CheckCompleted: libcurl updates a socket f, which is in state s, and the
\* timer, and ends transfers of all.
SocketAction(f, s, u, all, ended, timerNow) ==
    /\ FinishTransfers(all, ended)
    /\ old' = [old EXCEPT ![f] = LeftOver(f, s, u)]
    /\ TimerUpdate(timerNow)

\* The call with CURL_SOCKET_TIMEOUT may update any socket.
SocketTimeout(all, endable, timerNow) ==
    \E f \in Sockets, ended \in endable : \E u \in SocketUpdates(sock[f]) :
        /\ SocketAction(f, sock[f], u, all, ended, timerNow)
        /\ sock' = [sock EXCEPT ![f] = u.now]
        /\ readable' = [readable EXCEPT ![f] = @ /\ ~u.removed]
        /\ UNCHANGED redrives

-----------------------------------------------------------------------------
(* Requests                                                                   *)

IsNew(t) == calls[t] = 0 /\ t \notin transfers /\ answer[t] = "none" /\ (t \in Owned => hasPlugin)

\* HttpGet without an easy handle, DoAddTransfer after Shutdown or with an error of libcurl:
\* the callback is called at once.
AddRefused(t) ==
    /\ IsNew(t)
    /\ calls' = Called({t}) /\ answer' = Posted({t})
    /\ UNCHANGED <<shutdown, hasPlugin, transfers, sock, old, redrives, readable, timer, oldTimer>>

\* DoAddTransfer: in the map, then into libcurl, which is kicked.
AddTransfer(t) ==
    /\ ~shutdown /\ IsNew(t)
    /\ SocketTimeout(transfers \cup {t}, SUBSET (transfers \cup {t}), timer)
    /\ UNCHANGED <<shutdown, hasPlugin>>

\* CancelTransfer, from the cancellation slot that HttpGet sets and the completion clears.
\* curl_multi_remove_handle may update a socket and the timer.
CancelTransfer(t) ==
    /\ ~shutdown /\ t \in transfers \ Owned
    /\ SocketTimeout(transfers, {{t}}, timer)
    /\ UNCHANGED <<shutdown, hasPlugin>>

\* The posted completion runs: CompleteHttp, or the callback of a plugin if it is still there.
Complete(t) ==
    /\ answer[t] = "posted"
    /\ answer' = [answer EXCEPT ![t] = IF t \in Owned /\ ~hasPlugin THEN "dropped" ELSE "given"]
    /\ UNCHANGED <<shutdown, hasPlugin, transfers, calls, sock, old, redrives, readable, timer, oldTimer>>

\* The plugin is unloaded; its transfers go on.
UnloadPlugin ==
    /\ hasPlugin
    /\ hasPlugin' = FALSE
    /\ UNCHANGED <<shutdown, transfers, answer, calls, sock, old, redrives, readable, timer, oldTimer>>

\* What Shutdown ends: every handle it was given.
Orphans == transfers

\* Shutdown: libcurl's callbacks are detached first, then the transfers and the sockets go.
Shutdown ==
    /\ ~shutdown
    /\ shutdown' = TRUE
    /\ transfers' = {} /\ calls' = Called(Orphans) /\ answer' = Posted(Orphans)
    /\ sock' = [f \in Sockets |-> Closed]
    /\ old' = [f \in Sockets |-> LeftOver(f, sock[f], [removed |-> sock[f].open])]
    /\ readable' = [f \in Sockets |-> FALSE]
    /\ timer' = "none" /\ oldTimer' = (oldTimer \/ timer = "ready")
    /\ UNCHANGED <<hasPlugin, redrives>>

-----------------------------------------------------------------------------
(* What asio calls                                                            *)

\* Data arrives on a socket.
Data(f) ==
    /\ sock[f].open /\ ~readable[f]
    /\ readable' = [readable EXCEPT ![f] = TRUE]
    /\ UNCHANGED <<shutdown, hasPlugin, transfers, answer, calls, sock, old, redrives, timer, oldTimer>>

\* StillReadable, and the conditions next to it.
DriveAgain(s, mask, running, more) == mask = In /\ running /\ s.open /\ In \in s.want /\ more

\* The end of DriveSocket: a socket that is driven again is not armed here.
AfterDrive(s, again) == IF s.open /\ ~again THEN ArmSocket(s) ELSE s

\* DriveSocket on socket f in state s, with n re-drives posted.  libcurl may leave data.
DriveSocket(f, s, mask, n) ==
    \E ended \in SUBSET transfers, u \in SocketUpdates(s) : \E left \in {FALSE, readable[f] /\ ~u.removed} :
        LET again == DriveAgain(u.now, mask, transfers \ ended # {}, left)
        IN  /\ SocketAction(f, s, u, transfers, ended, timer)
            /\ sock' = [sock EXCEPT ![f] = AfterDrive(u.now, again)]
            /\ redrives' = [redrives EXCEPT ![f] = IF again THEN n + 1 ELSE n]
            /\ redrives'[f] <= MaxRedrives
            /\ readable' = [readable EXCEPT ![f] = left]

\* The wait in direction d ends, and its flag is cleared.
WaitEnds(f, d) == [sock[f] EXCEPT !.flight = @ \ {d}, !.waits[d] = @ - 1]

\* OnSocketReady for the current socket.
SocketReady(f, d) ==
    /\ sock[f].waits[d] > 0 /\ (d = In => readable[f])
    /\ DriveSocket(f, WaitEnds(f, d), d, redrives[f])
    /\ UNCHANGED <<shutdown, hasPlugin>>

\* OnSocketReady with an error: libcurl is told, and removes the socket.
SocketError(f, d) ==
    /\ sock[f].waits[d] > 0
    /\ \E ended \in SUBSET transfers :
          SocketAction(f, WaitEnds(f, d), [removed |-> TRUE], transfers, ended, timer)
    /\ sock' = [sock EXCEPT ![f] = Closed]
    /\ readable' = [readable EXCEPT ![f] = FALSE]
    /\ UNCHANGED <<shutdown, hasPlugin, redrives>>

\* OnSocketReady finds another id than its own, and leaves the socket alone.
OldSocket(f, d) == sock[f]

OldSocketReady(f, d) ==
    /\ d \in old[f]
    /\ old' = [old EXCEPT ![f] = @ \ {d}]
    /\ sock' = [sock EXCEPT ![f] = OldSocket(f, d)]
    /\ UNCHANGED <<shutdown, hasPlugin, transfers, answer, calls, redrives, readable, timer, oldTimer>>

\* A posted re-drive; it names the descriptor only.
Redrive(f) ==
    /\ redrives[f] > 0
    /\ IF shutdown
       THEN /\ redrives' = [redrives EXCEPT ![f] = @ - 1]
            /\ UNCHANGED <<transfers, answer, calls, sock, old, readable, timer, oldTimer>>
       ELSE DriveSocket(f, sock[f], In, redrives[f] - 1)
    /\ UNCHANGED <<shutdown, hasPlugin>>

TimerExpires ==
    /\ timer = "armed"
    /\ timer' = "ready"
    /\ UNCHANGED <<shutdown, hasPlugin, transfers, answer, calls, sock, old, redrives, readable, oldTimer>>

\* OnTimeout of the current generation; its wait is over.
OnTimeout ==
    /\ timer = "ready"
    /\ SocketTimeout(transfers, SUBSET transfers, "none")
    /\ UNCHANGED <<shutdown, hasPlugin>>

\* OnTimeout of an older generation, or after Shutdown.
OldTimeout ==
    /\ oldTimer
    /\ oldTimer' = FALSE
    /\ UNCHANGED <<shutdown, hasPlugin, transfers, answer, calls, sock, old, redrives, readable, timer>>

CurlInit ==
    /\ shutdown = FALSE /\ hasPlugin = TRUE /\ transfers = {}
    /\ answer = [t \in Transfers |-> "none"] /\ calls = [t \in Transfers |-> 0]
    /\ sock = [f \in Sockets |-> Closed] /\ old = [f \in Sockets |-> {}]
    /\ redrives = [f \in Sockets |-> 0] /\ readable = [f \in Sockets |-> FALSE]
    /\ timer = "none" /\ oldTimer = FALSE

CurlNext ==
    \/ \E t \in Transfers : AddRefused(t) \/ AddTransfer(t) \/ CancelTransfer(t) \/ Complete(t)
    \/ UnloadPlugin \/ Shutdown
    \/ \E f \in Sockets : Data(f) \/ Redrive(f)
    \/ \E f \in Sockets, d \in Directions : SocketReady(f, d) \/ SocketError(f, d) \/ OldSocketReady(f, d)
    \/ TimerExpires \/ OnTimeout \/ OldTimeout

CurlSpec == CurlInit /\ [][CurlNext]_curlVars

-----------------------------------------------------------------------------
(* Properties                                                                 *)

\* What the caller of a transfer has.  A transfer that is called back twice is "lost", and one
\* that leaves the map without its callback is "new" again, which OneAnswer does not allow.
TransferStatus(t) ==
    IF t \in Owned /\ ~hasPlugin /\ answer[t] # "given" THEN "dropped"
    ELSE CASE calls[t] = 0 -> IF t \in transfers THEN "pending" ELSE "new"
           [] calls[t] = 1 /\ answer[t] = "posted" -> "pending"
           [] calls[t] = 1 /\ answer[t] = "given" -> "answered"
           [] OTHER -> "lost"

CurlStatus == [t \in Transfers |-> TransferStatus(t)]

Contract == INSTANCE OneAnswer WITH Ops <- Transfers, Owned <- Owned, status <- CurlStatus

\* "Every handle we were given must get exactly one callback, otherwise whoever is waiting
\* on it hangs forever": the client implements OneAnswer, through cancellation, refusal,
\* failure, the unload of the plugin and Shutdown.
CurlAnswersOnce == Contract!Spec

\* CurlMulti never goes deaf, nor waits twice: what libcurl wants of an open socket has
\* exactly one wait, or, to read, a re-drive that is posted; and the flags say what waits
\* there are.
NeverDeaf ==
    \A f \in Sockets :
        /\ \A d \in Directions : sock[f].waits[d] = (IF d \in sock[f].flight THEN 1 ELSE 0)
        /\ sock[f].open => sock[f].want \subseteq sock[f].flight \cup {d \in {In} : redrives[f] > 0}
=============================================================================
