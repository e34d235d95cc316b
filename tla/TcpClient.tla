------------------------------ MODULE TcpClient ------------------------------
(***************************************************************************)
(* A TCP client of a plugin (src/lua/types/potcpclient.cpp): it resolves    *)
(* and connects, shakes hands, reads and writes, with one timer for all.    *)
(* asio runs the operations and queues their handlers; a close cancels what *)
(* has not ended, but a handler that is queued runs with the result it has. *)
(***************************************************************************)
EXTENDS Naturals, Sequences, FiniteSets, SequencesExt

CONSTANTS
    Connects, Handshakes, Reads, Writes,  \* the calls of connect, tls, read (or read_exactly) and write
    ConnectTimeout, ReadTimeout,          \* are the options given?
    MaxCalls                              \* bound on the calls that are made

ASSUME TcpAssumption == ConnectTimeout \in BOOLEAN /\ ReadTimeout \in BOOLEAN /\ MaxCalls \in Nat

Calls == Connects \cup Handshakes \cup Reads \cup Writes

VARIABLES
    loaded,        \* the LuaState of the plugin exists
    stage,         \* per call: what asio does for it
    result,        \* per call: "none" until asio has queued the handler
    answers,       \* history: per call, how often its callback ran, at most 2
    isOpen,        \* m_socket is open
    closed,        \* m_closed
    peerClosed,    \* m_peer_closed
    readPending,   \* m_read_pending
    queue,         \* m_write_buffer
    writePending,  \* m_write_pending
    wakeups,       \* the WriteNext calls that are posted
    deadline,      \* the timer of the current generation, and the call that armed it
    submitted,     \* history: the writes in the order of the calls
    sent           \* history: the writes in the order in which they reached the socket

netVars == <<isOpen, closed>>
readVars == <<peerClosed, readPending>>
writeVars == <<queue, writePending, wakeups, submitted, sent>>
tcpVars == <<loaded, stage, result, answers, netVars, readVars, writeVars, deadline>>

InAsio == {"resolve", "connect", "handshake", "read", "write"}

NoDeadline == [state |-> "none", for |-> "nobody"]

\* Arm: the generation changes even without a timeout.
ArmDeadline(o, given) == deadline' = IF given THEN [state |-> "armed", for |-> o] ELSE NoDeadline

\* Mutant: the timer is cancelled and the generation stays, so a queued handler runs.
BugDisarm == deadline' = IF deadline.state = "ready" THEN deadline ELSE NoDeadline

Disarm == deadline' = NoDeadline

\* The plugin makes the call o.
MayCall(o) == loaded /\ stage[o] = "new" /\ Cardinality({p \in Calls : stage[p] # "new"}) < MaxCalls

At(o, st, r) == stage' = [stage EXCEPT ![o] = st] /\ result' = [result EXCEPT ![o] = r]

\* InvokeCallback, while the plugin is there; the call is over either way.
EndCall(o) ==
    /\ At(o, "over", "none")
    /\ answers' = [answers EXCEPT ![o] = IF loaded /\ @ < 2 THEN @ + 1 ELSE @]

-----------------------------------------------------------------------------
(* Connecting                                                                 *)

Connect(o) ==
    /\ o \in Connects /\ MayCall(o)
    /\ At(o, "resolve", "none")
    /\ ArmDeadline(o, ConnectTimeout)
    /\ UNCHANGED <<loaded, answers, netVars, readVars, writeVars>>

\* Mutant: the return is missing, so a failed resolve is answered and goes on to connect.
BugResolveComplete(o) ==
    /\ stage[o] = "resolve" /\ result[o] # "none"
    /\ At(o, "connect", "none") /\ isOpen' = TRUE
    /\ IF loaded /\ result[o] = "error"
       THEN Disarm /\ answers' = [answers EXCEPT ![o] = @ + 1]
       ELSE UNCHANGED <<answers, deadline>>
    /\ UNCHANGED <<loaded, closed, readVars, writeVars>>

\* ResolveComplete goes on to async_connect without a look at m_closed.
ResolveComplete(o) ==
    /\ stage[o] = "resolve" /\ result[o] # "none"
    /\ IF loaded /\ result[o] = "ok"
       THEN At(o, "connect", "none") /\ isOpen' = TRUE /\ UNCHANGED <<answers, deadline>>
       ELSE /\ EndCall(o) /\ UNCHANGED isOpen
            /\ IF loaded THEN Disarm ELSE UNCHANGED deadline
    /\ UNCHANGED <<loaded, closed, readVars, writeVars>>

\* ConnectComplete and HandshakeComplete.
ConnectComplete(o) ==
    /\ stage[o] \in {"connect", "handshake"} /\ result[o] # "none"
    /\ Disarm
    /\ EndCall(o)
    /\ UNCHANGED <<loaded, netVars, readVars, writeVars>>

\* StartTls: the options are refused with a posted error, or the handshake starts.
StartTls(o) ==
    /\ o \in Handshakes /\ MayCall(o)
    /\ \/ At(o, "posted", "error") /\ UNCHANGED deadline
       \/ At(o, "handshake", "none") /\ ArmDeadline(o, ConnectTimeout)
    /\ UNCHANGED <<loaded, answers, netVars, readVars, writeVars>>

TlsRefused(o) ==
    /\ o \in Handshakes /\ stage[o] = "posted"
    /\ EndCall(o)
    /\ UNCHANGED <<loaded, netVars, readVars, writeVars, deadline>>

-----------------------------------------------------------------------------
(* Reading and writing                                                        *)

\* Read and ReadExactly: one at a time; after the end of the stream the answer is posted.
Read(o) ==
    /\ o \in Reads /\ MayCall(o) /\ ~readPending
    /\ readPending' = TRUE
    /\ IF peerClosed
       THEN At(o, "posted", "eof") /\ UNCHANGED deadline
       ELSE At(o, "read", "none") /\ ArmDeadline(o, ReadTimeout)
    /\ UNCHANGED <<loaded, answers, netVars, peerClosed, writeVars>>

ReadComplete(o) ==
    /\ o \in Reads /\ stage[o] \in {"read", "posted"} /\ result[o] # "none"
    /\ readPending' = FALSE
    /\ peerClosed' = (peerClosed \/ result[o] = "eof")
    /\ Disarm
    /\ EndCall(o)
    /\ UNCHANGED <<loaded, netVars, writeVars>>

Write(o) ==
    /\ o \in Writes /\ MayCall(o)
    /\ At(o, "queued", "none")
    /\ queue' = Append(queue, o) /\ wakeups' = wakeups + 1
    /\ submitted' = Append(submitted, o)
    /\ UNCHANGED <<loaded, answers, netVars, readVars, writePending, sent, deadline>>

\* Mutant: a write is started while another is in progress.
BugMayWrite == queue # <<>>

MayWrite == ~writePending /\ queue # <<>>

WriteNext ==
    /\ wakeups > 0
    /\ wakeups' = wakeups - 1
    /\ IF MayWrite
       THEN /\ writePending' = TRUE
            /\ At(Head(queue), "write", "none")
            /\ sent' = Append(sent, Head(queue))
       ELSE UNCHANGED <<writePending, stage, result, sent>>
    /\ UNCHANGED <<loaded, answers, netVars, readVars, queue, submitted, deadline>>

\* The end of WriteComplete: nothing is posted once the plugin is gone.
WakeupsAfterWrite == IF loaded THEN wakeups + 1 ELSE wakeups

\* WriteComplete takes the front of the queue for its own.
WriteComplete(o) ==
    /\ stage[o] = "write" /\ result[o] # "none"
    /\ queue' = Tail(queue) /\ writePending' = FALSE
    /\ EndCall(Head(queue))
    /\ wakeups' = WakeupsAfterWrite
    /\ UNCHANGED <<loaded, netVars, readVars, submitted, sent, deadline>>

-----------------------------------------------------------------------------
(* asio, the timer and the end                                                *)

\* asio ends an operation and queues its handler.  Only an open socket gives a success.
AsioEnds(o) ==
    /\ stage[o] \in InAsio /\ result[o] = "none"
    /\ \E r \in {"ok", "eof", "error"} :
          /\ r = "eof" => stage[o] = "read"
          /\ r \in {"ok", "eof"} => isOpen \/ stage[o] = "resolve"
          /\ result' = [result EXCEPT ![o] = r]
    /\ UNCHANGED <<loaded, stage, answers, netVars, readVars, writeVars, deadline>>

\* Close: what has not ended is cancelled.  A second Close does nothing.
Close ==
    IF closed
    THEN UNCHANGED <<result, netVars, deadline>>
    ELSE /\ closed' = TRUE /\ isOpen' = FALSE
         /\ Disarm
         /\ result' = [o \in Calls |-> IF stage[o] \in InAsio /\ result[o] = "none" THEN "error" ELSE result[o]]

\* close, from Lua.
CloseCall ==
    /\ loaded
    /\ Close
    /\ UNCHANGED <<loaded, stage, answers, readVars, writeVars>>

DeadlineExpires ==
    /\ deadline.state = "armed"
    /\ deadline' = [deadline EXCEPT !.state = "ready"]
    /\ UNCHANGED <<loaded, stage, result, answers, netVars, readVars, writeVars>>

\* The handler of the timer of the current generation: m_timed_out only words the errors.
TimedOut ==
    /\ deadline.state = "ready"
    /\ IF closed THEN deadline' = NoDeadline /\ UNCHANGED <<result, netVars>> ELSE Close
    /\ UNCHANGED <<loaded, stage, answers, readVars, writeVars>>

\* ~LuaState closes the clients of the plugin.
UnloadTcp ==
    /\ loaded
    /\ loaded' = FALSE
    /\ Close
    /\ UNCHANGED <<stage, answers, readVars, writeVars>>

TcpInit ==
    /\ loaded = TRUE
    /\ stage = [o \in Calls |-> "new"] /\ result = [o \in Calls |-> "none"] /\ answers = [o \in Calls |-> 0]
    /\ isOpen = FALSE /\ closed = FALSE /\ peerClosed = FALSE /\ readPending = FALSE
    /\ queue = <<>> /\ writePending = FALSE /\ wakeups = 0 /\ submitted = <<>> /\ sent = <<>>
    /\ deadline = NoDeadline

TcpNext ==
    \/ \E o \in Calls : \/ Connect(o) \/ ResolveComplete(o) \/ ConnectComplete(o) \/ StartTls(o) \/ TlsRefused(o)
                        \/ Read(o) \/ ReadComplete(o) \/ Write(o) \/ WriteComplete(o) \/ AsioEnds(o)
    \/ WriteNext \/ CloseCall \/ DeadlineExpires \/ TimedOut \/ UnloadTcp

TcpSpec == TcpInit /\ [][TcpNext]_tcpVars

-----------------------------------------------------------------------------
(* Properties                                                                 *)

\* What the plugin knows of a call.
CallStatus(o) ==
    IF answers[o] > 0 THEN IF answers[o] = 1 /\ stage[o] = "over" THEN "answered" ELSE "answered twice"
    ELSE IF ~loaded THEN "dropped"
    ELSE IF stage[o] = "new" THEN "new" ELSE "pending"

TcpStatus == [o \in Calls |-> CallStatus(o)]

TcpContract == INSTANCE OneAnswer WITH Ops <- Calls, Owned <- Calls, status <- TcpStatus

\* PoTcpClient implements OneAnswer: whatever order the results, timeouts, closes and the
\* unload come in, a callback that was registered runs once or goes with the plugin.
TcpAnswersOnce == TcpContract!Spec

\* WriteNext and WriteComplete: the data of two writes never mix and keep the order of the
\* calls, and a write that waits has a wake-up on the way.
WritesInOrder ==
    /\ IsPrefix(sent, submitted)
    /\ \A o, p \in Writes : stage[o] = "write" /\ stage[p] = "write" => o = p
    /\ loaded /\ queue # <<>> => writePending \/ wakeups > 0

\* Arm and Disarm: "the generation check stops a timer that fired just as its operation
\* completed from closing the client".  The timer that can still close the client belongs
\* to a call that has not been answered.
NoStaleDeadline == ~closed /\ deadline.state # "none" => stage[deadline.for] \in InAsio
=============================================================================
