----------------------------- MODULE LuaProofs ------------------------------
(***************************************************************************)
(* What a plugin's LuaState owns.  The network of plugins, for any sets of  *)
(* calls, transfers, descriptors and requests: PoTcpClient and the HTTP     *)
(* client answer each call once (OneAnswer), writes keep their order, a     *)
(* deadline is that of a call in progress, a socket that libcurl waits for  *)
(* is polled, and a response is held until it is ended.  Then its events    *)
(* and timers (PluginState), for any names, any number of ids and any       *)
(* number of events: RegistrationsEnd and EventsKept.                       *)
(***************************************************************************)
EXTENDS TcpClient, HttpServer, CurlMulti, PluginState, TLAPS

-----------------------------------------------------------------------------
(* The TCP client                                                             *)

Stages == {"new", "queued", "posted", "over"} \cup InAsio

Waiting == Stages \ {"new", "over"}

\* The shape of what the answers depend on.
TcpTypeOK ==
    /\ loaded \in BOOLEAN
    /\ stage \in [Calls -> Stages]
    /\ answers \in [Calls -> 0..1]
    /\ queue \in Seq(Calls)

\* A callback has run only for a call that is over.
AnsweredIsOver == \A o \in Calls : answers[o] = 1 => stage[o] = "over"

\* The writes in the buffer wait for their answer, and each is there once.
QueueWaits ==
    /\ \A i \in 1..Len(queue) : stage[queue[i]] \in {"queued", "write"}
    /\ \A i, j \in 1..Len(queue) : queue[i] = queue[j] => i = j

\* WriteComplete takes the front of the buffer: the write that asio does is there.
WriteIsFront == \A o \in Calls : stage[o] = "write" => queue # <<>> /\ o = Head(queue)

TcpInv == TcpTypeOK /\ AnsweredIsOver /\ QueueWaits /\ WriteIsFront

\* A client that has made no call satisfies the invariant, and is an initial state of the contract.
LEMMA TcpInitInv == TcpInit => TcpInv /\ TcpContract!Init
<1> SUFFICES ASSUME TcpInit PROVE TcpInv /\ TcpContract!Init
  OBVIOUS
<1>1. TcpInv
  BY DEF TcpInit, TcpInv, TcpTypeOK, AnsweredIsOver, QueueWaits, WriteIsFront, Stages
<1>2. \A o \in Calls : CallStatus(o) = "new"
  BY DEF TcpInit, CallStatus
<1> QED BY <1>1, <1>2 DEF TcpContract!Init, TcpStatus

\* A call that is new becomes one that waits.
LEMMA CallStarts ==
    ASSUME TcpInv, NEW o \in Calls, loaded, stage[o] = "new", UNCHANGED <<loaded, answers>>,
           NEW st \in Waiting, stage' = [stage EXCEPT ![o] = st]
    PROVE  TcpContract!Start(o)
<1>1. answers[o] = 0
  BY DEF TcpInv, TcpTypeOK, AnsweredIsOver
<1>2. CallStatus(o) = "new" /\ CallStatus(o)' = "pending"
  BY <1>1 DEF CallStatus, TcpInv, TcpTypeOK, Waiting
<1>3. ASSUME NEW p \in Calls \ {o} PROVE CallStatus(p)' = CallStatus(p)
  BY DEF CallStatus, TcpInv, TcpTypeOK
<1> QED BY <1>2, <1>3 DEF TcpContract!Start, TcpContract!Moves, TcpStatus

\* A call that waits is answered, or stays without an answer.
LEMMA CallEnds ==
    ASSUME TcpInv, NEW o \in Calls, stage[o] \in Waiting, EndCall(o), UNCHANGED loaded
    PROVE  /\ TcpContract!Answer(o) \/ UNCHANGED TcpStatus
           /\ stage' = [stage EXCEPT ![o] = "over"] /\ answers' \in [Calls -> 0..1]
           /\ \A p \in Calls \ {o} : answers'[p] = answers[p]
<1>1. answers[o] = 0
  BY DEF TcpInv, TcpTypeOK, AnsweredIsOver, Waiting
<1>2. stage' = [stage EXCEPT ![o] = "over"] /\ answers' = [answers EXCEPT ![o] = IF loaded THEN 1 ELSE 0]
  BY <1>1 DEF EndCall, At, TcpInv, TcpTypeOK
<1>3. ASSUME NEW p \in Calls \ {o} PROVE CallStatus(p)' = CallStatus(p)
  BY <1>2 DEF CallStatus, TcpInv, TcpTypeOK
<1>4. CASE loaded
  <2>1. answers'[o] = 1 /\ stage'[o] = "over" /\ answers' \in [Calls -> 0..1]
    BY <1>2, <1>4 DEF TcpInv, TcpTypeOK
  <2>2. CallStatus(o) = "pending"
    BY <1>1, <1>4 DEF CallStatus, Waiting
  <2>3. CallStatus(o)' = "answered"
    BY <2>1 DEF CallStatus
  <2>4. TcpContract!Answer(o)
    BY <1>3, <2>2, <2>3 DEF TcpContract!Answer, TcpContract!Moves, TcpStatus
  <2> QED BY <1>2, <2>1, <2>4 DEF TcpInv, TcpTypeOK
<1>5. CASE ~loaded
  <2>1. CallStatus(o) = "dropped" /\ CallStatus(o)' = "dropped"
    <3>1. answers'[o] = 0
      BY <1>2, <1>5 DEF TcpInv, TcpTypeOK
    <3> QED BY <1>1, <1>5, <3>1 DEF CallStatus
  <2>2. answers' \in [Calls -> 0..1]
    BY <1>2, <1>5 DEF TcpInv, TcpTypeOK
  <2> QED BY <1>2, <1>3, <2>1, <2>2 DEF TcpStatus, TcpInv, TcpTypeOK
<1> QED BY <1>4, <1>5

\* A step that only moves calls that wait says nothing to the plugin.
LEMMA CallWaits ==
    ASSUME TcpInv, UNCHANGED <<loaded, answers>>,
           \A o \in Calls : stage'[o] = stage[o] \/ (stage[o] \in Waiting /\ stage'[o] \in Waiting)
    PROVE  UNCHANGED TcpStatus
<1>1. ASSUME NEW o \in Calls PROVE CallStatus(o)' = CallStatus(o)
  BY DEF CallStatus, TcpInv, TcpTypeOK, AnsweredIsOver, Waiting
<1> QED BY <1>1 DEF TcpStatus

\* A step that moves one call which is not in the buffer keeps the invariant.
LEMMA BesideQueue ==
    ASSUME TcpInv, NEW o \in Calls, stage[o] \notin {"queued", "write"}, UNCHANGED <<loaded, queue>>,
           NEW st \in Stages \ {"write"}, stage' = [stage EXCEPT ![o] = st],
           answers' \in [Calls -> 0..1], \A p \in Calls \ {o} : answers'[p] = answers[p],
           answers'[o] = answers[o] \/ st = "over", stage[o] # "over"
    PROVE  TcpInv'
<1>1. TcpTypeOK' /\ AnsweredIsOver'
  BY DEF TcpInv, TcpTypeOK, AnsweredIsOver
<1>2. \A i \in 1..Len(queue) : queue[i] \in Calls /\ queue[i] # o
  BY DEF TcpInv, TcpTypeOK, QueueWaits
<1>3. QueueWaits'
  BY <1>2 DEF TcpInv, TcpTypeOK, QueueWaits
<1>4. WriteIsFront'
  BY DEF TcpInv, TcpTypeOK, WriteIsFront
<1> QED BY <1>1, <1>3, <1>4 DEF TcpInv

\* Every step of the client keeps the invariant and is a step of the contract, or a stutter of it.
LEMMA TcpStep ==
    ASSUME TcpInv, [TcpNext]_tcpVars
    PROVE  TcpInv' /\ (TcpContract!Next \/ UNCHANGED TcpStatus)
<1> DEFINE Same == UNCHANGED TcpStatus
<1> DEFINE Goal == TcpInv' /\ (TcpContract!Next \/ Same)
<1> SUFFICES Goal
  OBVIOUS
<1>1. ASSUME NEW o \in Calls, NEW st \in {"resolve", "posted", "handshake", "read"}, MayCall(o),
             stage' = [stage EXCEPT ![o] = st], UNCHANGED <<loaded, answers, queue>>
      PROVE  Goal
  <2>1. loaded /\ stage[o] = "new" /\ st \in Waiting /\ st \in Stages \ {"write"}
    BY <1>1 DEF MayCall, Waiting, Stages, InAsio
  <2>2. TcpContract!Start(o)
    BY <1>1, <2>1, CallStarts
  <2>3. answers' \in [Calls -> 0..1] /\ \A p \in Calls : answers'[p] = answers[p]
    BY <1>1 DEF TcpInv, TcpTypeOK
  <2>4. TcpInv'
    BY <1>1, <2>1, <2>3, BesideQueue
  <2> QED BY <2>2, <2>4 DEF TcpContract!Next
<1>2. ASSUME NEW o \in Calls, stage[o] \in Waiting \ {"queued", "write"}, EndCall(o), UNCHANGED <<loaded, queue>>
      PROVE  Goal
  <2>1. /\ TcpContract!Answer(o) \/ Same
        /\ stage' = [stage EXCEPT ![o] = "over"] /\ answers' \in [Calls -> 0..1]
        /\ \A p \in Calls \ {o} : answers'[p] = answers[p]
    BY <1>2, CallEnds
  <2>2. TcpInv'
    BY <1>2, <2>1, BesideQueue DEF Waiting, Stages
  <2> QED BY <2>1, <2>2 DEF TcpContract!Next
<1>3. ASSUME UNCHANGED <<loaded, stage, answers, queue>> PROVE Goal
  <2>1. TcpInv'
    BY <1>3 DEF TcpInv, TcpTypeOK, AnsweredIsOver, QueueWaits, WriteIsFront
  <2>2. Same
    BY <1>3, CallWaits
  <2> QED BY <2>1, <2>2
<1>4. ASSUME NEW o \in Calls, Connect(o) PROVE Goal
  BY <1>1, <1>4 DEF Connect, At, writeVars
<1>5. ASSUME NEW o \in Calls, ResolveComplete(o) PROVE Goal
  <2>1. stage[o] = "resolve" /\ UNCHANGED <<loaded, queue>>
    BY <1>5 DEF ResolveComplete, writeVars
  <2>2. CASE loaded /\ result[o] = "ok"
    <3>1. stage' = [stage EXCEPT ![o] = "connect"] /\ UNCHANGED answers
      BY <1>5, <2>2 DEF ResolveComplete, At
    <3>2. Same
      BY <2>1, <3>1, CallWaits DEF TcpInv, TcpTypeOK, Waiting, Stages, InAsio
    <3>3. answers' \in [Calls -> 0..1] /\ \A p \in Calls : answers'[p] = answers[p]
      BY <3>1 DEF TcpInv, TcpTypeOK
    <3>4. TcpInv'
      BY <2>1, <3>1, <3>3, BesideQueue DEF Stages, InAsio
    <3> QED BY <3>2, <3>4
  <2>3. CASE ~(loaded /\ result[o] = "ok")
    <3>1. EndCall(o)
      BY <1>5, <2>3 DEF ResolveComplete
    <3> QED BY <1>2, <2>1, <3>1 DEF Waiting, Stages, InAsio
  <2> QED BY <2>2, <2>3
<1>6. ASSUME NEW o \in Calls, ConnectComplete(o) \/ TlsRefused(o) \/ ReadComplete(o) PROVE Goal
  <2>1. stage[o] \in {"connect", "handshake", "posted", "read"} /\ EndCall(o) /\ UNCHANGED <<loaded, queue>>
    BY <1>6 DEF ConnectComplete, TlsRefused, ReadComplete, writeVars
  <2> QED BY <1>2, <2>1 DEF Waiting, Stages, InAsio
<1>7. ASSUME NEW o \in Calls, StartTls(o) PROVE Goal
  BY <1>1, <1>7 DEF StartTls, At, writeVars
<1>8. ASSUME NEW o \in Calls, Read(o) PROVE Goal
  BY <1>1, <1>8 DEF Read, At, writeVars
<1>9. ASSUME NEW o \in Calls, Write(o) PROVE Goal
  <2>1. /\ loaded /\ stage[o] = "new" /\ stage' = [stage EXCEPT ![o] = "queued"]
        /\ queue' = Append(queue, o) /\ UNCHANGED <<loaded, answers>>
    BY <1>9 DEF Write, MayCall, At
  <2>2. TcpContract!Start(o)
    BY <2>1, CallStarts DEF Waiting, Stages, InAsio
  <2>3. TcpTypeOK' /\ AnsweredIsOver'
    BY <2>1 DEF TcpInv, TcpTypeOK, AnsweredIsOver, Stages
  <2>4. /\ Len(queue') = Len(queue) + 1 /\ queue'[Len(queue) + 1] = o
        /\ \A i \in 1..Len(queue) : queue'[i] = queue[i] /\ queue[i] \in Calls /\ queue[i] # o
    BY <2>1 DEF TcpInv, TcpTypeOK, QueueWaits
  <2>5. QueueWaits'
    BY <2>1, <2>4 DEF TcpInv, TcpTypeOK, QueueWaits
  <2>6. WriteIsFront'
    <3> SUFFICES ASSUME NEW p \in Calls, stage'[p] = "write" PROVE queue' # <<>> /\ p = Head(queue')
      BY DEF WriteIsFront
    <3>1. stage[p] = "write"
      BY <2>1 DEF TcpInv, TcpTypeOK
    <3>2. queue # <<>> /\ p = Head(queue)
      BY <3>1 DEF TcpInv, WriteIsFront
    <3> QED BY <2>1, <3>2 DEF TcpInv, TcpTypeOK
  <2> QED BY <2>2, <2>3, <2>5, <2>6 DEF TcpInv, TcpContract!Next
<1>10. CASE WriteNext
  <2>1. UNCHANGED <<loaded, answers, queue>>
    BY <1>10 DEF WriteNext
  <2>2. CASE MayWrite
    <3> DEFINE f == Head(queue)
    <3>1. queue # <<>> /\ stage' = [stage EXCEPT ![f] = "write"]
      BY <1>10, <2>2 DEF WriteNext, MayWrite, At
    <3>2. f \in Calls /\ 1 \in 1..Len(queue) /\ f = queue[1]
      BY <3>1 DEF TcpInv, TcpTypeOK
    <3>3. stage[f] \in {"queued", "write"}
      BY <3>2 DEF TcpInv, QueueWaits
    <3> HIDE DEF f
    <3>4. Same
      BY <2>1, <3>1, <3>2, <3>3, CallWaits DEF TcpInv, TcpTypeOK, Waiting, Stages, InAsio
    <3>5. TcpTypeOK' /\ AnsweredIsOver'
      BY <2>1, <3>1, <3>2, <3>3 DEF TcpInv, TcpTypeOK, AnsweredIsOver, Stages, InAsio
    <3>6. QueueWaits'
      BY <2>1, <3>1, <3>2 DEF TcpInv, TcpTypeOK, QueueWaits
    <3>7. WriteIsFront'
      BY <2>1, <3>1, <3>2 DEF TcpInv, TcpTypeOK, WriteIsFront, f
    <3> QED BY <3>4, <3>5, <3>6, <3>7 DEF TcpInv
  <2>3. CASE ~MayWrite
    BY <1>3, <1>10, <2>1, <2>3 DEF WriteNext
  <2> QED BY <2>2, <2>3
<1>11. ASSUME NEW o \in Calls, WriteComplete(o) PROVE Goal
  <2>1. stage[o] = "write" /\ queue' = Tail(queue) /\ UNCHANGED loaded
    BY <1>11 DEF WriteComplete
  <2>2. queue # <<>> /\ o = Head(queue)
    BY <2>1 DEF TcpInv, WriteIsFront
  <2>3. EndCall(o)
    BY <1>11, <2>2 DEF WriteComplete
  <2>4. /\ TcpContract!Answer(o) \/ Same
        /\ stage' = [stage EXCEPT ![o] = "over"] /\ answers' \in [Calls -> 0..1]
        /\ \A p \in Calls \ {o} : answers'[p] = answers[p]
    BY <2>1, <2>3, CallEnds DEF Waiting, Stages, InAsio
  <2>5. TcpTypeOK' /\ AnsweredIsOver'
    BY <2>1, <2>2, <2>4 DEF TcpInv, TcpTypeOK, AnsweredIsOver, Stages
  <2>6. \A i \in 1..Len(queue') : i + 1 \in 1..Len(queue) /\ queue'[i] = queue[i + 1] /\ queue[i + 1] # o /\ queue[i + 1] \in Calls
    BY <2>1, <2>2 DEF TcpInv, TcpTypeOK, QueueWaits
  <2>7. QueueWaits'
    <3>1. ASSUME NEW i \in 1..Len(queue') PROVE stage'[queue'[i]] \in {"queued", "write"}
      BY <2>4, <2>6, <3>1 DEF TcpInv, TcpTypeOK, QueueWaits
    <3>2. ASSUME NEW i \in 1..Len(queue'), NEW j \in 1..Len(queue'), queue'[i] = queue'[j] PROVE i = j
      <4>1. i + 1 = j + 1
        BY <2>6, <3>2 DEF TcpInv, QueueWaits
      <4> QED BY <4>1
    <3> QED BY <3>1, <3>2 DEF QueueWaits
  <2>8. WriteIsFront'
    BY <2>2, <2>4 DEF TcpInv, TcpTypeOK, WriteIsFront
  <2> QED BY <2>4, <2>5, <2>7, <2>8 DEF TcpInv, TcpContract!Next
<1>12. ASSUME NEW o \in Calls, AsioEnds(o) PROVE Goal
  BY <1>3, <1>12 DEF AsioEnds, writeVars
<1>13. CASE CloseCall \/ DeadlineExpires \/ TimedOut
  BY <1>3, <1>13 DEF CloseCall, DeadlineExpires, TimedOut, writeVars
<1>14. CASE UnloadTcp
  <2>1. loaded' = FALSE /\ UNCHANGED <<stage, answers, queue>>
    BY <1>14 DEF UnloadTcp, writeVars
  <2>2. TcpInv'
    BY <2>1 DEF TcpInv, TcpTypeOK, AnsweredIsOver, QueueWaits, WriteIsFront
  <2>3. ASSUME NEW p \in Calls
        PROVE  CallStatus(p)' = IF CallStatus(p) # "answered" THEN "dropped" ELSE CallStatus(p)
    <3>1. CASE answers[p] = 1
      BY <2>1, <3>1 DEF CallStatus, TcpInv, AnsweredIsOver
    <3>2. CASE answers[p] = 0
      BY <2>1, <3>2 DEF CallStatus
    <3> QED BY <3>1, <3>2 DEF TcpInv, TcpTypeOK
  <2>4. TcpContract!Drop
    BY <2>3 DEF TcpContract!Drop, TcpStatus
  <2> QED BY <2>2, <2>4 DEF TcpContract!Next
<1>15. CASE UNCHANGED tcpVars
  BY <1>3, <1>15 DEF tcpVars, writeVars
<1> QED BY <1>4, <1>5, <1>6, <1>7, <1>8, <1>9, <1>10, <1>11, <1>12, <1>13, <1>14, <1>15 DEF TcpNext

\* PoTcpClient implements OneAnswer for any sets of calls: whatever order the results, timeouts,
\* closes and the unload come in, a callback runs once or goes with the plugin.
THEOREM TcpImplementsOneAnswer == TcpSpec => TcpAnswersOnce
<1>1. TcpInit => TcpInv /\ TcpContract!Init
  BY TcpInitInv
<1>2. TcpInv /\ [TcpNext]_tcpVars => TcpInv' /\ [TcpContract!Next]_TcpStatus
  BY TcpStep
<1> QED BY <1>1, <1>2, PTL DEF TcpSpec, TcpAnswersOnce, TcpContract!Spec

-----------------------------------------------------------------------------
(* The deadline                                                               *)

\* The stages of the calls that arm the timer: a write has none.
Timed == {"resolve", "connect", "handshake", "read"}

\* A timer is that of a call that asio still runs, until the client is closed; without the
\* plugin it is closed, and the handlers that then skip Disarm leave no timer that matters.
DeadlineOwned ==
    /\ closed \in BOOLEAN
    /\ ~loaded => closed
    /\ ~closed => deadline = NoDeadline
                    \/ (deadline.for \in Calls /\ stage[deadline.for] \in Timed)

\* Every step keeps the deadline with its call.
LEMMA DeadlineStep ==
    ASSUME TcpInv, DeadlineOwned, [TcpNext]_tcpVars
    PROVE  DeadlineOwned'
<1> USE DEF DeadlineOwned
<1>1. ASSUME NEW o \in Calls, stage[o] \notin Timed, NEW st, stage' = [stage EXCEPT ![o] = st],
             UNCHANGED <<loaded, closed, deadline>>
      PROVE  DeadlineOwned'
  BY <1>1 DEF TcpInv, TcpTypeOK
<1>2. ASSUME UNCHANGED <<loaded, closed>>, deadline' = NoDeadline PROVE DeadlineOwned'
  BY <1>2
<1>3. ASSUME NEW o \in Calls, NEW st \in Timed, NEW given, ArmDeadline(o, given),
             stage' = [stage EXCEPT ![o] = st], UNCHANGED <<loaded, closed>>
      PROVE  DeadlineOwned'
  BY <1>3 DEF ArmDeadline, TcpInv, TcpTypeOK
<1>4. ASSUME UNCHANGED <<loaded, closed, stage, deadline>> PROVE DeadlineOwned'
  BY <1>4
<1>5. ASSUME Close PROVE DeadlineOwned'
  <2>1. closed' = TRUE
    BY <1>5 DEF Close, netVars
  <2> QED BY <2>1
<1>6. ASSUME NEW o \in Calls, Connect(o) PROVE DeadlineOwned'
  BY <1>3, <1>6 DEF Connect, At, Timed, netVars
<1>7. ASSUME NEW o \in Calls, ResolveComplete(o) PROVE DeadlineOwned'
  <2>1. UNCHANGED <<loaded, closed>> /\ stage[o] = "resolve"
    BY <1>7 DEF ResolveComplete
  <2>2. CASE loaded /\ result[o] = "ok"
    BY <1>7, <2>1, <2>2 DEF ResolveComplete, At, Timed, TcpInv, TcpTypeOK
  <2>3. CASE loaded /\ result[o] # "ok"
    BY <1>2, <1>7, <2>1, <2>3 DEF ResolveComplete, Disarm
  <2>4. CASE ~loaded
    BY <2>1, <2>4
  <2> QED BY <2>2, <2>3, <2>4
<1>8. ASSUME NEW o \in Calls, ConnectComplete(o) \/ ReadComplete(o) PROVE DeadlineOwned'
  BY <1>2, <1>8 DEF ConnectComplete, ReadComplete, Disarm, netVars
<1>9. ASSUME NEW o \in Calls, StartTls(o) PROVE DeadlineOwned'
  <2>1. stage[o] \notin Timed
    BY <1>9 DEF StartTls, MayCall, Timed
  <2> QED BY <1>1, <1>3, <1>9, <2>1 DEF StartTls, At, Timed, netVars
<1>10. ASSUME NEW o \in Calls, TlsRefused(o) PROVE DeadlineOwned'
  BY <1>1, <1>10 DEF TlsRefused, EndCall, At, Timed, netVars
<1>11. ASSUME NEW o \in Calls, Read(o) PROVE DeadlineOwned'
  <2>1. stage[o] \notin Timed
    BY <1>11 DEF Read, MayCall, Timed
  <2> QED BY <1>1, <1>3, <1>11, <2>1 DEF Read, At, Timed, netVars
<1>12. ASSUME NEW o \in Calls, Write(o) PROVE DeadlineOwned'
  BY <1>1, <1>12 DEF Write, MayCall, At, Timed, netVars
<1>13. ASSUME queue # <<>> PROVE Head(queue) \in Calls /\ stage[Head(queue)] \notin Timed
  <2>1. 1 \in 1..Len(queue) /\ Head(queue) = queue[1] /\ queue[1] \in Calls
    BY <1>13 DEF TcpInv, TcpTypeOK
  <2> QED BY <2>1 DEF TcpInv, QueueWaits, Timed
<1>14. CASE WriteNext
  <2>1. UNCHANGED <<loaded, closed, deadline>>
    BY <1>14 DEF WriteNext, netVars
  <2>2. CASE MayWrite
    <3>1. queue # <<>> /\ stage' = [stage EXCEPT ![Head(queue)] = "write"]
      BY <1>14, <2>2 DEF WriteNext, MayWrite, At
    <3> QED BY <1>1, <1>13, <2>1, <3>1
  <2>3. CASE ~MayWrite
    BY <1>4, <1>14, <2>1, <2>3 DEF WriteNext
  <2> QED BY <2>2, <2>3
<1>15. ASSUME NEW o \in Calls, WriteComplete(o) PROVE DeadlineOwned'
  <2>1. queue # <<>>
    BY <1>15 DEF WriteComplete, TcpInv, WriteIsFront
  <2>2. stage' = [stage EXCEPT ![Head(queue)] = "over"] /\ UNCHANGED <<loaded, closed, deadline>>
    BY <1>15 DEF WriteComplete, EndCall, At, netVars
  <2> QED BY <1>1, <1>13, <2>1, <2>2
<1>16. ASSUME NEW o \in Calls, AsioEnds(o) PROVE DeadlineOwned'
  BY <1>4, <1>16 DEF AsioEnds, netVars
<1>17. CASE CloseCall \/ UnloadTcp
  BY <1>5, <1>17 DEF CloseCall, UnloadTcp
<1>18. CASE DeadlineExpires
  BY <1>18 DEF DeadlineExpires, netVars, NoDeadline
<1>19. CASE TimedOut
  BY <1>2, <1>5, <1>19 DEF TimedOut, netVars
<1>20. CASE UNCHANGED tcpVars
  BY <1>4, <1>20 DEF tcpVars, netVars
<1> QED
  BY <1>6, <1>7, <1>8, <1>9, <1>10, <1>11, <1>12, <1>14, <1>15, <1>16, <1>17, <1>18, <1>19, <1>20 DEF TcpNext

\* Arm and Disarm: for any sets of calls, the timer that can still close the client is that
\* of a call which has no answer yet.
THEOREM DeadlineIsCurrent == TcpSpec => []NoStaleDeadline
<1>1. TcpInit => TcpInv /\ DeadlineOwned
  BY TcpInitInv DEF TcpInit, DeadlineOwned
<1>2. TcpInv /\ DeadlineOwned /\ [TcpNext]_tcpVars => TcpInv' /\ DeadlineOwned'
  BY TcpStep, DeadlineStep
<1>3. DeadlineOwned => NoStaleDeadline
  BY DEF DeadlineOwned, NoStaleDeadline, NoDeadline, Timed, InAsio
<1> QED BY <1>1, <1>2, <1>3, PTL DEF TcpSpec

-----------------------------------------------------------------------------
(* The order of the writes                                                    *)

\* How many writes of the buffer have been given to the socket: the front, or none.
Begun == IF writePending THEN 1 ELSE 0

\* The buffer is the end of what was submitted; what was sent is what came before it, and the
\* front while asio writes it.  m_write_pending says whether it does.
BufferIsRest ==
    /\ submitted \in Seq(Calls) /\ sent \in Seq(Calls)
    /\ Begun <= Len(sent) /\ Len(sent) + Len(queue) = Len(submitted) + Begun
    /\ \A i \in 1..Len(sent) : sent[i] = submitted[i]
    /\ \A i \in 1..Len(queue) : queue[i] = submitted[Len(sent) - Begun + i]

PendingIsFront ==
    /\ writePending \in BOOLEAN /\ wakeups \in Nat
    /\ writePending <=> (queue # <<>> /\ stage[Head(queue)] = "write")

\* A write that can go has its wake-up.
WriteWakes == loaded /\ queue # <<>> => writePending \/ wakeups > 0

BufferInv == BufferIsRest /\ PendingIsFront /\ WriteWakes

\* A call beside the buffer leaves it alone.
LEMMA BesideBuffer ==
    ASSUME TcpInv, BufferInv, UNCHANGED writeVars, loaded' => loaded,
           \A o \in Calls : stage[o] \in {"queued", "write"} => stage'[o] = stage[o]
    PROVE  BufferInv'
<1>1. UNCHANGED <<queue, writePending, wakeups, submitted, sent>>
  BY DEF writeVars
<1>2. ASSUME queue # <<>> PROVE stage'[Head(queue)] = stage[Head(queue)]
  <2>1. 1 \in 1..Len(queue) /\ Head(queue) = queue[1] /\ queue[1] \in Calls
    BY <1>2 DEF TcpInv, TcpTypeOK
  <2> QED BY <2>1 DEF TcpInv, QueueWaits
<1>3. BufferIsRest'
  BY <1>1 DEF BufferInv, BufferIsRest, Begun
<1>4. PendingIsFront'
  BY <1>1, <1>2 DEF BufferInv, PendingIsFront
<1> QED BY <1>1, <1>3, <1>4 DEF BufferInv, WriteWakes

\* Every step keeps the buffer.
LEMMA BufferStep ==
    ASSUME TcpInv, BufferInv, [TcpNext]_tcpVars
    PROVE  BufferInv'
<1>1. ASSUME NEW o \in Calls, stage[o] \notin {"queued", "write"}, NEW st, stage' = [stage EXCEPT ![o] = st],
             UNCHANGED loaded, UNCHANGED writeVars
      PROVE  BufferInv'
  <2>1. \A p \in Calls : stage[p] \in {"queued", "write"} => stage'[p] = stage[p]
    BY <1>1 DEF TcpInv, TcpTypeOK
  <2> QED BY <1>1, <2>1, BesideBuffer
<1>2. ASSUME loaded' => loaded, UNCHANGED stage, UNCHANGED writeVars PROVE BufferInv'
  BY <1>2, BesideBuffer
<1>3. ASSUME NEW o \in Calls, Connect(o) \/ StartTls(o) \/ Read(o) PROVE BufferInv'
  <2>1. stage[o] = "new" /\ UNCHANGED loaded /\ UNCHANGED writeVars
    BY <1>3 DEF Connect, StartTls, Read, MayCall
  <2>2. PICK st : stage' = [stage EXCEPT ![o] = st]
    BY <1>3 DEF Connect, StartTls, Read, At
  <2> QED BY <1>1, <2>1, <2>2
<1>4. ASSUME NEW o \in Calls, ResolveComplete(o) \/ ConnectComplete(o) \/ TlsRefused(o) \/ ReadComplete(o)
      PROVE  BufferInv'
  <2>1. stage[o] \notin {"queued", "write"} /\ UNCHANGED loaded /\ UNCHANGED writeVars
    BY <1>4 DEF ResolveComplete, ConnectComplete, TlsRefused, ReadComplete
  <2>2. PICK st : stage' = [stage EXCEPT ![o] = st]
    BY <1>4 DEF ResolveComplete, ConnectComplete, TlsRefused, ReadComplete, EndCall, At
  <2> QED BY <1>1, <2>1, <2>2
<1>5. ASSUME NEW o \in Calls, Write(o) PROVE BufferInv'
  <2>1. /\ stage[o] = "new" /\ stage' = [stage EXCEPT ![o] = "queued"]
        /\ queue' = Append(queue, o) /\ wakeups' = wakeups + 1
        /\ submitted' = Append(submitted, o) /\ UNCHANGED <<loaded, writePending, sent>>
    BY <1>5 DEF Write, MayCall, At
  <2>2. /\ queue \in Seq(Calls) /\ submitted \in Seq(Calls) /\ sent \in Seq(Calls)
        /\ Len(sent) + Len(queue) = Len(submitted) + Begun /\ Begun \in 0..1 /\ Begun' = Begun
        /\ Begun <= Len(sent)
        /\ Len(queue) \in Nat /\ Len(sent) \in Nat /\ Len(submitted) \in Nat
        /\ (Begun = 1 => Len(queue) > 0)
    BY <2>1 DEF TcpInv, TcpTypeOK, BufferInv, BufferIsRest, PendingIsFront, Begun
  <2>3. /\ submitted' \in Seq(Calls) /\ Len(submitted') = Len(submitted) + 1
        /\ Len(queue') = Len(queue) + 1 /\ queue'[Len(queue) + 1] = o
        /\ submitted'[Len(submitted) + 1] = o
        /\ \A i \in 1..Len(submitted) : submitted'[i] = submitted[i]
        /\ \A i \in 1..Len(queue) : queue'[i] = queue[i]
    BY <2>1, <2>2
  <2>4. \A i \in 1..Len(sent) : sent[i] = submitted'[i]
    BY <2>2, <2>3 DEF BufferInv, BufferIsRest
  <2>5. ASSUME NEW i \in 1..Len(queue') PROVE queue'[i] = submitted'[Len(sent) - Begun + i]
    <3>1. CASE i = Len(queue) + 1
      <4>1. \A a, b, c \in Nat, d \in 0..1 : a + b = c + d => a - d + (b + 1) = c + 1
        OBVIOUS
      <4>2. Len(sent) - Begun + (Len(queue) + 1) = Len(submitted) + 1
        BY <2>2, <4>1
      <4> QED BY <2>3, <3>1, <4>2
    <3>2. CASE i # Len(queue) + 1
      <4>1. i \in 1..Len(queue)
        BY <2>2, <2>3, <3>2
      <4>2. Len(sent) - Begun + i \in 1..Len(submitted)
        BY <2>2, <4>1
      <4> QED BY <2>3, <4>1, <4>2 DEF BufferInv, BufferIsRest
    <3> QED BY <3>1, <3>2
  <2>6. BufferIsRest'
    <3>1. sent' \in Seq(Calls) /\ Begun' <= Len(sent')
      BY <2>1, <2>2
    <3>2. \A a, b, c \in Nat, d \in 0..1 : a + b = c + d => a + (b + 1) = (c + 1) + d
      OBVIOUS
    <3>3. Len(sent) + (Len(queue) + 1) = (Len(submitted) + 1) + Begun
      BY <2>2, <3>2
    <3>4. Len(sent') + Len(queue') = Len(submitted') + Begun'
      BY <2>1, <2>2, <2>3, <3>3
    <3> QED BY <2>1, <2>2, <2>3, <2>4, <2>5, <3>1, <3>4 DEF BufferIsRest
  <2>7. PendingIsFront'
    <3>1. CASE queue = <<>>
      <4>1. Head(queue') = o /\ ~writePending
        BY <2>1, <3>1 DEF BufferInv, PendingIsFront
      <4> QED BY <2>1, <4>1 DEF BufferInv, PendingIsFront, TcpInv, TcpTypeOK
    <3>2. CASE queue # <<>>
      <4>1. Head(queue') = Head(queue) /\ Head(queue) = queue[1] /\ queue[1] \in Calls /\ 1 \in 1..Len(queue)
        BY <2>1, <2>2, <3>2
      <4>2. Head(queue) # o
        BY <2>1, <4>1 DEF TcpInv, QueueWaits
      <4> QED BY <2>1, <2>2, <3>2, <4>1, <4>2 DEF BufferInv, PendingIsFront, TcpInv, TcpTypeOK
    <3> QED BY <3>1, <3>2
  <2>8. WriteWakes'
    BY <2>1 DEF BufferInv, PendingIsFront, WriteWakes
  <2> QED BY <2>6, <2>7, <2>8 DEF BufferInv
<1>6. CASE WriteNext
  <2>1. /\ wakeups > 0 /\ wakeups' = wakeups - 1 /\ UNCHANGED <<loaded, queue, submitted>>
    BY <1>6 DEF WriteNext
  <2>2. CASE MayWrite
    <3>1. /\ queue # <<>> /\ writePending = FALSE /\ writePending' = TRUE
          /\ stage' = [stage EXCEPT ![Head(queue)] = "write"] /\ sent' = Append(sent, Head(queue))
      BY <1>6, <2>2 DEF WriteNext, MayWrite, At, BufferInv, PendingIsFront
    <3>2. /\ queue \in Seq(Calls) /\ submitted \in Seq(Calls) /\ sent \in Seq(Calls)
          /\ Len(sent) + Len(queue) = Len(submitted) /\ Begun = 0 /\ Begun' = 1
          /\ Len(queue) \in Nat \ {0} /\ Len(sent) \in Nat /\ Len(submitted) \in Nat
          /\ Head(queue) = queue[1] /\ queue[1] \in Calls
      BY <3>1 DEF TcpInv, TcpTypeOK, BufferInv, BufferIsRest, Begun
    <3>3. /\ sent' \in Seq(Calls) /\ Len(sent') = Len(sent) + 1 /\ sent'[Len(sent) + 1] = queue[1]
          /\ \A i \in 1..Len(sent) : sent'[i] = sent[i]
      BY <3>1, <3>2
    <3>4. queue[1] = submitted[Len(sent) + 1]
      BY <3>2 DEF BufferInv, BufferIsRest
    <3>5. \A i \in 1..Len(sent') : sent'[i] = submitted[i]
      <4> SUFFICES ASSUME NEW i \in 1..Len(sent') PROVE sent'[i] = submitted[i]
        OBVIOUS
      <4>1. i = Len(sent) + 1 \/ i \in 1..Len(sent)
        BY <3>2, <3>3
      <4> QED BY <3>3, <3>4, <4>1 DEF BufferInv, BufferIsRest
    <3>6. \A i \in 1..Len(queue) : queue[i] = submitted[Len(sent') - 1 + i]
      BY <3>2, <3>3 DEF BufferInv, BufferIsRest
    <3>7. BufferIsRest'
      <4>1. Begun' <= Len(sent') /\ Len(sent') + Len(queue') = Len(submitted') + Begun'
        <5>1. Len(sent) + 1 + Len(queue) = Len(submitted) + 1 /\ 1 <= Len(sent) + 1
          BY <3>2
        <5> QED BY <2>1, <3>2, <3>3, <5>1
      <4> QED BY <2>1, <3>2, <3>3, <3>5, <3>6, <4>1 DEF BufferIsRest
    <3>8. PendingIsFront'
      BY <2>1, <3>1, <3>2 DEF BufferInv, PendingIsFront, TcpInv, TcpTypeOK
    <3> QED BY <3>1, <3>7, <3>8 DEF BufferInv, WriteWakes
  <2>3. CASE ~MayWrite
    <3>1. UNCHANGED <<writePending, stage, sent>>
      BY <1>6, <2>3 DEF WriteNext
    <3>2. BufferIsRest'
      BY <2>1, <3>1 DEF BufferInv, BufferIsRest, Begun
    <3>3. PendingIsFront'
      BY <2>1, <3>1 DEF BufferInv, PendingIsFront
    <3>4. writePending \/ queue = <<>>
      BY <2>3 DEF MayWrite
    <3> QED BY <2>1, <3>1, <3>2, <3>3, <3>4 DEF BufferInv, WriteWakes
  <2> QED BY <2>2, <2>3
<1>7. ASSUME NEW o \in Calls, WriteComplete(o) PROVE BufferInv'
  <2>1. /\ stage[o] = "write" /\ queue' = Tail(queue) /\ writePending' = FALSE
        /\ UNCHANGED <<loaded, submitted, sent>>
        /\ stage' = [stage EXCEPT ![Head(queue)] = "over"] /\ wakeups' = WakeupsAfterWrite
    BY <1>7 DEF WriteComplete, EndCall, At
  <2>2. queue # <<>> /\ o = Head(queue)
    BY <2>1 DEF TcpInv, WriteIsFront
  <2>3. writePending
    BY <2>1, <2>2 DEF BufferInv, PendingIsFront
  <2>4. /\ queue \in Seq(Calls) /\ submitted \in Seq(Calls) /\ sent \in Seq(Calls)
        /\ Len(sent) + Len(queue) = Len(submitted) + 1 /\ Begun = 1 /\ Begun' = 0
        /\ Len(queue) \in Nat \ {0} /\ Len(sent) \in Nat /\ Len(submitted) \in Nat
    BY <2>1, <2>2, <2>3 DEF TcpInv, TcpTypeOK, BufferInv, BufferIsRest, Begun
  <2>5. /\ queue' \in Seq(Calls) /\ Len(queue') = Len(queue) - 1
        /\ \A i \in 1..Len(queue') : queue'[i] = queue[i + 1] /\ i + 1 \in 1..Len(queue)
    BY <2>1, <2>2, <2>4
  <2>6. \A i \in 1..Len(queue') : queue'[i] = submitted[Len(sent) + i]
    <3> SUFFICES ASSUME NEW i \in 1..Len(queue') PROVE queue'[i] = submitted[Len(sent) + i]
      OBVIOUS
    <3>1. i \in Nat /\ Len(sent) - Begun + (i + 1) = Len(sent) + i
      BY <2>4, <2>5
    <3>2. queue[i + 1] = submitted[Len(sent) - Begun + (i + 1)]
      BY <2>5 DEF BufferInv, BufferIsRest
    <3> QED BY <2>5, <3>1, <3>2
  <2>7. BufferIsRest'
    BY <2>1, <2>4, <2>5, <2>6 DEF BufferInv, BufferIsRest
  <2>8. wakeups \in Nat /\ wakeups' = IF loaded THEN wakeups + 1 ELSE wakeups
    BY <2>1 DEF WakeupsAfterWrite, BufferInv, PendingIsFront
  <2>9. ASSUME queue' # <<>> PROVE stage'[Head(queue')] # "write"
    <3>1. /\ 1 \in 1..Len(queue) /\ 2 \in 1..Len(queue) /\ Head(queue) = queue[1] /\ Head(queue') = queue[2]
          /\ queue[2] \in Calls
      BY <2>4, <2>5, <2>9
    <3>2. queue[2] # queue[1]
      BY <3>1 DEF TcpInv, QueueWaits
    <3> QED BY <2>1, <3>1, <3>2 DEF TcpInv, TcpTypeOK, WriteIsFront
  <2>10. PendingIsFront'
    <3>1. wakeups' \in Nat
      BY <2>8
    <3> QED BY <2>1, <2>9, <3>1 DEF PendingIsFront
  <2> QED BY <2>1, <2>7, <2>8, <2>10 DEF BufferInv, WriteWakes
<1>8. ASSUME NEW o \in Calls, AsioEnds(o) PROVE BufferInv'
  BY <1>2, <1>8 DEF AsioEnds
<1>9. CASE CloseCall \/ DeadlineExpires \/ TimedOut \/ UnloadTcp
  BY <1>2, <1>9 DEF CloseCall, DeadlineExpires, TimedOut, UnloadTcp
<1>10. CASE UNCHANGED tcpVars
  BY <1>2, <1>10 DEF tcpVars
<1> QED BY <1>3, <1>4, <1>5, <1>6, <1>7, <1>8, <1>9, <1>10 DEF TcpNext

\* WriteNext and WriteComplete: for any set of writes, what reaches the socket is a prefix of
\* what was written, one write at a time, and a write that waits has a wake-up.
THEOREM WritesKeepOrder == TcpSpec => []WritesInOrder
<1>1. TcpInit => TcpInv /\ BufferInv
  <2> SUFFICES ASSUME TcpInit PROVE BufferInv
    BY TcpInitInv
  <2>1. /\ queue = <<>> /\ submitted = <<>> /\ sent = <<>> /\ writePending = FALSE /\ wakeups = 0
        /\ Begun = 0 /\ Len(<<>>) = 0
    BY DEF TcpInit, Begun
  <2>2. BufferIsRest
    BY <2>1 DEF BufferIsRest
  <2> QED BY <2>1, <2>2 DEF BufferInv, PendingIsFront, WriteWakes
<1>2. TcpInv /\ BufferInv /\ [TcpNext]_tcpVars => TcpInv' /\ BufferInv'
  BY TcpStep, BufferStep
<1>3. TcpInv /\ BufferInv => WritesInOrder
  <2> SUFFICES ASSUME TcpInv, BufferInv PROVE WritesInOrder
    OBVIOUS
  <2>1. IsPrefix(sent, submitted)
    <3>1. /\ sent \in Seq(Calls) /\ submitted \in Seq(Calls) /\ Len(sent) \in Nat /\ Len(submitted) \in Nat
          /\ Len(sent) <= Len(submitted) /\ \A i \in 1..Len(sent) : sent[i] = submitted[i]
      BY DEF TcpInv, TcpTypeOK, BufferInv, BufferIsRest, PendingIsFront, Begun
    <3>2. SubSeq(sent, 1, Len(sent)) = SubSeq(submitted, 1, Len(sent))
      BY <3>1
    <3> QED BY <3>1, <3>2 DEF IsPrefix
  <2>2. \A o, p \in Writes : stage[o] = "write" /\ stage[p] = "write" => o = p
    BY DEF Calls, TcpInv, WriteIsFront
  <2> QED BY <2>1, <2>2 DEF WritesInOrder, BufferInv, WriteWakes
<1> QED BY <1>1, <1>2, <1>3, PTL DEF TcpSpec

-----------------------------------------------------------------------------
(* The HTTP server                                                            *)

\* The shape of the state.
HttpTypeOK ==
    /\ running \in BOOLEAN
    /\ held \in [HttpRequests -> SUBSET Holders]
    /\ body \in [HttpRequests -> {"none", "arriving", "done"}]
    /\ valid \in [HttpRequests -> BOOLEAN]
    /\ flags \in [HttpRequests -> SUBSET Flags]

\* Who can still answer request r knows whether the response is valid: the posted handler and
\* the Lua code look only at the flags, and an abort or an end that they miss would be a
\* misuse.  The map holds a response alone, and not beyond its body or the plugin.
AnswerableIsValid(r) ==
    /\ held[r] \cap {"post", "lua"} # {} /\ MayAnswer(r) => valid[r]
    /\ "map" \in held[r] => held[r] = {"map"} /\ valid[r] /\ body[r] = "arriving" /\ MayAnswer(r)
    /\ valid[r] => MayAnswer(r) /\ (running => held[r] # {})
    /\ running \/ held[r] \subseteq {"post"}
    /\ body[r] = "none" => held[r] = {} /\ flags[r] = {} /\ ~valid[r]
    /\ body[r] = "arriving" /\ valid[r] => held[r] \subseteq {"map"}

HttpInv == HttpTypeOK /\ misused = {} /\ \A r \in HttpRequests : AnswerableIsValid(r)

\* A request that a step leaves alone keeps what is said of it.
LEMMA Untouched ==
    ASSUME NEW r, AnswerableIsValid(r), UNCHANGED running,
           held'[r] = held[r], body'[r] = body[r], valid'[r] = valid[r], flags'[r] = flags[r]
    PROVE  AnswerableIsValid(r)'
BY DEF AnswerableIsValid, MayAnswer

\* Before any request arrives the invariant holds.
LEMMA HttpInitInv == HttpInit => HttpInv
BY DEF HttpInit, HttpInv, HttpTypeOK, AnswerableIsValid, MayAnswer, Holders, Flags

\* Every step of the server, the Lua function, the client and the collector keeps the invariant.
LEMMA HttpStep == HttpInv /\ [HttpNext]_httpVars => HttpInv'
<1> SUFFICES ASSUME HttpInv, [HttpNext]_httpVars PROVE HttpInv'
  OBVIOUS
<1> USE DEF HttpInv
<1>1. ASSUME NEW r \in HttpRequests, NEW allowed \in BOOLEAN, Request(r, allowed) PROVE HttpInv'
  <2>1. HttpTypeOK' /\ misused' = {}
    <3>1. CASE allowed /\ running
      <4>1. held' = [held EXCEPT ![r] = {"map"}] /\ {"map"} \in SUBSET Holders
        BY <1>1, <3>1 DEF Request, Hold, SetupHolds, Holders
      <4>2. held' \in [HttpRequests -> SUBSET Holders]
        BY <4>1 DEF HttpTypeOK
      <4> QED BY <1>1, <3>1, <4>2 DEF Request, HttpTypeOK
    <3>2. CASE ~(allowed /\ running)
      BY <1>1, <3>2 DEF Request, HttpTypeOK
    <3> QED BY <3>1, <3>2
  <2>2. AnswerableIsValid(r)'
    BY <1>1 DEF Request, Hold, SetupHolds, HttpTypeOK, AnswerableIsValid, MayAnswer
  <2>3. ASSUME NEW q \in HttpRequests, q # r PROVE AnswerableIsValid(q)'
    BY <1>1, <2>3, Untouched DEF Request, Hold, HttpTypeOK
  <2> QED BY <2>1, <2>2, <2>3
<1>2. ASSUME NEW r \in HttpRequests, OnData(r) PROVE HttpInv'
  <2>1. HttpTypeOK' /\ misused' = {}
    BY <1>2 DEF OnData, Hold, Use, HttpTypeOK, Holders
  <2>2. AnswerableIsValid(r)'
    BY <1>2 DEF OnData, Hold, Use, HttpTypeOK, AnswerableIsValid, MayAnswer, Holders
  <2>3. ASSUME NEW q \in HttpRequests, q # r PROVE AnswerableIsValid(q)'
    BY <1>2, <2>3, Untouched DEF OnData, Hold, Use, HttpTypeOK
  <2> QED BY <2>1, <2>2, <2>3
<1>3. ASSUME NEW r \in HttpRequests, Abort(r) PROVE HttpInv'
  <2>1. HttpTypeOK' /\ misused' = {}
    BY <1>3 DEF Abort, Hold, HttpTypeOK, Holders, Flags
  <2>2. AnswerableIsValid(r)'
    BY <1>3 DEF Abort, Hold, HttpTypeOK, AnswerableIsValid, MayAnswer, Holders, Flags
  <2>3. ASSUME NEW q \in HttpRequests, q # r PROVE AnswerableIsValid(q)'
    BY <1>3, <2>3, Untouched DEF Abort, Hold, HttpTypeOK
  <2> QED BY <2>1, <2>2, <2>3
<1>4. ASSUME NEW r \in HttpRequests, NEW ok \in BOOLEAN, HandlerRuns(r, ok) PROVE HttpInv'
  <2>1. HttpTypeOK' /\ misused' = {}
    BY <1>4 DEF HandlerRuns, End, Use, Hold, HttpTypeOK, AnswerableIsValid, MayAnswer, Holders, Flags
  <2>2. AnswerableIsValid(r)'
    <3>1. held[r] \cap {"post", "lua"} # {} /\ "map" \notin held[r] /\ body[r] # "none"
      BY <1>4 DEF HandlerRuns, HttpTypeOK, AnswerableIsValid
    <3>2. CASE "aborted" \notin flags[r] /\ running /\ ok
      BY <1>4, <3>1, <3>2 DEF HandlerRuns, Hold, HttpTypeOK, AnswerableIsValid, MayAnswer
    <3>3. CASE "aborted" \in flags[r]
      <4>1. ~valid[r]
        BY <3>1, <3>3 DEF AnswerableIsValid, MayAnswer
      <4> QED BY <1>4, <3>1, <3>3, <4>1 DEF HandlerRuns, Hold, HttpTypeOK, AnswerableIsValid, MayAnswer
    <3>4. CASE "aborted" \notin flags[r] /\ ~(running /\ ok)
      BY <1>4, <3>1, <3>4 DEF HandlerRuns, End, Use, Hold, HttpTypeOK, AnswerableIsValid, MayAnswer
    <3> QED BY <3>2, <3>3, <3>4
  <2>3. ASSUME NEW q \in HttpRequests, q # r PROVE AnswerableIsValid(q)'
    BY <1>4, <2>3, Untouched DEF HandlerRuns, End, Use, Hold, HttpTypeOK
  <2> QED BY <2>1, <2>2, <2>3
<1>5. ASSUME NEW r \in HttpRequests, WriteResponse(r) PROVE HttpInv'
  <2>1. HttpTypeOK' /\ misused' = {}
    BY <1>5 DEF WriteResponse, Use, HttpTypeOK, AnswerableIsValid, MayAnswer, Flags
  <2>2. AnswerableIsValid(r)'
    BY <1>5 DEF WriteResponse, Use, HttpTypeOK, AnswerableIsValid, MayAnswer, Flags
  <2>3. ASSUME NEW q \in HttpRequests, q # r PROVE AnswerableIsValid(q)'
    BY <1>5, <2>3, Untouched DEF WriteResponse, Use, HttpTypeOK
  <2> QED BY <2>1, <2>2, <2>3
<1>6. ASSUME NEW r \in HttpRequests, FinishResponse(r) PROVE HttpInv'
  <2>1. HttpTypeOK' /\ misused' = {}
    <3>1. CASE MayAnswer(r)
      <4>1. valid[r]
        BY <1>6, <3>1 DEF FinishResponse, AnswerableIsValid
      <4>2. flags' \in [HttpRequests -> SUBSET Flags]
        BY <1>6, <3>1 DEF FinishResponse, End, HttpTypeOK, Flags
      <4>3. valid' \in [HttpRequests -> BOOLEAN] /\ misused' = {}
        BY <1>6, <3>1, <4>1 DEF FinishResponse, End, Use, HttpTypeOK
      <4> QED BY <1>6, <4>2, <4>3 DEF FinishResponse, HttpTypeOK
    <3>2. CASE ~MayAnswer(r)
      BY <1>6, <3>2 DEF FinishResponse, End, HttpTypeOK
    <3> QED BY <3>1, <3>2
  <2>2. AnswerableIsValid(r)'
    <3>1. CASE MayAnswer(r)
      <4>1. flags'[r] = flags[r] \cup {"finished"} /\ ~valid'[r]
        BY <1>6, <3>1 DEF FinishResponse, End, Use, HttpTypeOK
      <4>2. "lua" \in held[r] /\ UNCHANGED <<running, held, body>>
        BY <1>6 DEF FinishResponse
      <4> QED BY <4>1, <4>2 DEF AnswerableIsValid, MayAnswer
    <3>2. CASE ~MayAnswer(r)
      BY <1>6, <3>2 DEF FinishResponse, End, AnswerableIsValid, MayAnswer
    <3> QED BY <3>1, <3>2
  <2>3. ASSUME NEW q \in HttpRequests, q # r PROVE AnswerableIsValid(q)'
    BY <1>6, <2>3, Untouched DEF FinishResponse, End, Use, HttpTypeOK
  <2> QED BY <2>1, <2>2, <2>3
<1>7. ASSUME NEW r \in HttpRequests, Collect(r) PROVE HttpInv'
  <2>1. HttpTypeOK' /\ misused' = {}
    BY <1>7 DEF Collect, Hold, HttpTypeOK, Holders
  <2>2. AnswerableIsValid(r)'
    BY <1>7 DEF Collect, Hold, HttpTypeOK, AnswerableIsValid, MayAnswer
  <2>3. ASSUME NEW q \in HttpRequests, q # r PROVE AnswerableIsValid(q)'
    BY <1>7, <2>3, Untouched DEF Collect, Hold, HttpTypeOK
  <2> QED BY <2>1, <2>2, <2>3
<1>8. CASE UnloadRoutes
  <2>1. HttpTypeOK' /\ misused' = {}
    BY <1>8 DEF UnloadRoutes, HttpTypeOK, Holders
  <2>2. ASSUME NEW q \in HttpRequests PROVE AnswerableIsValid(q)'
    BY <1>8 DEF UnloadRoutes, HttpTypeOK, AnswerableIsValid, MayAnswer
  <2> QED BY <2>1, <2>2
<1>9. CASE UNCHANGED httpVars
  BY <1>9, Untouched DEF httpVars, HttpTypeOK
<1> QED
  <2>1. ASSUME NEW guard, NEW host PROVE GuardAllows(guard, host) \in BOOLEAN
    BY DEF GuardAllows
  <2> QED BY <1>1, <1>2, <1>3, <1>4, <1>5, <1>6, <1>7, <1>8, <1>9, <2>1 DEF HttpNext

\* PoHttpServerResponse: for any number of requests, the response of uWebSockets is never used
\* after its end, and a request that waits for an answer has somebody who can give it.
THEOREM ResponsesSafe == HttpSpec => []ResponsesHeld
<1>1. HttpInv => ResponsesHeld
  BY DEF HttpInv, ResponsesHeld, AnswerableIsValid
<1> QED BY <1>1, HttpInitInv, HttpStep, PTL DEF HttpSpec

-----------------------------------------------------------------------------
(* The HTTP client                                                            *)

\* The shape of what the answers depend on.
CurlTypeOK ==
    /\ hasPlugin \in BOOLEAN
    /\ transfers \subseteq Transfers
    /\ calls \in [Transfers -> 0..1]
    /\ answer \in [Transfers -> {"none", "posted", "given", "dropped"}]

\* A transfer is in the map until its callback is called, which posts the answer; the answer
\* is only dropped with the plugin.
CalledOnce(t) ==
    /\ t \in transfers => calls[t] = 0
    /\ calls[t] = 0 <=> answer[t] = "none"
    /\ answer[t] = "dropped" => t \in Owned /\ ~hasPlugin

CurlInv == CurlTypeOK /\ \A t \in Transfers : CalledOnce(t)

\* A transfer that was never added, or is in the map: it can be ended.
Endable(t) == t \in Transfers /\ calls[t] = 0 /\ answer[t] = "none"

\* A client that was given no transfer satisfies the invariant and the contract's initial state.
LEMMA CurlInitInv == CurlInit => CurlInv /\ Contract!Init
<1> SUFFICES ASSUME CurlInit PROVE CurlInv /\ Contract!Init
  OBVIOUS
<1>1. CurlInv
  BY DEF CurlInit, CurlInv, CurlTypeOK, CalledOnce
<1>2. \A t \in Transfers : TransferStatus(t) = "new"
  BY DEF CurlInit, TransferStatus
<1> QED BY <1>1, <1>2 DEF Contract!Init, CurlStatus

\* What a callback of the transfers ts does to the history and to the answers.
LEMMA CallsBack ==
    ASSUME CurlInv, NEW ts, \A t \in ts : Endable(t), calls' = Called(ts), answer' = Posted(ts),
           UNCHANGED hasPlugin, NEW t \in Transfers
    PROVE  /\ t \in ts => calls'[t] = 1 /\ answer'[t] = IF t \in Owned /\ ~hasPlugin THEN "dropped" ELSE "posted"
           /\ t \notin ts => calls'[t] = calls[t] /\ answer'[t] = answer[t]
BY DEF CurlInv, CurlTypeOK, Called, Posted, Endable

\* Transfers of all end, by an answer that is posted; all may have one that is added just now.
LEMMA TransfersEnd ==
    ASSUME CurlInv, NEW all, NEW ts \in SUBSET all, \A t \in all : Endable(t), transfers \subseteq all,
           transfers' = all \ ts, calls' = Called(ts), answer' = Posted(ts), UNCHANGED hasPlugin
    PROVE  /\ CurlInv'
           /\ \A t \in Transfers : t \notin all \ transfers => TransferStatus(t)' = TransferStatus(t)
           /\ \A t \in all : (t \in Owned => hasPlugin) => TransferStatus(t)' = "pending"
<1>1. ASSUME NEW t \in Transfers
      PROVE  /\ t \in ts => calls'[t] = 1 /\ answer'[t] = IF t \in Owned /\ ~hasPlugin THEN "dropped" ELSE "posted"
             /\ t \notin ts => calls'[t] = calls[t] /\ answer'[t] = answer[t]
  BY CallsBack DEF Endable
<1>2. CurlTypeOK'
  <2>1. calls' = [t \in Transfers |-> calls'[t]] /\ answer' = [t \in Transfers |-> answer'[t]]
    BY DEF Called, Posted
  <2>2. \A t \in Transfers : calls'[t] \in 0..1 /\ answer'[t] \in {"none", "posted", "given", "dropped"}
    BY <1>1 DEF CurlInv, CurlTypeOK
  <2> QED BY <2>1, <2>2 DEF CurlInv, CurlTypeOK, Endable
<1>3. ASSUME NEW t \in Transfers PROVE CalledOnce(t)'
  BY <1>1 DEF CurlInv, CurlTypeOK, CalledOnce, Endable
<1>4. ASSUME NEW t \in Transfers, t \notin all PROVE TransferStatus(t)' = TransferStatus(t)
  BY <1>1, <1>4 DEF TransferStatus
<1>5. ASSUME NEW t \in all PROVE TransferStatus(t)' = IF t \in Owned /\ ~hasPlugin THEN "dropped" ELSE "pending"
  BY <1>1, <1>5 DEF TransferStatus, Endable
<1>6. ASSUME NEW t \in transfers PROVE TransferStatus(t) = IF t \in Owned /\ ~hasPlugin THEN "dropped" ELSE "pending"
  BY <1>6 DEF TransferStatus, Endable
<1> QED BY <1>2, <1>3, <1>4, <1>5, <1>6 DEF CurlInv, CurlTypeOK

\* A step that leaves the transfers alone.
LEMMA TransfersSame ==
    ASSUME CurlInv, UNCHANGED <<hasPlugin, transfers, answer, calls>>
    PROVE  CurlInv' /\ UNCHANGED CurlStatus
BY DEF CurlInv, CurlTypeOK, CalledOnce, CurlStatus, TransferStatus

\* Every step of the loop keeps the invariant and is a step of the contract, or a stutter of it.
LEMMA CurlStep ==
    ASSUME CurlInv, [CurlNext]_curlVars
    PROVE  CurlInv' /\ (Contract!Next \/ UNCHANGED CurlStatus)
<1> DEFINE Goal == CurlInv' /\ (Contract!Next \/ UNCHANGED CurlStatus)
<1> SUFFICES Goal
  OBVIOUS
<1>1. \A t \in transfers : Endable(t)
  BY DEF CurlInv, CurlTypeOK, CalledOnce, Endable
<1>2. ASSUME NEW gone \in SUBSET transfers, FinishTransfers(transfers, gone), UNCHANGED hasPlugin PROVE Goal
  <2>1. CurlInv' /\ \A t \in Transfers : TransferStatus(t)' = TransferStatus(t)
    BY <1>1, <1>2, TransfersEnd DEF FinishTransfers, Erased
  <2> QED BY <2>1 DEF CurlStatus
<1>3. ASSUME NEW t \in Transfers, IsNew(t), NEW all \in SUBSET (transfers \cup {t}), transfers \subseteq all,
             NEW gone \in SUBSET (transfers \cup {t}), t \in all \cup gone,
             transfers' = (transfers \cup {t}) \ gone, calls' = Called(gone), answer' = Posted(gone), UNCHANGED hasPlugin
      PROVE  Goal
  <2>1. Endable(t) /\ t \notin transfers /\ (t \in Owned => hasPlugin)
    BY <1>3 DEF IsNew, Endable
  <2>2. /\ CurlInv'
        /\ \A p \in Transfers : p # t => TransferStatus(p)' = TransferStatus(p)
        /\ TransferStatus(t)' = "pending"
    BY <1>1, <1>3, <2>1, TransfersEnd
  <2>3. TransferStatus(t) = "new"
    BY <2>1 DEF TransferStatus, Endable
  <2>4. Contract!Start(t)
    BY <2>2, <2>3 DEF Contract!Start, Contract!Moves, CurlStatus
  <2> QED BY <2>2, <2>4 DEF Contract!Next
<1>4. ASSUME NEW t \in Transfers, AddRefused(t) PROVE Goal
  <2>1. transfers' = (transfers \cup {t}) \ {t}
    BY <1>4 DEF AddRefused, IsNew
  <2> QED BY <1>3, <1>4, <2>1 DEF AddRefused
<1>5. ASSUME NEW t \in Transfers, AddTransfer(t) PROVE Goal
  <2>1. PICK gone \in SUBSET (transfers \cup {t}) : FinishTransfers(transfers \cup {t}, gone)
    BY <1>5 DEF AddTransfer, SocketTimeout, SocketAction
  <2> QED BY <1>3, <1>5, <2>1 DEF AddTransfer, FinishTransfers, Erased
<1>6. ASSUME NEW t \in Transfers, CancelTransfer(t) PROVE Goal
  <2>1. t \in transfers /\ FinishTransfers(transfers, {t}) /\ UNCHANGED hasPlugin
    BY <1>6 DEF CancelTransfer, SocketTimeout, SocketAction
  <2> QED BY <1>2, <2>1
<1>7. ASSUME NEW t \in Transfers, Complete(t) PROVE Goal
  <2>1. answer[t] = "posted" /\ calls[t] = 1 /\ UNCHANGED <<hasPlugin, transfers, calls>>
    BY <1>7 DEF Complete, CurlInv, CurlTypeOK, CalledOnce
  <2>2. ASSUME NEW p \in Transfers, p # t PROVE answer'[p] = answer[p]
    BY <1>7, <2>2 DEF Complete, CurlInv, CurlTypeOK
  <2>3. ASSUME NEW p \in Transfers, p # t PROVE TransferStatus(p)' = TransferStatus(p)
    BY <2>1, <2>2, <2>3 DEF TransferStatus
  <2>4. CASE t \in Owned /\ ~hasPlugin
    <3>1. answer' = [answer EXCEPT ![t] = "dropped"]
      BY <1>7, <2>4 DEF Complete
    <3>2. CurlInv'
      BY <2>1, <2>4, <3>1 DEF CurlInv, CurlTypeOK, CalledOnce
    <3>3. TransferStatus(t)' = TransferStatus(t)
      BY <2>1, <2>4, <3>1 DEF TransferStatus, CurlInv, CurlTypeOK
    <3> QED BY <2>3, <3>2, <3>3 DEF CurlStatus
  <2>5. CASE ~(t \in Owned /\ ~hasPlugin)
    <3>1. answer' = [answer EXCEPT ![t] = "given"]
      BY <1>7, <2>5 DEF Complete
    <3>2. CurlInv'
      BY <2>1, <2>5, <3>1 DEF CurlInv, CurlTypeOK, CalledOnce
    <3>3. TransferStatus(t) = "pending" /\ TransferStatus(t)' = "answered"
      BY <2>1, <2>5, <3>1 DEF TransferStatus, CurlInv, CurlTypeOK
    <3>4. Contract!Answer(t)
      BY <2>3, <3>3 DEF Contract!Answer, Contract!Moves, CurlStatus
    <3> QED BY <3>2, <3>4 DEF Contract!Next
  <2> QED BY <2>4, <2>5
<1>8. CASE UnloadPlugin
  <2>1. hasPlugin' = FALSE /\ hasPlugin /\ UNCHANGED <<transfers, answer, calls>>
    BY <1>8 DEF UnloadPlugin
  <2>2. CurlInv'
    BY <2>1 DEF CurlInv, CurlTypeOK, CalledOnce
  <2>3. ASSUME NEW t \in Transfers
        PROVE  TransferStatus(t)' = IF t \in Owned /\ TransferStatus(t) # "answered" THEN "dropped" ELSE TransferStatus(t)
    <3>1. calls[t] \in 0..1 /\ (calls[t] = 0 <=> answer[t] = "none") /\ answer[t] # "dropped"
          /\ answer[t] \in {"none", "posted", "given", "dropped"}
      BY <2>1 DEF CurlInv, CurlTypeOK, CalledOnce
    <3> QED BY <2>1, <3>1 DEF TransferStatus
  <2>4. Contract!Drop
    BY <2>3 DEF Contract!Drop, CurlStatus
  <2> QED BY <2>2, <2>4 DEF Contract!Next
<1>9. CASE Shutdown
  <2>1. FinishTransfers(transfers, transfers) /\ UNCHANGED hasPlugin
    BY <1>9 DEF Shutdown, FinishTransfers, Erased, Orphans
  <2> QED BY <1>2, <2>1
<1>10. ASSUME NEW f \in Sockets, Data(f) PROVE Goal
  BY <1>10, TransfersSame DEF Data
<1>11. ASSUME NEW f, NEW s, NEW mask, NEW n, DriveSocket(f, s, mask, n), UNCHANGED hasPlugin PROVE Goal
  <2>1. PICK gone \in SUBSET transfers : FinishTransfers(transfers, gone)
    BY <1>11 DEF DriveSocket, SocketAction
  <2> QED BY <1>2, <1>11, <2>1
<1>12. ASSUME NEW f \in Sockets, Redrive(f) PROVE Goal
  <2>1. CASE shutdown
    BY <1>12, <2>1, TransfersSame DEF Redrive
  <2>2. CASE ~shutdown
    BY <1>11, <1>12, <2>2 DEF Redrive
  <2> QED BY <2>1, <2>2
<1>13. ASSUME NEW f \in Sockets, NEW d \in Directions, SocketReady(f, d) PROVE Goal
  BY <1>11, <1>13 DEF SocketReady
<1>14. ASSUME NEW f \in Sockets, NEW d \in Directions, SocketError(f, d) PROVE Goal
  <2>1. PICK gone \in SUBSET transfers : FinishTransfers(transfers, gone)
    BY <1>14 DEF SocketError, SocketAction
  <2> QED BY <1>2, <1>14, <2>1 DEF SocketError
<1>15. ASSUME NEW f \in Sockets, NEW d \in Directions, OldSocketReady(f, d) PROVE Goal
  BY <1>15, TransfersSame DEF OldSocketReady
<1>16. CASE OnTimeout
  <2>1. PICK gone \in SUBSET transfers : FinishTransfers(transfers, gone)
    BY <1>16 DEF OnTimeout, SocketTimeout, SocketAction
  <2> QED BY <1>2, <1>16, <2>1 DEF OnTimeout
<1>17. CASE TimerExpires \/ OldTimeout \/ UNCHANGED curlVars
  BY <1>17, TransfersSame DEF TimerExpires, OldTimeout, curlVars
<1> QED
  BY <1>4, <1>5, <1>6, <1>7, <1>8, <1>9, <1>10, <1>12, <1>13, <1>14, <1>15, <1>16, <1>17 DEF CurlNext

\* CurlMulti, "Every handle we were given must get exactly one callback": for any sets of transfers
\* and descriptors, whatever libcurl says and whenever a transfer is cancelled, the plugin unloaded
\* or the client shut down, the client implements OneAnswer.
THEOREM CurlImplementsOneAnswer == CurlSpec => CurlAnswersOnce
<1>1. CurlInit => CurlInv /\ Contract!Init
  BY CurlInitInv
<1>2. CurlInv /\ [CurlNext]_curlVars => CurlInv' /\ [Contract!Next]_CurlStatus
  BY CurlStep
<1> QED BY <1>1, <1>2, PTL DEF CurlSpec, CurlAnswersOnce, Contract!Spec

-----------------------------------------------------------------------------
(* What libcurl wants of its sockets                                          *)

SocketStates == [open : BOOLEAN, want : SUBSET Directions, flight : SUBSET Directions, waits : [Directions -> Nat]]

\* The flags of a socket say what waits it has, one for each direction in flight.
Counted(s) == s \in SocketStates /\ \A d \in Directions : s.waits[d] = IF d \in s.flight THEN 1 ELSE 0

\* What is wanted of an open socket is waited for; n re-drives will look at the reading end.
Heard(s, n) == s.open => s.want \subseteq s.flight \cup {d \in {In} : n > 0}

SocketsInv ==
    /\ redrives \in [Sockets -> Nat]
    /\ sock = [f \in Sockets |-> sock[f]]
    /\ \A f \in Sockets : Counted(sock[f]) /\ Heard(sock[f], redrives[f])

\* After Shutdown nothing calls libcurl any more: the posted re-drives find no socket.
Quiet == shutdown => timer = "none" /\ \A f \in Sockets : sock[f] = Closed

\* ArmSocket makes up for every direction without a wait.
LEMMA ArmHears ==
    ASSUME NEW s, Counted(s), NEW n \in Nat
    PROVE  Counted(ArmSocket(s)) /\ Heard(ArmSocket(s), n) /\ ArmSocket(s).open = s.open
<1> DEFINE new == s.want \ s.flight
<1> DEFINE a == ArmSocket(s)
<1>1. s \in SocketStates
  BY DEF Counted
<1>2. a = [s EXCEPT !.flight = s.flight \cup new,
                    !.waits = [d \in Directions |-> IF d \in new THEN s.waits[d] + 1 ELSE s.waits[d]]]
  BY DEF ArmSocket
<1>3. /\ a.open = s.open /\ a.want = s.want /\ a.flight = s.flight \cup new
      /\ a.waits = [d \in Directions |-> IF d \in new THEN s.waits[d] + 1 ELSE s.waits[d]]
      /\ a = [open |-> a.open, want |-> a.want, flight |-> a.flight, waits |-> a.waits]
  BY <1>1, <1>2 DEF SocketStates
<1> HIDE DEF a
<1>4. a.waits \in [Directions -> Nat] /\ a.flight \in SUBSET Directions
  BY <1>1, <1>3 DEF SocketStates
<1>5. a \in SocketStates
  BY <1>1, <1>3, <1>4 DEF SocketStates
<1>6. ASSUME NEW d \in Directions PROVE a.waits[d] = IF d \in a.flight THEN 1 ELSE 0
  BY <1>3 DEF Counted
<1>7. a.want \subseteq a.flight
  BY <1>3
<1> QED BY <1>3, <1>5, <1>6, <1>7 DEF Counted, Heard, a

\* A closed socket has no waits.
LEMMA ClosedIsCounted == Counted(Closed) /\ \A n \in Nat : Heard(Closed, n)
BY DEF Counted, Heard, Closed, SocketStates

\* A socket that libcurl watches is armed before its callback returns.
LEMMA WatchHears ==
    ASSUME NEW s, Counted(s), NEW want \in SUBSET Directions, NEW n \in Nat
    PROVE  LET w == ArmSocket([s EXCEPT !.open = TRUE, !.want = want]) IN Counted(w) /\ Heard(w, n)
<1> DEFINE b == [s EXCEPT !.open = TRUE, !.want = want]
<1>1. Counted(b)
  BY DEF Counted, SocketStates
<1> QED BY <1>1, ArmHears

\* OnSocketUpdate leaves a socket as it was, or closed, or armed for all that is wanted.
LEMMA UpdateHears ==
    ASSUME NEW s, Counted(s), NEW u \in SocketUpdates(s), NEW n \in Nat
    PROVE  Counted(u.now) /\ (u.now # s => Heard(u.now, n))
<1>1. \/ \E now \in {s} \cup {ArmSocket([s EXCEPT !.open = TRUE, !.want = want]) : want \in SUBSET Directions} :
             u = [now |-> now, removed |-> FALSE]
      \/ \E now \in {Closed} \cup {ArmSocket([Closed EXCEPT !.open = TRUE, !.want = want]) : want \in SUBSET Directions} :
             u = [now |-> now, removed |-> TRUE]
  BY DEF SocketUpdates
<1>2. ASSUME NEW base, Counted(base), NEW default, NEW flag,
             Counted(default), default # s => Heard(default, n),
             NEW now \in {default} \cup {ArmSocket([base EXCEPT !.open = TRUE, !.want = want]) : want \in SUBSET Directions},
             u = [now |-> now, removed |-> flag]
      PROVE  Counted(u.now) /\ (u.now # s => Heard(u.now, n))
  <2>1. u.now = now
    BY <1>2
  <2>2. now = default \/ \E want \in SUBSET Directions : now = ArmSocket([base EXCEPT !.open = TRUE, !.want = want])
    BY <1>2
  <2>3. CASE now = default
    BY <1>2, <2>1, <2>3
  <2>4. ASSUME NEW want \in SUBSET Directions, now = ArmSocket([base EXCEPT !.open = TRUE, !.want = want])
        PROVE  Counted(now) /\ Heard(now, n)
    BY <1>2, <2>4, WatchHears
  <2> QED BY <2>1, <2>2, <2>3, <2>4
<1>3. Counted(Closed) /\ Heard(Closed, n)
  BY ClosedIsCounted
<1>4. CASE \E now \in {s} \cup {ArmSocket([s EXCEPT !.open = TRUE, !.want = want]) : want \in SUBSET Directions} :
             u = [now |-> now, removed |-> FALSE]
  BY <1>2, <1>4
<1>5. CASE \E now \in {Closed} \cup {ArmSocket([Closed EXCEPT !.open = TRUE, !.want = want]) : want \in SUBSET Directions} :
             u = [now |-> now, removed |-> TRUE]
  BY <1>2, <1>3, <1>5
<1> QED BY <1>1, <1>4, <1>5

\* DriveSocket leaves the socket heard if reading was the only direction without a wait or the
\* socket is armed at the end.
LEMMA DriveHears ==
    ASSUME NEW s, Counted(s), NEW mask \in Directions, NEW n \in Nat,
           s.open /\ mask = In => s.want \subseteq s.flight \cup {In},
           NEW u \in SocketUpdates(s), NEW handles, NEW left,
           NEW again \in BOOLEAN, again = DriveAgain(u.now, mask, handles, left)
    PROVE  /\ Counted(AfterDrive(u.now, again))
           /\ Heard(AfterDrive(u.now, again), IF again THEN n + 1 ELSE n)
<1>1. Counted(u.now)
  BY UpdateHears
<1>2. CASE again
  <2>1. mask = In /\ n + 1 > 0 /\ n + 1 \in Nat /\ AfterDrive(u.now, again) = u.now
    <3>1. mask = In
      BY <1>2, Zenon DEF DriveAgain
    <3>2. AfterDrive(u.now, again) = u.now
      BY <1>2, Zenon DEF AfterDrive
    <3>3. n + 1 > 0 /\ n + 1 \in Nat
      OBVIOUS
    <3> QED BY <3>1, <3>2, <3>3
  <2>2. Heard(u.now, n + 1)
    <3>1. CASE u.now = s
      BY <2>1, <3>1 DEF Heard
    <3>2. CASE u.now # s
      BY <2>1, <3>2, UpdateHears
    <3> QED BY <3>1, <3>2
  <2> QED BY <1>1, <1>2, <2>1, <2>2
<1>3. CASE ~again /\ u.now.open
  BY <1>1, <1>3, ArmHears DEF AfterDrive
<1>4. CASE ~again /\ ~u.now.open
  BY <1>1, <1>4 DEF AfterDrive, Heard
<1> QED BY <1>2, <1>3, <1>4

\* The step of one socket.
LEMMA OneSocket ==
    ASSUME SocketsInv, NEW f \in Sockets, NEW s, NEW n \in Nat, Counted(s), Heard(s, n),
           sock' = [sock EXCEPT ![f] = s], redrives' = [redrives EXCEPT ![f] = n]
    PROVE  SocketsInv'
BY DEF SocketsInv

\* Every step keeps the sockets heard.
LEMMA SocketsStep ==
    ASSUME SocketsInv, Quiet, [CurlNext]_curlVars
    PROVE  SocketsInv'
<1>1. ASSUME NEW f \in Sockets, NEW s, Counted(s), Heard(s, redrives[f]),
             sock' = [sock EXCEPT ![f] = s], UNCHANGED redrives
      PROVE  SocketsInv'
  <2>1. redrives[f] \in Nat /\ redrives' = [redrives EXCEPT ![f] = redrives[f]]
    BY <1>1 DEF SocketsInv
  <2> QED BY <1>1, <2>1, OneSocket
<1>2. ASSUME NEW all, NEW endable, NEW now, SocketTimeout(all, endable, now) PROVE SocketsInv'
  <2>1. PICK f \in Sockets : \E u \in SocketUpdates(sock[f]) : sock' = [sock EXCEPT ![f] = u.now] /\ UNCHANGED redrives
    BY <1>2 DEF SocketTimeout
  <2> PICK u \in SocketUpdates(sock[f]) : sock' = [sock EXCEPT ![f] = u.now] /\ UNCHANGED redrives
    BY <2>1
  <2>2. Counted(sock[f]) /\ Heard(sock[f], redrives[f]) /\ redrives[f] \in Nat
    BY DEF SocketsInv
  <2>3. Counted(u.now) /\ Heard(u.now, redrives[f])
    BY <2>2, UpdateHears
  <2> QED BY <1>1, <2>1, <2>3
<1>3. ASSUME NEW f \in Sockets, NEW s, Counted(s), NEW mask \in Directions, NEW n \in Nat,
             s.open /\ mask = In => s.want \subseteq s.flight \cup {In}, DriveSocket(f, s, mask, n)
      PROVE  SocketsInv'
  <2>1. PICK gone \in SUBSET transfers, u \in SocketUpdates(s) : \E left \in {FALSE, readable[f] /\ ~u.removed} :
          LET again == DriveAgain(u.now, mask, transfers \ gone # {}, left)
          IN  /\ SocketAction(f, s, u, transfers, gone, timer)
              /\ sock' = [sock EXCEPT ![f] = AfterDrive(u.now, again)]
              /\ redrives' = [redrives EXCEPT ![f] = IF again THEN n + 1 ELSE n]
              /\ redrives'[f] <= MaxRedrives
              /\ readable' = [readable EXCEPT ![f] = left]
    BY <1>3, Zenon DEF DriveSocket
  <2>2. PICK left \in {FALSE, readable[f] /\ ~u.removed} :
          LET again == DriveAgain(u.now, mask, transfers \ gone # {}, left)
          IN  /\ sock' = [sock EXCEPT ![f] = AfterDrive(u.now, again)]
              /\ redrives' = [redrives EXCEPT ![f] = IF again THEN n + 1 ELSE n]
    BY <2>1, Zenon
  <2> DEFINE again == DriveAgain(u.now, mask, transfers \ gone # {}, left)
  <2>5. again \in BOOLEAN
    BY DEF DriveAgain
  <2>3. Counted(AfterDrive(u.now, again)) /\ Heard(AfterDrive(u.now, again), IF again THEN n + 1 ELSE n)
    BY <1>3, <2>5, DriveHears
  <2>4. (IF again THEN n + 1 ELSE n) \in Nat
    OBVIOUS
  <2> QED BY <2>2, <2>3, <2>4, OneSocket
<1>4. ASSUME NEW f \in Sockets
      PROVE  /\ Counted(sock[f]) /\ Heard(sock[f], redrives[f]) /\ sock[f] \in SocketStates /\ redrives[f] \in Nat
             /\ sock[f].open => sock[f].want \subseteq sock[f].flight \cup {In}
  BY DEF SocketsInv, Counted, Heard
<1>5. ASSUME UNCHANGED <<sock, redrives>> PROVE SocketsInv'
  BY <1>5 DEF SocketsInv
<1>6. ASSUME NEW t \in Transfers, AddTransfer(t) \/ CancelTransfer(t) PROVE SocketsInv'
  BY <1>2, <1>6 DEF AddTransfer, CancelTransfer
<1>7. ASSUME NEW t \in Transfers, AddRefused(t) \/ Complete(t) PROVE SocketsInv'
  BY <1>5, <1>7 DEF AddRefused, Complete
<1>8. CASE Shutdown
  <2>1. sock' = [f \in Sockets |-> Closed] /\ UNCHANGED redrives
    BY <1>8 DEF Shutdown
  <2> QED BY <2>1, ClosedIsCounted DEF SocketsInv
<1>9. ASSUME NEW f \in Sockets, Data(f) PROVE SocketsInv'
  BY <1>5, <1>9 DEF Data
<1>10. ASSUME NEW f \in Sockets, Redrive(f) PROVE SocketsInv'
  <2>1. redrives[f] > 0 /\ redrives[f] - 1 \in Nat
    BY <1>4, <1>10 DEF Redrive
  <2>2. CASE shutdown
    <3>1. UNCHANGED sock /\ redrives' = [redrives EXCEPT ![f] = redrives[f] - 1]
      BY <1>10, <2>2 DEF Redrive
    <3> QED BY <1>4, <2>1, <2>2, <3>1, ClosedIsCounted DEF SocketsInv, Quiet
  <2>3. CASE ~shutdown
    <3>1. DriveSocket(f, sock[f], In, redrives[f] - 1)
      BY <1>10, <2>3 DEF Redrive
    <3> QED BY <1>3, <1>4, <2>1, <3>1 DEF Directions
  <2> QED BY <2>2, <2>3
<1>11. ASSUME NEW f \in Sockets, NEW d \in Directions, SocketReady(f, d) PROVE SocketsInv'
  <2> DEFINE s == WaitEnds(f, d)
  <2>1. sock[f].waits[d] > 0 /\ DriveSocket(f, s, d, redrives[f])
    BY <1>11 DEF SocketReady
  <2>2. /\ s.open = sock[f].open /\ s.want = sock[f].want /\ s.flight = sock[f].flight \ {d}
        /\ s.waits = [sock[f].waits EXCEPT ![d] = sock[f].waits[d] - 1] /\ s \in SocketStates
    <3>1. s = [sock[f] EXCEPT !.flight = sock[f].flight \ {d}, !.waits = [sock[f].waits EXCEPT ![d] = sock[f].waits[d] - 1]]
      BY DEF WaitEnds
    <3>2. sock[f].waits[d] = 1 /\ sock[f].waits \in [Directions -> Nat]
      BY <1>4, <2>1 DEF Counted, SocketStates
    <3>3. [sock[f].waits EXCEPT ![d] = sock[f].waits[d] - 1] \in [Directions -> Nat]
      BY <3>2
    <3> QED BY <1>4, <3>1, <3>3 DEF SocketStates
  <2> HIDE DEF s
  <2>3. \A e \in Directions : s.waits[e] = IF e \in s.flight THEN 1 ELSE 0
    BY <1>4, <2>1, <2>2 DEF Counted, SocketStates
  <2>4. Counted(s) /\ (s.open /\ d = In => s.want \subseteq s.flight \cup {In})
    BY <1>4, <2>2, <2>3 DEF Counted
  <2> QED BY <1>3, <1>4, <2>1, <2>4
<1>12. ASSUME NEW f \in Sockets, NEW d \in Directions, SocketError(f, d) PROVE SocketsInv'
  <2>1. sock' = [sock EXCEPT ![f] = Closed] /\ UNCHANGED redrives
    BY <1>12 DEF SocketError
  <2> QED BY <1>1, <1>4, <2>1, ClosedIsCounted
<1>13. ASSUME NEW f \in Sockets, NEW d \in Directions, OldSocketReady(f, d) PROVE SocketsInv'
  <2>1. UNCHANGED <<sock, redrives>>
    BY <1>13 DEF OldSocketReady, OldSocket, SocketsInv
  <2> QED BY <1>5, <2>1
<1>14. CASE OnTimeout
  BY <1>2, <1>14 DEF OnTimeout
<1>15. CASE UnloadPlugin \/ TimerExpires \/ OldTimeout \/ UNCHANGED curlVars
  BY <1>5, <1>15 DEF UnloadPlugin, TimerExpires, OldTimeout, curlVars
<1> QED BY <1>6, <1>7, <1>8, <1>9, <1>10, <1>11, <1>12, <1>13, <1>14, <1>15 DEF CurlNext

\* Only a running client calls libcurl, which alone opens sockets and sets the timer.
LEMMA QuietStep ==
    ASSUME Quiet, [CurlNext]_curlVars
    PROVE  Quiet'
<1>1. CASE Shutdown
  BY <1>1 DEF Shutdown, Quiet
<1>2. CASE shutdown
  <2>1. timer = "none" /\ \A f \in Sockets : sock[f] = Closed
    BY <1>2 DEF Quiet
  <2>2. Closed.open = FALSE /\ \A d \in Directions : ~(Closed.waits[d] > 0)
    BY DEF Closed
  <2>3. ASSUME NEW f \in Sockets, NEW d \in Directions, SocketReady(f, d) \/ SocketError(f, d) PROVE FALSE
    BY <2>1, <2>2, <2>3 DEF SocketReady, SocketError
  <2>4. ASSUME NEW t \in Transfers, AddTransfer(t) \/ CancelTransfer(t) PROVE FALSE
    BY <1>2, <2>4 DEF AddTransfer, CancelTransfer
  <2>5. ~TimerExpires /\ ~OnTimeout
    BY <2>1 DEF TimerExpires, OnTimeout
  <2>6. ASSUME UNCHANGED <<shutdown, sock, timer>> PROVE Quiet'
    BY <2>6 DEF Quiet
  <2>7. ASSUME NEW t \in Transfers, AddRefused(t) \/ Complete(t) PROVE Quiet'
    BY <2>6, <2>7 DEF AddRefused, Complete
  <2>8. ASSUME NEW f \in Sockets, Data(f) \/ Redrive(f) PROVE Quiet'
    BY <1>2, <2>6, <2>8 DEF Data, Redrive
  <2>9. ASSUME NEW f \in Sockets, NEW d \in Directions, OldSocketReady(f, d) PROVE Quiet'
    <3>1. UNCHANGED <<shutdown, timer>> /\ sock' = [sock EXCEPT ![f] = sock[f]]
      BY <2>9 DEF OldSocketReady, OldSocket
    <3> QED BY <3>1 DEF Quiet
  <2>10. CASE UnloadPlugin \/ OldTimeout \/ UNCHANGED curlVars
    BY <2>6, <2>10 DEF UnloadPlugin, OldTimeout, curlVars
  <2> QED BY <1>1, <2>3, <2>4, <2>5, <2>7, <2>8, <2>9, <2>10 DEF CurlNext
<1>3. CASE ~shutdown /\ ~Shutdown
  <2>1. UNCHANGED shutdown
    BY <1>3 DEF CurlNext, AddRefused, AddTransfer, CancelTransfer, Complete, UnloadPlugin, Data, Redrive,
                SocketReady, SocketError, OldSocketReady, TimerExpires, OnTimeout, OldTimeout, curlVars
  <2> QED BY <1>3, <2>1 DEF Quiet
<1> QED BY <1>1, <1>2, <1>3

\* "StillReadable", ArmSocket and OnSocketUpdate: whatever libcurl asks for, for any transfers and
\* descriptors, what it wants of a socket has one wait or a re-drive.
THEOREM SocketsAreHeard == CurlSpec => []NeverDeaf
<1>1. CurlInit => SocketsInv /\ Quiet
  BY ClosedIsCounted DEF CurlInit, SocketsInv, Quiet
<1>2. SocketsInv /\ Quiet /\ [CurlNext]_curlVars => SocketsInv' /\ Quiet'
  BY SocketsStep, QuietStep
<1>3. SocketsInv => NeverDeaf
  BY DEF SocketsInv, Counted, Heard, NeverDeaf
<1> QED BY <1>1, <1>2, <1>3, PTL DEF CurlSpec

-----------------------------------------------------------------------------
(* The maps of LuaState                                                       *)

\* The ids come from one counter: a subscription has its callback's id and the next one, a timer
\* its own id and the next one for its callback.
SlotIds ==
    /\ \A x \in slots : x.callback \in Nat /\ x.id = x.callback + 1 /\ x.id < nextId
    /\ \A x, y \in slots : x.id = y.id => x = y

TimerIds ==
    /\ timers = [t \in DOMAIN timers |-> timers[t]]
    /\ \A t \in DOMAIN timers :
          /\ t \in Nat /\ t + 1 < nextId
          /\ timers[t].callback = t + 1 /\ timers[t].oneShot \in BOOLEAN

\* No two registrations share a callback.
Apart == \A x \in slots, t \in DOMAIN timers : x.callback # t + 1

\* The callbacks are those of the registrations, and a callback is a one-shot if its timer is.
CallbackIds ==
    /\ \A c : c \in DOMAIN callbacks <=> (\E x \in slots : x.callback = c) \/ (\E t \in DOMAIN timers : t + 1 = c)
    /\ \A x \in slots : callbacks[x.callback] = FALSE
    /\ \A t \in DOMAIN timers : callbacks[t + 1] = timers[t].oneShot
    /\ signals = {x.id : x \in slots}

WaitIds ==
    /\ \A t \in DOMAIN wait : t \in Nat /\ t < nextId /\ (wait[t] = "armed" => t \in DOMAIN timers)
    /\ \A t \in DOMAIN timers : t \in DOMAIN wait /\ wait[t] # "none"

\* An ended callback is in no map, and nothing is in the maps of a plugin that is gone.
EndedIds ==
    /\ \A c \in ended : c \in Nat /\ c < nextId /\ c \notin DOMAIN callbacks
    /\ ~alive => DOMAIN callbacks = {}

RegInv ==
    nextId \in Nat /\ SlotIds /\ TimerIds /\ Apart /\ CallbackIds /\ WaitIds /\ EndedIds /\ EndedIsSilent

\* events.on registers a callback and a connection under new ids.
LEMMA OnRegs ==
    ASSUME RegInv, NEW name, On(name)
    PROVE  RegInv'
<1> DEFINE new == [id |-> nextId + 1, name |-> name, callback |-> nextId]
<1>1. /\ alive /\ callbacks' = With(callbacks, nextId, FALSE) /\ called' = {}
      /\ signals' = signals \cup {nextId + 1} /\ slots' = slots \cup {new} /\ nextId' = nextId + 2
      /\ UNCHANGED <<alive, timers, wait, ended>>
  BY DEF On, RegisterCallback, timerVars
<1>2. new.id = nextId + 1 /\ new.callback = nextId
  OBVIOUS
<1> HIDE DEF new
<1>3. nextId \in Nat /\ nextId' \in Nat
  BY <1>1 DEF RegInv
<1>4. DOMAIN callbacks' = DOMAIN callbacks \cup {nextId} /\ callbacks'[nextId] = FALSE
      /\ \A j \in DOMAIN callbacks : j # nextId => callbacks'[j] = callbacks[j]
  BY <1>1 DEF With
<1>5. SlotIds'
  BY <1>1, <1>2, <1>3 DEF RegInv, SlotIds
<1>6. TimerIds' /\ WaitIds'
  BY <1>1, <1>3 DEF RegInv, TimerIds, WaitIds
<1>7. Apart'
  BY <1>1, <1>2, <1>3 DEF RegInv, Apart, TimerIds
<1>8. CallbackIds'
  <2>1. \A c : c \in DOMAIN callbacks' <=> (\E x \in slots' : x.callback = c) \/ (\E t \in DOMAIN timers' : t + 1 = c)
    BY <1>1, <1>2, <1>4 DEF RegInv, CallbackIds
  <2>2. \A x \in slots : x.callback \in DOMAIN callbacks /\ x.callback # nextId
    BY <1>3 DEF RegInv, CallbackIds, SlotIds
  <2>3. \A x \in slots' : callbacks'[x.callback] = FALSE
    BY <1>1, <1>2, <1>4, <2>2 DEF RegInv, CallbackIds
  <2>4. \A t \in DOMAIN timers : t + 1 \in DOMAIN callbacks /\ t + 1 # nextId
    BY <1>3 DEF RegInv, CallbackIds, TimerIds
  <2>5. \A t \in DOMAIN timers' : callbacks'[t + 1] = timers'[t].oneShot
    BY <1>1, <1>4, <2>4 DEF RegInv, CallbackIds
  <2>6. signals' = {x.id : x \in slots'}
    BY <1>1, <1>2 DEF RegInv, CallbackIds
  <2> QED BY <2>1, <2>3, <2>5, <2>6 DEF CallbackIds
<1>9. EndedIds'
  <2>1. \A c \in ended : c \in Nat /\ c < nextId' /\ c # nextId /\ c \notin DOMAIN callbacks
    BY <1>1, <1>3 DEF RegInv, EndedIds
  <2> QED BY <1>1, <1>4, <2>1 DEF EndedIds
<1>10. EndedIsSilent'
  BY <1>1 DEF EndedIsSilent
<1> QED BY <1>3, <1>5, <1>6, <1>7, <1>8, <1>9, <1>10 DEF RegInv

\* The cancel of a subscription finds its slot.
LEMMA SlotFound ==
    ASSUME RegInv, NEW s \in signals
    PROVE  Slot(s) \in slots /\ Slot(s).id = s
BY DEF RegInv, CallbackIds, Slot

\* It takes the subscription out of all maps.
LEMMA CancelOnRegs ==
    ASSUME RegInv, NEW s, CancelOn(s)
    PROVE  RegInv'
<1> DEFINE c == Slot(s).callback
<1>1. /\ alive /\ s \in signals /\ signals' = signals \ {s} /\ slots' = {x \in slots : x.id # s}
      /\ callbacks' = Without(callbacks, {c}) /\ called' = {} /\ ended' = ended \cup {c}
      /\ UNCHANGED <<alive, nextId, timers, wait>>
  BY DEF CancelOn, timerVars
<1>2. Slot(s) \in slots /\ Slot(s).id = s
  BY <1>1, SlotFound
<1>3. c \in Nat /\ s = c + 1 /\ c + 1 < nextId /\ nextId \in Nat
  BY <1>2 DEF RegInv, SlotIds
<1>4. \A x \in slots : x.callback = c <=> x.id = s
  BY <1>3 DEF RegInv, SlotIds
<1>5. \A t \in DOMAIN timers : t + 1 # c
  BY <1>2 DEF RegInv, Apart
<1> HIDE DEF c
<1>6. DOMAIN callbacks' = DOMAIN callbacks \ {c} /\ \A j \in DOMAIN callbacks : j # c => callbacks'[j] = callbacks[j]
  BY <1>1 DEF Without
<1>7. SlotIds' /\ TimerIds' /\ WaitIds' /\ Apart' /\ nextId' \in Nat
  BY <1>1 DEF RegInv, SlotIds, TimerIds, WaitIds, Apart
<1>8. CallbackIds'
  <2>1. \A d : d \in DOMAIN callbacks' <=> (\E x \in slots' : x.callback = d) \/ (\E t \in DOMAIN timers' : t + 1 = d)
    BY <1>1, <1>4, <1>5, <1>6 DEF RegInv, CallbackIds
  <2>2. \A x \in slots' : callbacks'[x.callback] = FALSE
    BY <1>1, <1>4, <1>6 DEF RegInv, CallbackIds
  <2>3. \A t \in DOMAIN timers' : callbacks'[t + 1] = timers'[t].oneShot
    BY <1>1, <1>5, <1>6 DEF RegInv, CallbackIds
  <2>4. signals' = {x.id : x \in slots'}
    BY <1>1 DEF RegInv, CallbackIds
  <2> QED BY <2>1, <2>2, <2>3, <2>4 DEF CallbackIds
<1>9. EndedIds' /\ EndedIsSilent'
  BY <1>1, <1>3, <1>6 DEF RegInv, EndedIds, EndedIsSilent
<1> QED BY <1>7, <1>8, <1>9 DEF RegInv

\* A timer is registered with its callback and its wait.
LEMMA StartTimerRegs ==
    ASSUME RegInv, NEW oneShot \in BOOLEAN, NEW again \in BOOLEAN, StartTimer(oneShot, again)
    PROVE  RegInv'
<1> DEFINE new == [oneShot |-> oneShot, callback |-> nextId + 1]
<1>1. /\ alive /\ callbacks' = With(callbacks, nextId + 1, oneShot) /\ called' = {}
      /\ timers' = With(timers, nextId, new) /\ nextId' = nextId + 2
      /\ wait' = With(wait, nextId, IF again THEN "armed" ELSE "stopped")
      /\ UNCHANGED <<alive, slots, signals, ended>>
  BY DEF StartTimer, RegisterCallback, Arm, eventVars
<1>2. new.oneShot = oneShot /\ new.callback = nextId + 1
  OBVIOUS
<1> HIDE DEF new
<1>3. nextId \in Nat /\ nextId' \in Nat /\ nextId + 1 \in Nat
  BY <1>1 DEF RegInv
<1>4. DOMAIN callbacks' = DOMAIN callbacks \cup {nextId + 1} /\ callbacks'[nextId + 1] = oneShot
      /\ \A j \in DOMAIN callbacks : j # nextId + 1 => callbacks'[j] = callbacks[j]
  BY <1>1 DEF With
<1>5. DOMAIN timers' = DOMAIN timers \cup {nextId} /\ timers'[nextId] = new
      /\ timers' = [t \in DOMAIN timers' |-> timers'[t]]
      /\ \A t \in DOMAIN timers : t # nextId => timers'[t] = timers[t]
  BY <1>1 DEF With
<1>6. DOMAIN wait' = DOMAIN wait \cup {nextId} /\ wait'[nextId] \in {"armed", "stopped"}
      /\ \A t \in DOMAIN wait : t # nextId => wait'[t] = wait[t]
  BY <1>1 DEF With
<1>7. (\A t \in DOMAIN timers : t # nextId /\ t + 1 # nextId + 1) /\ \A t \in DOMAIN wait : t # nextId
  BY <1>3 DEF RegInv, TimerIds, WaitIds
<1>8. \A x \in slots : x.callback # nextId + 1
  BY <1>3 DEF RegInv, SlotIds
<1>9. SlotIds'
  BY <1>1, <1>3 DEF RegInv, SlotIds
<1>10. TimerIds'
  BY <1>1, <1>2, <1>3, <1>5, <1>7 DEF RegInv, TimerIds
<1>11. Apart'
  BY <1>1, <1>5, <1>8 DEF RegInv, Apart
<1>12. CallbackIds'
  <2>1. \A c : c \in DOMAIN callbacks' <=> (\E x \in slots' : x.callback = c) \/ (\E t \in DOMAIN timers' : t + 1 = c)
    BY <1>1, <1>4, <1>5 DEF RegInv, CallbackIds
  <2>2. \A x \in slots' : callbacks'[x.callback] = FALSE
    BY <1>1, <1>4, <1>8 DEF RegInv, CallbackIds
  <2>3. \A t \in DOMAIN timers : callbacks'[t + 1] = timers'[t].oneShot
    BY <1>4, <1>5, <1>7 DEF RegInv, CallbackIds
  <2>4. \A t \in DOMAIN timers' : callbacks'[t + 1] = timers'[t].oneShot
    BY <1>2, <1>4, <1>5, <2>3
  <2> QED BY <1>1, <2>1, <2>2, <2>4 DEF RegInv, CallbackIds
<1>13. WaitIds'
  BY <1>1, <1>3, <1>5, <1>6, <1>7 DEF RegInv, WaitIds
<1>14. EndedIds' /\ EndedIsSilent'
  <2>1. \A c \in ended : c \in Nat /\ c < nextId' /\ c # nextId + 1 /\ c \notin DOMAIN callbacks
    BY <1>1, <1>3 DEF RegInv, EndedIds
  <2> QED BY <1>1, <1>4, <2>1 DEF EndedIds, EndedIsSilent
<1> QED BY <1>3, <1>9, <1>10, <1>11, <1>12, <1>13, <1>14 DEF RegInv

\* CancelTimer takes the timer out of all maps; a handler that is queued stays queued.
LEMMA CancelTimerRegs ==
    ASSUME RegInv, NEW t, CancelTimer(t)
    PROVE  RegInv'
<1> DEFINE c == t + 1
<1>0. t \in DOMAIN timers /\ timers[t].callback = c /\ t \in Nat /\ c \in Nat /\ c < nextId /\ nextId \in Nat
  BY DEF CancelTimer, RegInv, TimerIds
<1>1. /\ alive /\ timers' = Without(timers, {t}) /\ wait' = Cancelled({t})
      /\ callbacks' = Without(callbacks, {c}) /\ called' = {} /\ ended' = ended \cup {c}
      /\ UNCHANGED <<alive, nextId, slots, signals>>
  BY <1>0 DEF CancelTimer, eventVars
<1>2. DOMAIN callbacks' = DOMAIN callbacks \ {c} /\ \A j \in DOMAIN callbacks : j # c => callbacks'[j] = callbacks[j]
  BY <1>1 DEF Without
<1>3. DOMAIN timers' = DOMAIN timers \ {t} /\ (\A j \in DOMAIN timers : j # t => timers'[j] = timers[j])
      /\ timers' = [j \in DOMAIN timers' |-> timers'[j]]
  BY <1>1 DEF Without
<1>4. DOMAIN wait' = DOMAIN wait /\ wait'[t] # "armed" /\ \A j \in DOMAIN wait : j # t => wait'[j] = wait[j]
  BY <1>0, <1>1 DEF Cancelled, RegInv, WaitIds
<1>5. (\A x \in slots : x.callback # c) /\ \A j \in DOMAIN timers : j + 1 = c <=> j = t
  BY <1>0 DEF RegInv, Apart, TimerIds
<1> HIDE DEF c
<1>6. SlotIds' /\ TimerIds' /\ Apart'
  BY <1>1, <1>3 DEF RegInv, SlotIds, TimerIds, Apart
<1>7. WaitIds'
  BY <1>1, <1>3, <1>4 DEF RegInv, WaitIds
<1>8. CallbackIds'
  <2>1. \A d : d \in DOMAIN callbacks' <=> (\E x \in slots' : x.callback = d) \/ (\E j \in DOMAIN timers' : j + 1 = d)
    BY <1>1, <1>2, <1>3, <1>5 DEF RegInv, CallbackIds
  <2>2. \A x \in slots' : callbacks'[x.callback] = FALSE
    BY <1>1, <1>2, <1>5 DEF RegInv, CallbackIds
  <2>3. \A j \in DOMAIN timers' : callbacks'[j + 1] = timers'[j].oneShot
    BY <1>2, <1>3, <1>5 DEF RegInv, CallbackIds
  <2> QED BY <1>1, <2>1, <2>2, <2>3 DEF RegInv, CallbackIds
<1>9. EndedIds' /\ EndedIsSilent'
  BY <1>0, <1>1, <1>2 DEF RegInv, EndedIds, EndedIsSilent
<1> QED BY <1>0, <1>1, <1>6, <1>7, <1>8, <1>9 DEF RegInv

\* A step that leaves the maps alone, and at most calls a callback that is there.
LEMMA SameRegs ==
    ASSUME RegInv, UNCHANGED <<alive, nextId, callbacks, signals, slots, timers, ended>>, WaitIds', called' \subseteq DOMAIN callbacks
    PROVE  RegInv'
<1>1. SlotIds' /\ TimerIds' /\ Apart' /\ CallbackIds' /\ nextId' \in Nat
  BY DEF RegInv, SlotIds, TimerIds, Apart, CallbackIds
<1>2. EndedIds' /\ EndedIsSilent'
  BY DEF RegInv, EndedIds, EndedIsSilent
<1> QED BY <1>1, <1>2 DEF RegInv

\* A timer fires: a one-shot goes with its callback, another one is armed again.
LEMMA FireRegs ==
    ASSUME RegInv, NEW t, NEW again, Fire(t, again)
    PROVE  RegInv'
<1> DEFINE c == t + 1
<1>0. t \in DOMAIN timers /\ timers[t].callback = c /\ t \in Nat /\ c \in DOMAIN callbacks
      /\ callbacks[c] = timers[t].oneShot /\ timers[t].oneShot \in BOOLEAN /\ wait[t] = "ready" /\ t \in DOMAIN wait
  BY DEF Fire, RegInv, TimerIds, CallbackIds, WaitIds
<1>1. /\ callbacks' = (IF callbacks[c] THEN Without(callbacks, {c}) ELSE callbacks) /\ called' = {c}
      /\ UNCHANGED <<alive, nextId, slots, signals, ended>>
  BY <1>0 DEF Fire, InvokeCallback, eventVars
<1>2. CASE ~timers[t].oneShot
  <2>1. UNCHANGED <<callbacks, timers>>
    BY <1>0, <1>1, <1>2 DEF Fire
  <2>2. wait' = With(wait, t, IF again THEN "armed" ELSE "stopped")
    BY <1>0, <1>2 DEF Fire, Arm
  <2>3. DOMAIN wait' = DOMAIN wait /\ wait'[t] \in {"armed", "stopped"} /\ \A j \in DOMAIN wait : j # t => wait'[j] = wait[j]
    BY <1>0, <2>2 DEF With
  <2>4. WaitIds'
    BY <1>0, <1>1, <2>1, <2>3 DEF RegInv, WaitIds
  <2> QED BY <1>0, <1>1, <2>1, <2>4, SameRegs
<1>3. CASE timers[t].oneShot
  <2>1. callbacks' = Without(callbacks, {c}) /\ timers' = Without(timers, {t}) /\ wait' = [wait EXCEPT ![t] = "none"]
    BY <1>0, <1>1, <1>3 DEF Fire
  <2>2. DOMAIN callbacks' = DOMAIN callbacks \ {c} /\ \A j \in DOMAIN callbacks : j # c => callbacks'[j] = callbacks[j]
    BY <2>1 DEF Without
  <2>3. DOMAIN timers' = DOMAIN timers \ {t} /\ (\A j \in DOMAIN timers : j # t => timers'[j] = timers[j])
        /\ timers' = [j \in DOMAIN timers' |-> timers'[j]]
    BY <2>1 DEF Without
  <2>4. DOMAIN wait' = DOMAIN wait /\ wait'[t] # "armed" /\ \A j \in DOMAIN wait : j # t => wait'[j] = wait[j]
    BY <1>0, <2>1
  <2>5. (\A x \in slots : x.callback # c) /\ \A j \in DOMAIN timers : j + 1 = c <=> j = t
    BY <1>0 DEF RegInv, Apart, TimerIds
  <2> HIDE DEF c
  <2>6. SlotIds' /\ TimerIds' /\ Apart' /\ nextId' \in Nat
    BY <1>1, <2>3 DEF RegInv, SlotIds, TimerIds, Apart
  <2>7. WaitIds'
    BY <1>1, <2>3, <2>4 DEF RegInv, WaitIds
  <2>8. CallbackIds'
    <3>1. \A d : d \in DOMAIN callbacks' <=> (\E x \in slots' : x.callback = d) \/ (\E j \in DOMAIN timers' : j + 1 = d)
      BY <1>1, <2>2, <2>3, <2>5 DEF RegInv, CallbackIds
    <3>2. \A x \in slots' : callbacks'[x.callback] = FALSE
      BY <1>1, <2>2, <2>5 DEF RegInv, CallbackIds
    <3>3. \A j \in DOMAIN timers' : callbacks'[j + 1] = timers'[j].oneShot
      BY <2>2, <2>3, <2>5 DEF RegInv, CallbackIds
    <3> QED BY <1>1, <3>1, <3>2, <3>3 DEF RegInv, CallbackIds
  <2>9. EndedIds' /\ EndedIsSilent'
    BY <1>0, <1>1, <2>2 DEF RegInv, EndedIds, EndedIsSilent
  <2> QED BY <2>6, <2>7, <2>8, <2>9 DEF RegInv
<1> QED BY <1>0, <1>2, <1>3

\* The next slot of a delivery is called only if its subscription is there.
LEMMA CallSlotRegs ==
    ASSUME RegInv, NEW s, CallSlot(s)
    PROVE  RegInv'
<1>1. UNCHANGED <<alive, nextId, signals, slots, timers, wait, ended>>
  BY DEF CallSlot, timerVars
<1>2. UNCHANGED callbacks /\ called' \subseteq DOMAIN callbacks
  <2>1. CASE s \in slots /\ alive /\ ~current.event.self
    <3>1. s.callback \in DOMAIN callbacks /\ callbacks[s.callback] = FALSE
      BY <2>1 DEF RegInv, CallbackIds
    <3>2. InvokeCallback(s.callback)
      BY <2>1 DEF CallSlot
    <3> QED BY <3>1, <3>2 DEF InvokeCallback
  <2>2. CASE ~(s \in slots /\ alive /\ ~current.event.self)
    BY <2>2 DEF CallSlot
  <2> QED BY <2>1, <2>2
<1>3. WaitIds'
  BY <1>1 DEF RegInv, WaitIds
<1> QED BY <1>1, <1>2, <1>3, SameRegs

\* The end of the plugin empties the maps.
LEMMA UnloadRegs ==
    ASSUME RegInv, Unload
    PROVE  RegInv'
<1>1. /\ callbacks' = <<>> /\ signals' = {} /\ timers' = <<>> /\ slots' = {} /\ called' = {}
      /\ wait' = Cancelled(DOMAIN timers) /\ UNCHANGED <<nextId, ended>>
  BY DEF Unload
<1>2. DOMAIN callbacks' = {} /\ DOMAIN timers' = {}
  BY <1>1
<1>3. SlotIds' /\ TimerIds' /\ Apart' /\ nextId' \in Nat
  BY <1>1, <1>2 DEF RegInv, SlotIds, TimerIds, Apart
<1>4. CallbackIds'
  BY <1>1, <1>2 DEF CallbackIds
<1>5. WaitIds'
  BY <1>1, <1>2 DEF Cancelled, RegInv, WaitIds
<1>6. EndedIds' /\ EndedIsSilent'
  BY <1>1, <1>2 DEF RegInv, EndedIds, EndedIsSilent
<1> QED BY <1>3, <1>4, <1>5, <1>6 DEF RegInv

\* Every step keeps the maps of LuaState in agreement.
LEMMA RegStep == RegInv /\ [PluginNext]_pluginVars => RegInv'
<1> SUFFICES ASSUME RegInv, [PluginNext]_pluginVars PROVE RegInv'
  OBVIOUS
<1>1. ASSUME UNCHANGED <<alive, nextId, callbacks, signals, slots, timers, wait, ended>>, called' = {} PROVE RegInv'
  <2>1. WaitIds'
    BY <1>1 DEF RegInv, WaitIds
  <2> QED BY <1>1, <2>1, SameRegs
<1>2. ASSUME NEW name \in Names, NEW self \in BOOLEAN, Publish(name, self) PROVE RegInv'
  BY <1>1, <1>2 DEF Publish, timerVars
<1>3. CASE Deliver
  BY <1>1, <1>3 DEF Deliver, timerVars
<1>4. ASSUME NEW t, Expire(t) PROVE RegInv'
  <2>1. /\ t \in DOMAIN wait /\ wait[t] = "armed" /\ wait' = [wait EXCEPT ![t] = "ready"] /\ called' = {}
        /\ UNCHANGED <<alive, nextId, callbacks, signals, slots, timers, ended>>
    BY <1>4 DEF Expire, eventVars
  <2>2. WaitIds'
    BY <2>1 DEF RegInv, WaitIds
  <2> QED BY <2>1, <2>2, SameRegs
<1>5. ASSUME NEW t, FireEnded(t) PROVE RegInv'
  <2>1. /\ t \in DOMAIN wait /\ t \notin DOMAIN timers /\ wait' = [wait EXCEPT ![t] = "none"] /\ called' = {}
        /\ UNCHANGED <<alive, nextId, callbacks, signals, slots, timers, ended>>
    BY <1>5 DEF FireEnded, eventVars
  <2>2. WaitIds'
    BY <2>1 DEF RegInv, WaitIds
  <2> QED BY <2>1, <2>2, SameRegs
<1>6. CASE UNCHANGED pluginVars
  <2>1. UNCHANGED <<alive, nextId, callbacks, signals, slots, timers, wait, ended, called>>
    BY <1>6 DEF pluginVars, eventVars, timerVars
  <2> QED BY <2>1 DEF RegInv, SlotIds, TimerIds, Apart, CallbackIds, WaitIds, EndedIds, EndedIsSilent
<1> QED
  BY <1>2, <1>3, <1>4, <1>5, <1>6, OnRegs, CancelOnRegs, CallSlotRegs, StartTimerRegs, CancelTimerRegs, FireRegs, UnloadRegs
  DEF PluginNext

\* LuaState starts with empty maps.
LEMMA RegInit == PluginInit => RegInv
<1> SUFFICES ASSUME PluginInit PROVE RegInv
  OBVIOUS
<1>1. /\ alive = TRUE /\ nextId = 1 /\ callbacks = <<>> /\ signals = {} /\ slots = {} /\ timers = <<>> /\ wait = <<>>
      /\ called = {} /\ ended = {}
  BY DEF PluginInit
<1>2. DOMAIN callbacks = {} /\ DOMAIN timers = {} /\ DOMAIN wait = {}
  BY <1>1
<1>3. SlotIds /\ TimerIds /\ Apart /\ WaitIds /\ nextId \in Nat
  BY <1>1, <1>2 DEF SlotIds, TimerIds, Apart, WaitIds
<1>4. CallbackIds /\ EndedIds /\ EndedIsSilent
  BY <1>1, <1>2 DEF CallbackIds, EndedIds, EndedIsSilent
<1> QED BY <1>3, <1>4 DEF RegInv

\* RemoveCallback, CancelScopedConnection, CancelTimer, TriggerTimer and ~LuaState: whatever a plugin
\* subscribes, starts and cancels, and in whatever order its handlers run, the maps of its state
\* hold just what is active, and no callback is called after its registration or the plugin ended.
THEOREM RegistrationsEndCompletely == PluginSpec => []RegistrationsEnd
<1>1. RegInv => RegistrationsEnd
  <2> SUFFICES ASSUME RegInv PROVE MapsAgree
    BY DEF RegInv, RegistrationsEnd
  <2>1. {timers[t].callback : t \in DOMAIN timers} = {t + 1 : t \in DOMAIN timers}
    BY DEF RegInv, TimerIds
  <2>2. DOMAIN callbacks = {x.callback : x \in slots} \cup {t + 1 : t \in DOMAIN timers}
    BY DEF RegInv, CallbackIds
  <2> QED BY <2>1, <2>2 DEF MapsAgree, RegInv, CallbackIds, WaitIds
<1> QED BY <1>1, RegInit, RegStep, PTL DEF PluginSpec

-----------------------------------------------------------------------------
(* Events                                                                     *)

EventType == [id : Nat, name : Names, self : BOOLEAN]

\* The posted events have consecutive numbers, after the one that is delivered.
PostedIds ==
    /\ posted \in Seq(EventType) /\ lastEvent \in Nat /\ Len(posted) <= lastEvent
    /\ \A i \in 1..Len(posted) : posted[i].id = lastEvent - Len(posted) + i

\* A slot that a delivery has still to call is as it was when the delivery began, or is gone.
RestIds ==
    /\ current = [event |-> current.event, rest |-> current.rest]
    /\ current.event.id \in Nat /\ current.event.id <= lastEvent - Len(posted)
    /\ \A x \in current.rest : x.id \in Nat /\ x.id < nextId /\ \A y \in slots : x.id = y.id => x = y

\* The posted event with number e will be given to slot x.
PostedTo(e, x) == \E i \in 1..Len(posted) : posted[i].id = e /\ posted[i].name = x.name /\ ~posted[i].self

\* The event that is delivered has number e and will be given to slot x.
ComesTo(e, x) == current.event.id = e /\ x \in current.rest /\ ~current.event.self

\* What a subscription is owed is on its way to it.
OwedComes ==
    \A s \in DOMAIN owed : \A e \in owed[s] :
        e \in Nat /\ \E x \in slots : x.id = s /\ (PostedTo(e, x) \/ ComesTo(e, x))

EventInv == PostedIds /\ RestIds /\ OwedComes

\* An event is posted behind the others.
LEMMA AppendPosted ==
    ASSUME PostedIds, NEW e \in EventType, e.id = lastEvent + 1, posted' = Append(posted, e), lastEvent' = lastEvent + 1
    PROVE  /\ PostedIds' /\ lastEvent' - Len(posted') = lastEvent - Len(posted)
           /\ \E i \in 1..Len(posted') : posted'[i] = e
           /\ \A d, x : PostedTo(d, x) => PostedTo(d, x)'
<1>1. /\ posted' \in Seq(EventType) /\ Len(posted') = Len(posted) + 1 /\ posted'[Len(posted) + 1] = e
      /\ Len(posted) \in Nat /\ \A i \in 1..Len(posted) : posted'[i] = posted[i]
  BY DEF PostedIds
<1>2. lastEvent \in Nat /\ lastEvent' - Len(posted') = lastEvent - Len(posted)
  BY <1>1 DEF PostedIds
<1>3. \A i \in 1..Len(posted') : i \in 1..Len(posted) \/ i = Len(posted) + 1
  BY <1>1
<1>4. PostedIds'
  <2>1. ASSUME NEW i \in 1..Len(posted') PROVE posted'[i].id = lastEvent' - Len(posted') + i
    <3>1. CASE i \in 1..Len(posted)
      BY <1>1, <1>2, <3>1 DEF PostedIds
    <3>2. CASE i = Len(posted) + 1
      BY <1>1, <1>2, <3>2
    <3> QED BY <1>3, <3>1, <3>2
  <2> QED BY <1>1, <1>2, <2>1 DEF PostedIds
<1>5. Len(posted) + 1 \in 1..Len(posted') /\ \A i \in 1..Len(posted) : i \in 1..Len(posted')
  BY <1>1
<1>6. ASSUME NEW d, NEW x, PostedTo(d, x) PROVE PostedTo(d, x)'
  BY <1>1, <1>5, <1>6 DEF PostedTo
<1> QED BY <1>1, <1>2, <1>4, <1>5, <1>6

\* The first posted event is taken.
LEMMA TailPosted ==
    ASSUME PostedIds, posted # <<>>, posted' = Tail(posted), UNCHANGED lastEvent
    PROVE  /\ PostedIds' /\ Head(posted) \in EventType /\ Head(posted).id = lastEvent' - Len(posted')
           /\ \A d, x : PostedTo(d, x) =>
                 PostedTo(d, x)' \/ (Head(posted).id = d /\ Head(posted).name = x.name /\ ~Head(posted).self)
<1>1. /\ posted' \in Seq(EventType) /\ Len(posted') = Len(posted) - 1 /\ Head(posted) = posted[1] /\ Head(posted) \in EventType
      /\ Len(posted) \in Nat /\ Len(posted) > 0 /\ \A i \in 1..Len(posted') : posted'[i] = posted[i + 1]
  BY DEF PostedIds
<1>2. lastEvent \in Nat /\ Len(posted) <= lastEvent /\ Head(posted).id = lastEvent' - Len(posted')
  BY <1>1 DEF PostedIds
<1>3. \A i \in 1..Len(posted') : i + 1 \in 1..Len(posted)
  BY <1>1
<1>4. PostedIds'
  <2>1. ASSUME NEW i \in 1..Len(posted') PROVE posted'[i].id = lastEvent' - Len(posted') + i
    <3>1. posted'[i] = posted[i + 1] /\ i + 1 \in 1..Len(posted)
      BY <1>1, <1>3
    <3>2. posted[i + 1].id = lastEvent - Len(posted) + (i + 1)
      BY <3>1 DEF PostedIds
    <3> QED BY <1>1, <1>2, <3>1, <3>2
  <2>2. Len(posted') <= lastEvent'
    BY <1>1, <1>2
  <2> QED BY <1>1, <1>2, <2>1, <2>2 DEF PostedIds
<1>5. ASSUME NEW d, NEW x, NEW i \in 1..Len(posted), posted[i].id = d /\ posted[i].name = x.name /\ ~posted[i].self
      PROVE  PostedTo(d, x)' \/ (Head(posted).id = d /\ Head(posted).name = x.name /\ ~Head(posted).self)
  <2>1. CASE i = 1
    BY <1>1, <1>5, <2>1
  <2>2. CASE i # 1
    <3>1. i - 1 \in 1..Len(posted') /\ (i - 1) + 1 = i
      BY <1>1, <1>5, <2>2
    <3>2. posted'[i - 1] = posted[i]
      BY <1>1, <3>1
    <3> QED BY <1>5, <3>1, <3>2 DEF PostedTo
  <2> QED BY <2>1, <2>2
<1>6. ASSUME NEW d, NEW x, PostedTo(d, x)
      PROVE  PostedTo(d, x)' \/ (Head(posted).id = d /\ Head(posted).name = x.name /\ ~Head(posted).self)
  <2>1. PICK i \in 1..Len(posted) : posted[i].id = d /\ posted[i].name = x.name /\ ~posted[i].self
    BY <1>6 DEF PostedTo
  <2> QED BY <1>5, <2>1
<1> QED BY <1>1, <1>2, <1>4, <1>6

\* Steps that are not about events.
LEMMA SameEvents ==
    ASSUME EventInv, UNCHANGED <<nextId, eventVars>> \/ (UNCHANGED eventVars /\ nextId \in Nat /\ nextId' \in Nat /\ nextId < nextId')
    PROVE  EventInv'
<1>1. UNCHANGED <<slots, posted, current, lastEvent, owed>>
  BY DEF eventVars
<1>2. PostedIds' /\ OwedComes'
  BY <1>1 DEF EventInv, PostedIds, OwedComes, PostedTo, ComesTo
<1>3. \A n \in Nat : n < nextId => n < nextId'
  OBVIOUS
<1>4. RestIds'
  BY <1>1, <1>3 DEF EventInv, RestIds
<1> QED BY <1>2, <1>4 DEF EventInv

\* A new subscription is owed nothing yet.
LEMMA OnEvents ==
    ASSUME RegInv, EventInv, NEW name, On(name)
    PROVE  EventInv'
<1>1. /\ UNCHANGED <<posted, current, lastEvent>> /\ nextId' = nextId + 2 /\ owed' = With(owed, nextId + 1, {})
      /\ slots' = slots \cup {[id |-> nextId + 1, name |-> name, callback |-> nextId]}
  BY DEF On
<1>2. nextId \in Nat
  BY DEF RegInv
<1>3. PostedIds'
  BY <1>1 DEF EventInv, PostedIds
<1>4. RestIds'
  BY <1>1, <1>2 DEF EventInv, RestIds
<1>5. OwedComes'
  <2>1. \A s \in DOMAIN owed' : \A e \in owed'[s] : s \in DOMAIN owed /\ e \in owed[s]
    BY <1>1 DEF With
  <2>2. slots \subseteq slots' /\ \A e, x : (PostedTo(e, x) => PostedTo(e, x)') /\ (ComesTo(e, x) => ComesTo(e, x)')
    BY <1>1 DEF PostedTo, ComesTo
  <2> QED BY <2>1, <2>2 DEF EventInv, OwedComes
<1> QED BY <1>3, <1>4, <1>5 DEF EventInv

\* A cancelled subscription is owed nothing more, the others are still there.
LEMMA CancelOnEvents ==
    ASSUME RegInv, EventInv, NEW s, CancelOn(s)
    PROVE  EventInv'
<1>1. /\ UNCHANGED <<posted, current, lastEvent, nextId>> /\ owed' = [owed EXCEPT ![s] = {}]
      /\ slots' = {x \in slots : x.id # s}
  BY DEF CancelOn
<1>2. PostedIds' /\ RestIds'
  BY <1>1 DEF EventInv, PostedIds, RestIds
<1>3. \A d \in DOMAIN owed' : \A e \in owed'[d] : d \in DOMAIN owed /\ e \in owed[d] /\ d # s
  BY <1>1
<1>4. \A e, x : (PostedTo(e, x) => PostedTo(e, x)') /\ (ComesTo(e, x) => ComesTo(e, x)')
  BY <1>1 DEF PostedTo, ComesTo
<1>5. OwedComes'
  BY <1>1, <1>3, <1>4 DEF EventInv, OwedComes
<1> QED BY <1>2, <1>5 DEF EventInv

\* Publish owes the event to the subscriptions of its name.
LEMMA PublishEvents ==
    ASSUME EventInv, NEW name \in Names, NEW self \in BOOLEAN, Publish(name, self)
    PROVE  EventInv'
<1> DEFINE e == [id |-> lastEvent + 1, name |-> name, self |-> self]
<1> DEFINE to == {x.id : x \in SlotsOf(name)}
<1>1. /\ lastEvent' = lastEvent + 1 /\ posted' = Append(posted, e) /\ UNCHANGED <<slots, current, nextId>>
      /\ owed' = [s \in DOMAIN owed |-> IF s \in to /\ ~self THEN owed[s] \cup {e.id} ELSE owed[s]]
  BY DEF Publish
<1>2. e \in EventType /\ e.id = lastEvent + 1 /\ e.name = name /\ (e.self <=> self) /\ e.id \in Nat
  BY DEF EventInv, PostedIds, EventType
<1> HIDE DEF e
<1>3. /\ PostedIds' /\ lastEvent' - Len(posted') = lastEvent - Len(posted)
      /\ \E i \in 1..Len(posted') : posted'[i] = e
      /\ \A d, x : PostedTo(d, x) => PostedTo(d, x)'
  BY <1>1, <1>2, AppendPosted DEF EventInv
<1>4. RestIds'
  BY <1>1, <1>3 DEF EventInv, RestIds
<1>5. \A d, x : ComesTo(d, x) => ComesTo(d, x)'
  BY <1>1 DEF ComesTo
<1>6. ASSUME NEW s \in DOMAIN owed', NEW d \in owed'[s]
      PROVE  d \in Nat /\ \E x \in slots' : x.id = s /\ (PostedTo(d, x)' \/ ComesTo(d, x)')
  <2>1. CASE s \in DOMAIN owed /\ d \in owed[s]
    BY <1>1, <1>3, <1>5, <2>1 DEF EventInv, OwedComes
  <2>2. CASE s \in to /\ ~self /\ d = e.id
    <3>1. PICK x \in slots : x.name = name /\ x.id = s
      BY <2>2 DEF SlotsOf
    <3>2. PostedTo(d, x)'
      BY <1>2, <1>3, <2>2, <3>1 DEF PostedTo
    <3> QED BY <1>1, <1>2, <2>2, <3>1, <3>2
  <2> QED BY <1>1, <1>6, <2>1, <2>2
<1> QED BY <1>3, <1>4, <1>6 DEF EventInv, OwedComes

\* Deliver finds every slot that is owed the event among those it will call.
LEMMA DeliverEvents ==
    ASSUME RegInv, EventInv, Deliver
    PROVE  EventInv'
<1> DEFINE e == Head(posted)
<1> DEFINE rest == SlotsOf(e.name)
<1>1. /\ current = NoDelivery /\ posted # <<>> /\ posted' = Tail(posted) /\ UNCHANGED <<lastEvent, slots, owed, nextId>>
      /\ current' = IF rest = {} THEN NoDelivery ELSE [event |-> e, rest |-> rest]
  BY DEF Deliver
<1>2. /\ PostedIds' /\ e \in EventType /\ e.id = lastEvent' - Len(posted')
      /\ \A d, x : PostedTo(d, x) => PostedTo(d, x)' \/ (e.id = d /\ e.name = x.name /\ ~e.self)
  BY <1>1, TailPosted DEF EventInv
<1> HIDE DEF e
<1>3. lastEvent' \in Nat /\ Len(posted') \in Nat /\ Len(posted') <= lastEvent' /\ e.id \in Nat
  BY <1>2 DEF PostedIds, EventType
<1>4. current' = NoDelivery \/ (current'.event = e /\ current'.rest = rest)
  BY <1>1
<1>5. NoDelivery.event.id = 0 /\ NoDelivery.rest = {} /\ NoDelivery = [event |-> NoDelivery.event, rest |-> NoDelivery.rest]
  BY DEF NoDelivery, NoEvent
<1>6. current' = [event |-> current'.event, rest |-> current'.rest]
  BY <1>1, <1>5
<1>7. RestIds'
  <2>1. current'.event.id \in Nat /\ current'.event.id <= lastEvent' - Len(posted')
    BY <1>2, <1>3, <1>4, <1>5
  <2>2. current'.rest \subseteq slots
    BY <1>4, <1>5 DEF SlotsOf
  <2> QED BY <1>1, <1>6, <2>1, <2>2 DEF RestIds, RegInv, SlotIds
<1>8. ASSUME NEW s \in DOMAIN owed', NEW d \in owed'[s]
      PROVE  d \in Nat /\ \E x \in slots' : x.id = s /\ (PostedTo(d, x)' \/ ComesTo(d, x)')
  <2>1. s \in DOMAIN owed /\ d \in owed[s]
    BY <1>1, <1>8
  <2>2. PICK x \in slots : d \in Nat /\ x.id = s /\ (PostedTo(d, x) \/ ComesTo(d, x))
    BY <2>1 DEF EventInv, OwedComes
  <2>3. ~ComesTo(d, x)
    BY <1>1, <1>5 DEF ComesTo
  <2>4. CASE PostedTo(d, x)'
    BY <1>1, <2>2, <2>4
  <2>5. CASE e.id = d /\ e.name = x.name /\ ~e.self
    <3>1. x \in rest
      BY <2>2, <2>5 DEF SlotsOf
    <3>2. current'.event = e /\ current'.rest = rest
      BY <1>1, <3>1
    <3> QED BY <1>1, <2>2, <2>5, <3>1, <3>2 DEF ComesTo
  <2> QED BY <1>2, <2>2, <2>3, <2>4, <2>5
<1> QED BY <1>2, <1>7, <1>8 DEF EventInv, OwedComes

\* A slot that is called has got the event; one that is skipped was not owed it.
LEMMA CallSlotEvents ==
    ASSUME RegInv, EventInv, NEW s, CallSlot(s)
    PROVE  EventInv'
<1>1. /\ UNCHANGED <<posted, lastEvent, slots, nextId, alive>> /\ s \in current.rest
      /\ current' = IF current.rest \ {s} = {} THEN NoDelivery ELSE [current EXCEPT !.rest = current.rest \ {s}]
  BY DEF CallSlot, SlotsLeft
<1>2. current = [event |-> current.event, rest |-> current.rest]
  BY DEF EventInv, RestIds
<1>3. NoDelivery.event.id = 0 /\ NoDelivery.rest = {} /\ NoDelivery = [event |-> NoDelivery.event, rest |-> NoDelivery.rest]
  BY DEF NoDelivery, NoEvent
<1>4. current' = NoDelivery \/ current' = [event |-> current.event, rest |-> current.rest \ {s}]
  BY <1>1, <1>2
<1>5. current.rest \ {s} # {} => current'.event = current.event /\ current'.rest = current.rest \ {s}
  BY <1>1, <1>2
<1>6. PostedIds'
  BY <1>1 DEF EventInv, PostedIds
<1>7. RestIds'
  <2>1. lastEvent - Len(posted) \in Nat /\ current.event.id \in Nat /\ current.event.id <= lastEvent - Len(posted)
    BY DEF EventInv, PostedIds, RestIds
  <2>2. current'.event.id \in Nat /\ current'.event.id <= lastEvent' - Len(posted')
    BY <1>1, <1>3, <1>4, <2>1
  <2>3. current'.rest \subseteq current.rest /\ current' = [event |-> current'.event, rest |-> current'.rest]
    BY <1>3, <1>4
  <2> QED BY <1>1, <2>2, <2>3 DEF EventInv, RestIds
<1>8. \A e, x : PostedTo(e, x) => PostedTo(e, x)'
  BY <1>1 DEF PostedTo
<1>9. \A e, x : ComesTo(e, x) /\ x # s => ComesTo(e, x)'
  BY <1>5 DEF ComesTo
<1>10. ASSUME NEW d \in DOMAIN owed', NEW e \in owed'[d]
       PROVE  d \in DOMAIN owed /\ e \in owed[d]
  BY <1>10 DEF CallSlot
<1>11. ASSUME NEW d \in DOMAIN owed', NEW e \in owed'[d]
       PROVE  e \in Nat /\ \E x \in slots' : x.id = d /\ (PostedTo(e, x)' \/ ComesTo(e, x)')
  <2>1. PICK x \in slots : e \in Nat /\ x.id = d /\ (PostedTo(e, x) \/ ComesTo(e, x))
    BY <1>10, <1>11 DEF EventInv, OwedComes
  <2>2. CASE x # s \/ PostedTo(e, x)
    BY <1>1, <1>8, <1>9, <2>1, <2>2
  <2>3. CASE x = s /\ ComesTo(e, x)
    <3>1. alive
      BY DEF RegInv, EndedIds, CallbackIds
    <3>2. owed' = [owed EXCEPT ![s.id] = owed[s.id] \ {current.event.id}]
      BY <2>1, <2>3, <3>1 DEF CallSlot, ComesTo
    <3> QED BY <1>10, <1>11, <2>1, <2>3, <3>2 DEF ComesTo
  <2> QED BY <2>1, <2>2, <2>3
<1> QED BY <1>6, <1>7, <1>11 DEF EventInv, OwedComes

\* The end of the plugin owes nothing to anybody.
LEMMA UnloadEvents ==
    ASSUME EventInv, Unload
    PROVE  EventInv'
<1>1. UNCHANGED <<posted, lastEvent, current, nextId>> /\ slots' = {} /\ owed' = [s \in DOMAIN owed |-> {}]
  BY DEF Unload
<1> QED BY <1>1 DEF EventInv, PostedIds, RestIds, OwedComes

\* Every step keeps the events on their way.
LEMMA EventStep == RegInv /\ EventInv /\ [PluginNext]_pluginVars => EventInv'
<1> SUFFICES ASSUME RegInv, EventInv, [PluginNext]_pluginVars PROVE EventInv'
  OBVIOUS
<1>1. ASSUME NEW oneShot, NEW again, StartTimer(oneShot, again) PROVE EventInv'
  <2>1. UNCHANGED eventVars /\ nextId' = nextId + 2 /\ nextId \in Nat
    BY <1>1 DEF StartTimer, RegInv
  <2>2. nextId' \in Nat /\ nextId < nextId'
    BY <2>1
  <2> QED BY <2>1, <2>2, SameEvents
<1>2. ASSUME NEW t, CancelTimer(t) \/ Expire(t) \/ FireEnded(t) \/ (\E again \in BOOLEAN : Fire(t, again)) PROVE EventInv'
  BY <1>2, SameEvents DEF CancelTimer, Expire, FireEnded, Fire
<1>3. CASE UNCHANGED pluginVars
  BY <1>3, SameEvents DEF pluginVars
<1> QED
  BY <1>1, <1>2, <1>3, OnEvents, CancelOnEvents, PublishEvents, DeliverEvents, CallSlotEvents, UnloadEvents
  DEF PluginNext

\* Events::Publish and Deliver: an event that was published while a subscription was connected is on
\* its way to it, behind the earlier ones, until the subscription gets it or ends, whatever the
\* callbacks of other subscriptions do in between.
THEOREM EventsAreKept == PluginSpec => []EventsKept
<1>1. PluginInit => EventInv
  <2> SUFFICES ASSUME PluginInit PROVE EventInv
    OBVIOUS
  <2>1. posted = <<>> /\ current = NoDelivery /\ lastEvent = 0 /\ owed = <<>>
    BY DEF PluginInit
  <2>2. Len(posted) = 0 /\ posted \in Seq(EventType) /\ DOMAIN owed = {}
    BY <2>1
  <2>3. PostedIds
    BY <2>1, <2>2 DEF PostedIds
  <2>4. RestIds
    BY <2>1, <2>2 DEF RestIds, NoDelivery, NoEvent
  <2> QED BY <2>2, <2>3, <2>4 DEF EventInv, OwedComes
<1>2. EventInv => EventsKept
  <2> SUFFICES ASSUME EventInv PROVE EventsKept
    OBVIOUS
  <2>1. ASSUME NEW s \in DOMAIN owed, NEW e \in owed[s]
        PROVE  /\ \/ \E i \in 1..Len(posted) : posted[i].id = e
                  \/ current.event.id = e /\ \E x \in current.rest : x.id = s
               /\ e >= current.event.id
    <3>1. PICK x \in slots : e \in Nat /\ x.id = s /\ (PostedTo(e, x) \/ ComesTo(e, x))
      BY <2>1 DEF EventInv, OwedComes
    <3>2. current.event.id \in Nat /\ current.event.id <= lastEvent - Len(posted) /\ lastEvent \in Nat /\ Len(posted) \in Nat
      BY DEF EventInv, PostedIds, RestIds
    <3>3. CASE ComesTo(e, x)
      BY <3>1, <3>2, <3>3 DEF ComesTo
    <3>4. CASE PostedTo(e, x)
      <4>1. PICK i \in 1..Len(posted) : posted[i].id = e
        BY <3>4 DEF PostedTo
      <4>2. e = lastEvent - Len(posted) + i
        BY <4>1 DEF EventInv, PostedIds
      <4> QED BY <3>2, <4>1, <4>2
    <3> QED BY <3>1, <3>3, <3>4
  <2>2. \A i \in 1..Len(posted) : posted[i].id = lastEvent - Len(posted) + i
    BY DEF EventInv, PostedIds
  <2> QED BY <2>1, <2>2 DEF EventsKept
<1> QED BY <1>1, <1>2, RegInit, RegStep, EventStep, PTL DEF PluginSpec
=============================================================================
