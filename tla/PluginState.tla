----------------------------- MODULE PluginState -----------------------------
(***************************************************************************)
(* The state of a running plugin (src/lua/pluginstate.hpp): its callbacks,  *)
(* its timers (src/timer.cpp, src/lua/packages/timers.cpp) and its          *)
(* subscriptions to events (src/events.cpp, src/lua/packages/events.cpp),   *)
(* until the plugin is unloaded.                                            *)
(*                                                                         *)
(* Everything runs on the io thread.  A delivery calls the subscribers one  *)
(* after the other, and their Lua code may subscribe, cancel and publish in *)
(* between: these are actions that are enabled at every point.              *)
(***************************************************************************)
EXTENDS Naturals, Sequences

CONSTANTS
    Names,      \* event names; "plugin" stands for plugin.*
    MaxId,      \* bound on the ids NextId gives out
    MaxEvents   \* bound on the events published

ASSUME PluginStateAssumption == MaxId \in Nat /\ MaxEvents \in Nat

VARIABLES
    alive,      \* the LuaState exists
    nextId,
    callbacks,  \* m_callbacks: id -> is it a one-shot
    signals,    \* m_signals: the connection ids
    slots,      \* the slots the plugin has connected; their ids are in the order of connection
    timers,     \* m_timers: timer id -> [oneShot, callback]
    wait,       \* the wait of each timer: "none", "armed", "ready" or "stopped"
    posted,     \* the deliveries posted to the io thread
    current,    \* the delivery that runs: its event and the slots still to be called
    lastEvent,  \* m_last_event_id
    called,     \* history: the callbacks that the last step called
    owed,       \* history: per connection, the events it has to get
    ended       \* history: the callbacks of cancelled subscriptions and timers

eventVars == <<signals, slots, posted, current, lastEvent, owed>>
timerVars == <<timers, wait>>
pluginVars == <<alive, nextId, callbacks, eventVars, timerVars, called, ended>>

NoEvent == [id |-> 0, name |-> "none", self |-> FALSE]
NoDelivery == [event |-> NoEvent, rest |-> {}]

With(f, i, v) == [j \in DOMAIN f \cup {i} |-> IF j = i THEN v ELSE f[j]]
Without(f, ids) == [j \in DOMAIN f \ ids |-> f[j]]

\* InvokeCallback: an unknown callback is only logged; a one-shot is erased first.
InvokeCallback(c) ==
    IF c \notin DOMAIN callbacks
    THEN callbacks' = callbacks /\ called' = {}
    ELSE /\ callbacks' = IF callbacks[c] THEN Without(callbacks, {c}) ELSE callbacks
         /\ called' = {c}

\* RegisterCallback with the id c.
RegisterCallback(c, oneShot) == callbacks' = With(callbacks, c, oneShot) /\ called' = {}

-----------------------------------------------------------------------------
(* Events                                                                    *)

\* events.on: the callback gets the first id, the connection the second.
On(name) ==
    /\ alive /\ nextId + 1 <= MaxId
    /\ RegisterCallback(nextId, FALSE)
    /\ signals' = signals \cup {nextId + 1}
    /\ slots' = slots \cup {[id |-> nextId + 1, name |-> name, callback |-> nextId]}
    /\ owed' = With(owed, nextId + 1, {})
    /\ nextId' = nextId + 2
    /\ UNCHANGED <<alive, posted, current, lastEvent, timerVars, ended>>

Slot(s) == CHOOSE x \in slots : x.id = s

\* cancel of a subscription: CancelScopedConnection, then RemoveCallback.  It runs once.
CancelOn(s) ==
    /\ alive /\ s \in signals
    /\ signals' = signals \ {s}
    /\ slots' = {x \in slots : x.id # s}
    /\ callbacks' = Without(callbacks, {Slot(s).callback}) /\ called' = {}
    /\ owed' = [owed EXCEPT ![s] = {}] /\ ended' = ended \cup {Slot(s).callback}
    /\ UNCHANGED <<alive, nextId, posted, current, lastEvent, timerVars>>

\* The slots of a signal, for HasSubscribers and for a delivery.
SlotsOf(name) == {x \in slots : x.name = name}

\* Events::Publish: nothing happens without subscribers.  An event is about the plugin
\* itself only if it is a plugin.* event.
Publish(name, self) ==
    LET e == [id |-> lastEvent + 1, name |-> name, self |-> self]
        to == {x.id : x \in SlotsOf(name)}
    IN  /\ self => name = "plugin"
        /\ to # {} /\ lastEvent < MaxEvents
        /\ lastEvent' = lastEvent + 1
        /\ posted' = Append(posted, e)
        /\ owed' = [s \in DOMAIN owed |-> IF s \in to /\ ~self THEN owed[s] \cup {e.id} ELSE owed[s]]
        /\ called' = {}
        /\ UNCHANGED <<alive, nextId, callbacks, signals, slots, current, timerVars, ended>>

\* Events::Deliver starts: the signal calls the slots connected now.
Deliver ==
    /\ current = NoDelivery /\ posted # <<>>
    /\ posted' = Tail(posted)
    /\ current' = LET rest == SlotsOf(Head(posted).name)
                  IN  IF rest = {} THEN NoDelivery ELSE [event |-> Head(posted), rest |-> rest]
    /\ called' = {}
    /\ UNCHANGED <<alive, nextId, callbacks, signals, slots, lastEvent, owed, timerVars, ended>>

\* Mutant: a slot that was disconnected ends the delivery.
BugSlotsLeft(s) == IF s \in slots THEN current.rest \ {s} ELSE {}

\* The slots still to be called after s.
SlotsLeft(s) == current.rest \ {s}

\* The next slot, in the order of connection: skipped when it is no longer connected, when
\* the plugin is gone, and when the event is about the plugin itself.
CallSlot(s) ==
    /\ s \in current.rest /\ \A x \in current.rest : s.id <= x.id
    /\ current' = IF SlotsLeft(s) = {} THEN NoDelivery ELSE [current EXCEPT !.rest = SlotsLeft(s)]
    /\ IF s \in slots /\ alive /\ ~current.event.self
       THEN InvokeCallback(s.callback) /\ owed' = [owed EXCEPT ![s.id] = @ \ {current.event.id}]
       ELSE called' = {} /\ UNCHANGED <<callbacks, owed>>
    /\ UNCHANGED <<alive, nextId, signals, slots, posted, lastEvent, timerVars, ended>>

-----------------------------------------------------------------------------
(* Timers                                                                    *)

\* Timer::Arm: a cron expression without a next time stops the timer.
Arm(t, again) == With(wait, t, IF again THEN "armed" ELSE "stopped")

\* Timer::Cancel, or ~Timer: a handler that is already queued stays queued.
Cancelled(ts) == [t \in DOMAIN wait |-> IF t \in ts /\ wait[t] # "ready" THEN "none" ELSE wait[t]]

\* timers.timeout, interval and cron: the timer gets the first id, its callback the
\* second.  Only a cron expression may have no next time.
StartTimer(oneShot, again) ==
    /\ alive /\ nextId + 1 <= MaxId
    /\ oneShot => again
    /\ timers' = With(timers, nextId, [oneShot |-> oneShot, callback |-> nextId + 1])
    /\ wait' = Arm(nextId, again)
    /\ RegisterCallback(nextId + 1, oneShot)
    /\ nextId' = nextId + 2
    /\ UNCHANGED <<alive, eventVars, ended>>

\* CancelTimer; a one-shot that has fired is gone and nothing happens.
CancelTimer(t) ==
    /\ alive /\ t \in DOMAIN timers
    /\ timers' = Without(timers, {t})
    /\ callbacks' = Without(callbacks, {timers[t].callback}) /\ called' = {}
    /\ wait' = Cancelled({t})
    /\ ended' = ended \cup {timers[t].callback}
    /\ UNCHANGED <<alive, nextId, eventVars>>

Expire(t) ==
    /\ t \in DOMAIN wait /\ wait[t] = "armed"
    /\ wait' = [wait EXCEPT ![t] = "ready"]
    /\ called' = {}
    /\ UNCHANGED <<alive, nextId, callbacks, eventVars, timers, ended>>

\* Timer::OnExpired of a timer that was cancelled or destroyed since it was queued.
FireEnded(t) ==
    /\ current = NoDelivery
    /\ t \in DOMAIN wait /\ wait[t] = "ready" /\ t \notin DOMAIN timers
    /\ wait' = [wait EXCEPT ![t] = "none"]
    /\ called' = {}
    /\ UNCHANGED <<alive, nextId, callbacks, eventVars, timers, ended>>

\* Mutant: TriggerTimer leaves a one-shot in m_timers.
BugFire(t, again) ==
    /\ current = NoDelivery
    /\ t \in DOMAIN timers /\ wait[t] = "ready"
    /\ InvokeCallback(timers[t].callback)
    /\ timers' = timers /\ wait' = Arm(t, again)
    /\ UNCHANGED <<alive, nextId, eventVars, ended>>

\* Timer::OnExpired arms the timer again and calls back; TriggerTimer erases a one-shot
\* first, and the end of the last reference to it cancels the new wait.
Fire(t, again) ==
    /\ current = NoDelivery
    /\ t \in DOMAIN timers /\ wait[t] = "ready"
    /\ InvokeCallback(timers[t].callback)
    /\ IF timers[t].oneShot
       THEN again /\ timers' = Without(timers, {t}) /\ wait' = [wait EXCEPT ![t] = "none"]
       ELSE timers' = timers /\ wait' = Arm(t, again)
    /\ UNCHANGED <<alive, nextId, eventVars, ended>>

-----------------------------------------------------------------------------

\* ~LuaState: the connections are cut, the timers cancelled, the maps go.
Unload ==
    /\ alive /\ current = NoDelivery
    /\ alive' = FALSE
    /\ callbacks' = <<>> /\ signals' = {} /\ timers' = <<>> /\ slots' = {} /\ called' = {}
    /\ wait' = Cancelled(DOMAIN timers)
    /\ owed' = [s \in DOMAIN owed |-> {}]
    /\ UNCHANGED <<nextId, posted, current, lastEvent, ended>>

PluginInit ==
    /\ alive = TRUE /\ nextId = 1 /\ callbacks = <<>>
    /\ signals = {} /\ slots = {} /\ timers = <<>> /\ wait = <<>>
    /\ posted = <<>> /\ current = NoDelivery /\ lastEvent = 0
    /\ called = {} /\ owed = <<>> /\ ended = {}

PluginNext ==
    \/ \E name \in Names : On(name)
    \/ \E s \in 1..MaxId : CancelOn(s)
    \/ \E name \in Names, self \in BOOLEAN : Publish(name, self)
    \/ Deliver
    \/ \E s \in current.rest : CallSlot(s)
    \/ \E oneShot, again \in BOOLEAN : StartTimer(oneShot, again)
    \/ \E t \in 1..MaxId : CancelTimer(t) \/ Expire(t) \/ FireEnded(t)
    \/ \E t \in 1..MaxId, again \in BOOLEAN : Fire(t, again)
    \/ Unload

PluginSpec == PluginInit /\ [][PluginNext]_pluginVars

-----------------------------------------------------------------------------

\* The maps of LuaState agree: the callbacks are those of the subscriptions and of the
\* timers (nothing is left behind by a cancel, a timeout or an unload, and nothing that is
\* still active has lost its callback), a subscription is connected, and a timer that has
\* not run out of times has a wait or a queued handler, as has no timer that is gone.
MapsAgree ==
    /\ DOMAIN callbacks = {x.callback : x \in slots} \cup {timers[t].callback : t \in DOMAIN timers}
    /\ signals = {x.id : x \in slots}
    /\ \A t \in DOMAIN wait : wait[t] = "armed" => t \in DOMAIN timers
    /\ \A t \in DOMAIN timers : wait[t] # "none"

\* Events::Publish and Deliver: an event published while a subscription was connected
\* stays on its way, in the order of publication, until the subscription gets it, even if
\* other subscriptions end or begin during the deliveries.
EventsKept ==
    /\ \A s \in DOMAIN owed : \A e \in owed[s] :
          \/ \E i \in 1..Len(posted) : posted[i].id = e
          \/ current.event.id = e /\ \E x \in current.rest : x.id = s
    /\ \A i \in 1..Len(posted) : posted[i].id = lastEvent - Len(posted) + i
    /\ \A s \in DOMAIN owed : \A e \in owed[s] : e >= current.event.id

\* Nothing calls a cancelled callback or a plugin that is unloaded, whatever was queued.
EndedIsSilent ==
    called \cap ended = {} /\ (called # {} => alive)

\* A registration ends completely: no map keeps a part of it, and its callback is not called.
RegistrationsEnd == MapsAgree /\ EndedIsSilent
=============================================================================
