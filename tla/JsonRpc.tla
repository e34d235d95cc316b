------------------------------- MODULE JsonRpc -------------------------------
(***************************************************************************)
(* The JSON-RPC server (src/rpc/jsonrpc.cpp): a request is authenticated    *)
(* when its headers arrive, dispatched when its body is there, and run as a *)
(* coroutine (src/rpc/functionmethod.hpp) or by a plugin                    *)
(* (src/lua/packages/jsonrpc.cpp), which writes the reply through a         *)
(* DefaultResponseWriter.  The peer may go at any time.  The methods        *)
(* themselves are in the modules that extend this one.                      *)
(***************************************************************************)
EXTENDS Integers, FiniteSets

CONSTANTS
    RpcCalls,   \* connections; each serves one call after the other
    Methods     \* method names; "plugin" is one that a plugin registered

VARIABLES
    call,       \* per connection, see Idle
    open,       \* per connection: uWebSockets' response can be used
    aborted,    \* per connection: the flag that onAborted sets
    responded,  \* per connection: m_responded of the writer
    rpcMisused  \* history: the connections whose response was used when it was not open

rpcVars == <<call, open, aborted, responded, rpcMisused>>

\* A call: its stage and method, what the method needs of the caller (is it allowed, and the
\* token that auth.logout ends), and the user that auth.login has found.
Idle == [stage |-> "idle", method |-> "none", allowed |-> FALSE, token |-> 0, user |-> "none"]

\* A use of the response that ends it.
EndResponse(r) ==
    /\ rpcMisused' = IF open[r] THEN rpcMisused ELSE rpcMisused \cup {r}
    /\ open' = [open EXCEPT ![r] = FALSE]

\* Mutant: the abort flag is not looked at.
BugMayReply(r) == ~responded[r]

\* The early returns of DefaultResponseWriter.
MayReply(r) == ~aborted[r] /\ ~responded[r]

\* Ok and Error.
Reply(r) ==
    /\ UNCHANGED aborted
    /\ IF MayReply(r)
       THEN responded' = [responded EXCEPT ![r] = TRUE] /\ EndResponse(r)
       ELSE UNCHANGED <<responded, open, rpcMisused>>

Stage(r, st) == call' = [call EXCEPT ![r].stage = st]

\* The coroutine of a method ends, with its result or with an exception, and the flags go
\* with it.
Return(r) ==
    /\ IF MayReply(r) THEN EndResponse(r) ELSE UNCHANGED <<open, rpcMisused>>
    /\ aborted' = [aborted EXCEPT ![r] = FALSE] /\ responded' = [responded EXCEPT ![r] = FALSE]
    /\ call' = [call EXCEPT ![r] = Idle]

\* Entry::Allows, with the lists that Register gets; the methods a plugin registers with a
\* can_invoke are open to all.
Allows(m, kind) == kind = "user" \/ m \in {"auth.init", "auth.login", "plugin"}

\* HttpHandler: who is Authenticate's context.  A browser's request from another site is
\* refused before that, which leaves nothing behind.
Receive(r, m, who) ==
    /\ call[r].stage = "idle"
    /\ call' = [call EXCEPT ![r] = [stage |-> "body", method |-> m, allowed |-> Allows(m, who.kind),
                                    token |-> IF m = "auth.logout" THEN who.token ELSE 0, user |-> "none"]]
    /\ open' = [open EXCEPT ![r] = TRUE]
    /\ UNCHANGED <<aborted, responded, rpcMisused>>

\* onData: the body is too large.
TooLarge(r) ==
    /\ call[r].stage = "body" /\ open[r]
    /\ EndResponse(r)
    /\ call' = [call EXCEPT ![r] = Idle]
    /\ UNCHANGED <<aborted, responded>>

\* onData, the last part: a request that is not valid, has no method, is not allowed or has
\* bad params gets its error here.
Refuse(r) ==
    /\ call[r].stage = "body" /\ open[r]
    /\ Return(r)

\* onData, the last part: the method is invoked.
Invoke(r) ==
    /\ call[r].stage = "body" /\ open[r] /\ call[r].allowed
    /\ Stage(r, "run")
    /\ UNCHANGED <<open, aborted, responded, rpcMisused>>

\* onAborted.
AbortCall(r) ==
    /\ open[r]
    /\ open' = [open EXCEPT ![r] = FALSE]
    /\ aborted' = [aborted EXCEPT ![r] = call[r].stage # "body"]
    /\ call' = [call EXCEPT ![r] = IF call[r].stage = "body" THEN Idle ELSE @]
    /\ UNCHANGED <<responded, rpcMisused>>

\* LuaMethod::Invoke: the callback replies now or later, and may still raise after that,
\* which replies again.
PluginReplies(r) ==
    /\ call[r].stage = "run" /\ call[r].method = "plugin"
    /\ Reply(r)
    /\ Stage(r, "replied")

PluginReturns(r) ==
    /\ call[r].stage \in {"run", "replied"} /\ call[r].method = "plugin"
    /\ Return(r)

RpcInit ==
    /\ call = [r \in RpcCalls |-> Idle]
    /\ open = [r \in RpcCalls |-> FALSE] /\ aborted = [r \in RpcCalls |-> FALSE]
    /\ responded = [r \in RpcCalls |-> FALSE]
    /\ rpcMisused = {}

\* The steps that every method shares.
RpcStep(r) == TooLarge(r) \/ Refuse(r) \/ Invoke(r) \/ AbortCall(r) \/ PluginReplies(r) \/ PluginReturns(r)

\* DefaultResponseWriter, FunctionMethod and LuaMethod: a response is used only while it can
\* be, so it is ended at most once, and no call ends without a reply while its peer waits.
RepliesOnce ==
    /\ rpcMisused = {}
    /\ \A r \in RpcCalls : open[r] => call[r].stage # "idle" /\ ~responded[r]
=============================================================================
