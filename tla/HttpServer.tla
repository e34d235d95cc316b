------------------------------ MODULE HttpServer ------------------------------
(***************************************************************************)
(* Requests that a plugin's route answers (src/lua/packages/httpserver.cpp  *)
(* and src/lua/types/pohttpserverresponse.cpp).  The response object is     *)
(* held by the plugin's http_responses while the body arrives, by a posted  *)
(* handler after that, and then by the plugin's Lua code; uWebSockets'      *)
(* callbacks have weak references to it.  The response of uWebSockets is    *)
(* valid until it is ended, closed or aborted, and may not be used then.    *)
(***************************************************************************)
EXTENDS Naturals

CONSTANT HttpRequests

VARIABLES
    running,    \* the LuaState exists
    held,       \* per request: who holds its PoHttpServerResponse
    body,       \* per request: "none" before it, "arriving" or "done"
    valid,      \* per request: uWebSockets' response can be used
    flags,      \* per request: which of m_is_aborted, m_is_finished and m_is_started are set
    misused     \* history: the requests whose response was used when it was not valid

httpVars == <<running, held, body, valid, flags, misused>>

Holders == {"map", "post", "lua"}
Flags == {"aborted", "finished", "started"}

\* A use of uWebSockets' response; ends says whether it is the last one.
Use(r, ends) ==
    /\ misused' = IF valid[r] THEN misused ELSE misused \cup {r}
    /\ valid' = [valid EXCEPT ![r] = @ /\ ~ends]

Hold(r, who) == held' = [held EXCEPT ![r] = who]

\* HttpHostGuard::Allows: the guard is on when hosts are configured, none of them "*", or when
\* the server is bound to a loopback name; it lets loopback names, the configured ones and
\* requests without a name pass.  A malformed name is not a name.
GuardAllows(guard, host) ==
    \/ "*" \in guard.allowed
    \/ guard.allowed = {} /\ ~guard.loopback
    \/ host \in {"", "localhost"} \cup guard.allowed

\* What a server may be configured with, and the hosts a request may name.
Guards == [allowed : SUBSET {"*", "porla.example"}, loopback : BOOLEAN]
Hosts == {"", "localhost", "porla.example", "other.example", "malformed:"}

\* Mutant: the response is not put into http_responses.
BugSetupHolds == {}

\* Setup: http_responses holds the response while the body arrives.
SetupHolds == {"map"}

\* The handler of a route: 403 for a host the guard rejects, 503 once the plugin is gone.
Request(r, allowed) ==
    /\ body[r] = "none"
    /\ IF allowed /\ running
       THEN /\ body' = [body EXCEPT ![r] = "arriving"]
            /\ valid' = [valid EXCEPT ![r] = TRUE]
            /\ Hold(r, SetupHolds)
       ELSE body' = [body EXCEPT ![r] = "done"] /\ UNCHANGED <<valid, held>>
    /\ UNCHANGED <<running, flags, misused>>

\* onDataV2: with the last part of the body the response goes from the map to a posted
\* handler.  Without the response object nothing happens.
OnData(r) ==
    /\ body[r] = "arriving" /\ valid[r]
    /\ body' = [body EXCEPT ![r] = "done"]
    /\ IF held[r] = {} THEN UNCHANGED <<held, valid, misused>>
       ELSE IF running THEN Hold(r, (held[r] \ {"map"}) \cup {"post"}) /\ UNCHANGED <<valid, misused>>
       ELSE Use(r, TRUE) /\ UNCHANGED held
    /\ UNCHANGED <<running, flags>>

\* onAborted: the peer is gone.
Abort(r) ==
    /\ valid[r]
    /\ valid' = [valid EXCEPT ![r] = FALSE]
    /\ flags' = [flags EXCEPT ![r] = IF held[r] = {} THEN @ ELSE @ \cup {"aborted"}]
    /\ Hold(r, IF running THEN held[r] \ {"map"} ELSE held[r])
    /\ UNCHANGED <<running, body, misused>>

\* The early returns of Fail, Finish and the writes.
MayAnswer(r) == flags[r] \cap {"aborted", "finished"} = {}

\* Fail (500, or close when something was sent) and Finish.
End(r) ==
    IF MayAnswer(r)
    THEN flags' = [flags EXCEPT ![r] = @ \cup {"finished"}] /\ Use(r, TRUE)
    ELSE UNCHANGED <<flags, valid, misused>>

\* The posted handler: the plugin's callback takes the response, or fails.
HandlerRuns(r, ok) ==
    /\ "post" \in held[r]
    /\ IF "aborted" \in flags[r]
       THEN Hold(r, {}) /\ UNCHANGED <<flags, valid, misused>>
       ELSE IF running /\ ok THEN Hold(r, {"lua"}) /\ UNCHANGED <<flags, valid, misused>>
       ELSE Hold(r, {}) /\ End(r)
    /\ UNCHANGED <<running, body>>

\* write, write_header and write_status, from Lua.
WriteResponse(r) ==
    /\ "lua" \in held[r]
    /\ IF MayAnswer(r)
       THEN flags' = [flags EXCEPT ![r] = @ \cup {"started"}] /\ Use(r, FALSE)
       ELSE UNCHANGED <<flags, valid, misused>>
    /\ UNCHANGED <<running, held, body>>

\* finish, from Lua, now or much later.
FinishResponse(r) ==
    /\ "lua" \in held[r]
    /\ End(r)
    /\ UNCHANGED <<running, held, body>>

\* The plugin's Lua code lets go of a response it has finished or that was aborted.
Collect(r) ==
    /\ "lua" \in held[r] /\ ~MayAnswer(r)
    /\ Hold(r, {})
    /\ UNCHANGED <<running, body, valid, flags, misused>>

\* ~LuaState, and the Lua state with its objects.
UnloadRoutes ==
    /\ running
    /\ running' = FALSE
    /\ held' = [r \in HttpRequests |-> held[r] \cap {"post"}]
    /\ UNCHANGED <<body, valid, flags, misused>>

HttpInit ==
    /\ running = TRUE
    /\ held = [r \in HttpRequests |-> {}] /\ body = [r \in HttpRequests |-> "none"]
    /\ valid = [r \in HttpRequests |-> FALSE] /\ flags = [r \in HttpRequests |-> {}]
    /\ misused = {}

HttpNext ==
    \/ \E r \in HttpRequests, guard \in Guards, host \in Hosts : Request(r, GuardAllows(guard, host))
    \/ \E r \in HttpRequests : OnData(r) \/ Abort(r) \/ WriteResponse(r) \/ FinishResponse(r) \/ Collect(r)
    \/ \E r \in HttpRequests, ok \in BOOLEAN : HandlerRuns(r, ok)
    \/ UnloadRoutes

HttpSpec == HttpInit /\ [][HttpNext]_httpVars

-----------------------------------------------------------------------------

\* PoHttpServerResponse, in whatever order the body, the plugin's answer, an abort of the
\* peer and an unload come: the response of uWebSockets is never used after its end; while
\* the plugin is loaded, a request that waits for an answer has somebody who holds the
\* response and can give it; and http_responses keeps no response that is done with.
ResponsesHeld ==
    /\ misused = {}
    /\ \A r \in HttpRequests :
          /\ running /\ valid[r] => held[r] # {}
          /\ "map" \in held[r] => valid[r] /\ body[r] = "arriving"
=============================================================================
