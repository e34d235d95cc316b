-------------------------------- MODULE Auth --------------------------------
(***************************************************************************)
(* Users, sessions and API keys (src/auth, src/rpc/methods/auth.cpp,        *)
(* src/data/models/tokens.cpp and users.cpp), as methods of the JSON-RPC    *)
(* server.  Passwords are hashed on a thread pool, and other calls run      *)
(* meanwhile; everything else is on the io thread.  A token is its row: a   *)
(* wrong secret or a malformed token is like an unknown row.                *)
(***************************************************************************)
EXTENDS JsonRpc

CONSTANTS
    Usernames,
    MaxSessions,    \* kMaxSessionsPerUser
    IdleTimeout,    \* kSessionIdleTimeout
    TouchInterval,  \* kTouchInterval
    MaxTime,        \* bound on the clock
    MaxTokens       \* bound on the tokens that are issued

ASSUME AuthAssumption ==
    /\ MaxSessions \in Nat \ {0} /\ MaxTime \in Nat /\ MaxTokens \in Nat
    /\ TouchInterval \in Nat \ {0} /\ IdleTimeout \in Nat /\ TouchInterval < IdleTimeout

VARIABLES
    now,
    users,      \* the table users
    tokens,     \* the table tokens: id -> row
    issued,     \* the number of tokens issued
    lastUse     \* history: per token in the table, when it was last presented and written if due

authVars == <<rpcVars, now, users, tokens, issued, lastUse>>

Never == MaxTime + IdleTimeout + 1   \* expires_at of an API key without one
Unused == -TouchInterval             \* last_used_at of a token that was not used: a touch is due

Put(id, row) == [i \in DOMAIN tokens \cup {id} |-> IF i = id THEN row ELSE tokens[i]]
Delete(ids) == [i \in DOMAIN tokens \ ids |-> tokens[i]]

Sessions(u) == {i \in DOMAIN tokens : tokens[i].kind = "session" /\ tokens[i].user = u}

-----------------------------------------------------------------------------
(* Tokens                                                                     *)

TouchDue(row) == now - row.lastUsed >= TouchInterval

\* Mutant: an API key slides as well.
BugTouched(row) == [row EXCEPT !.lastUsed = now, !.expires = now + IdleTimeout]

\* Touch: only a session's expiry slides.
Touched(row) ==
    [row EXCEPT !.lastUsed = now, !.expires = IF row.kind = "session" THEN now + IdleTimeout ELSE @]

IsValidToken(id) == id \in DOMAIN tokens /\ tokens[id].expires >= now

\* Verify, for the token a request presents: a failed write of the row does not matter.
Verify(id, fails) ==
    IF ~IsValidToken(id) \/ fails
    THEN UNCHANGED <<tokens, lastUse>>
    ELSE /\ tokens' = IF TouchDue(tokens[id]) THEN Put(id, Touched(tokens[id])) ELSE tokens
         /\ lastUse' = [lastUse EXCEPT ![id] = now]

\* Authenticate: the context is of a user, of a machine (an API key), or anonymous.
Caller(id) ==
    IF ~IsValidToken(id) THEN [kind |-> "anon", token |-> 0]
    ELSE [kind |-> IF tokens[id].kind = "session" THEN "user" ELSE "machine", token |-> id]

\* Issue: a fresh id.
Issue(row, rest) ==
    /\ issued' = issued + 1
    /\ tokens' = [i \in DOMAIN rest \cup {issued + 1} |-> IF i = issued + 1 THEN row ELSE rest[i]]
    /\ lastUse' = [i \in DOMAIN rest \cup {issued + 1} |-> IF i = issued + 1 THEN now ELSE lastUse[i]]

-----------------------------------------------------------------------------
(* Requests                                                                   *)

\* The calls that will issue a token.
Issuing == {r \in RpcCalls : call[r].method \in {"auth.login", "auth.keys.create"}}

\* A request arrives with the token id, or with none that is known (0).
Arrive(r, m, id, fails) ==
    /\ issued + Cardinality(Issuing) < MaxTokens
    /\ Receive(r, m, Caller(id))
    /\ Verify(id, fails)
    /\ UNCHANGED <<now, users, issued>>

Running(r, m, st) == call[r].method = m /\ call[r].stage = st

\* Init: refused when there is a user.
InitChecks(r) ==
    /\ Running(r, "auth.init", "run")
    /\ IF users # {}
       THEN Return(r)
       ELSE Stage(r, "hash") /\ UNCHANGED <<open, aborted, responded, rpcMisused>>
    /\ UNCHANGED <<now, users, tokens, issued, lastUse>>

\* Mutant: the table is not looked at again after the hash.
BugMayInsertUser == TRUE

\* A user may have been created while the password was hashed.
MayInsertUser == users = {}

\* Init goes on when the hash is there, or failed.
InitInserts(r, u, hashed) ==
    /\ Running(r, "auth.init", "hash")
    /\ users' = IF hashed /\ MayInsertUser THEN users \cup {u} ELSE users
    /\ Return(r)
    /\ UNCHANGED <<now, tokens, issued, lastUse>>

\* Login: an unknown user is checked against a dummy hash.
LoginFinds(r, u) ==
    /\ Running(r, "auth.login", "run")
    /\ call' = [call EXCEPT ![r].stage = "verify", ![r].user = IF u \in users THEN u ELSE "none"]
    /\ UNCHANGED <<open, aborted, responded, rpcMisused, now, users, tokens, issued, lastUse>>

LoginFails(r) ==
    /\ Running(r, "auth.login", "verify")
    /\ Return(r)
    /\ UNCHANGED <<now, users, tokens, issued, lastUse>>

\* The password is right but its hash is old: it is hashed again, and stored if that works.
LoginRehashes(r) ==
    /\ Running(r, "auth.login", "verify") /\ call[r].user # "none"
    /\ Stage(r, "rehash")
    /\ UNCHANGED <<open, aborted, responded, rpcMisused, now, users, tokens, issued, lastUse>>

Expired == {i \in DOMAIN tokens : tokens[i].kind = "session" /\ tokens[i].expires < now}

\* Mutant: the new session is not counted.
BugKept(n) == n

\* RemoveLeastRecentlyUsedSessions makes room for the new session.
Kept(n) == n - 1

\* The sessions of u that stay, of those in rest: the most recently used ones, by the rows.
Recent(u, rest) ==
    LET all == {i \in DOMAIN rest : rest[i].kind = "session" /\ rest[i].user = u}
        Later(i, j) == \/ rest[i].lastUsed > rest[j].lastUsed
                       \/ rest[i].lastUsed = rest[j].lastUsed /\ rest[i].created >= rest[j].created
    IN  {k \in SUBSET all :
            /\ Cardinality(k) = (IF Cardinality(all) < Kept(MaxSessions) THEN Cardinality(all) ELSE Kept(MaxSessions))
            /\ \A i \in k, j \in all \ k : Later(i, j)}

\* The rest of Login, in one step: expired sessions go, then the least recently used ones,
\* and the new session is issued.
LoginIssues(r) ==
    LET u == call[r].user
        rest == Delete(Expired)
        all == {i \in DOMAIN rest : rest[i].kind = "session" /\ rest[i].user = u}
    IN  /\ Running(r, "auth.login", "verify") \/ Running(r, "auth.login", "rehash")
        /\ u # "none"
        /\ \E keep \in Recent(u, rest) :
              Issue([kind |-> "session", user |-> u, created |-> now, expires |-> now + IdleTimeout, lastUsed |-> now],
                    [i \in DOMAIN rest \ (all \ keep) |-> rest[i]])
        /\ Return(r)
        /\ UNCHANGED <<now, users>>

\* KeysCreate, with an expiry in the future or none; bad arguments are refused.
KeysCreate(r, expires) ==
    /\ Running(r, "auth.keys.create", "run")
    /\ expires > now
    /\ Issue([kind |-> "api_key", user |-> "none", created |-> now, expires |-> expires, lastUsed |-> Unused], tokens)
    /\ Return(r)
    /\ UNCHANGED <<now, users>>

\* What KeysRemove, SessionsRemove and Logout remove: a token of their kind, or the caller's.
Removable(m, id) ==
    CASE m = "auth.keys.remove" -> {i \in DOMAIN tokens : tokens[i].kind = "api_key"}
      [] m = "auth.sessions.remove" -> {i \in DOMAIN tokens : tokens[i].kind = "session"}
      [] m = "auth.logout" -> {id}
      [] OTHER -> {}

RemoveToken(r, id) ==
    /\ call[r].stage = "run" /\ id \in Removable(call[r].method, call[r].token)
    /\ tokens' = Delete({id})
    /\ lastUse' = [i \in DOMAIN lastUse \ {id} |-> lastUse[i]]
    /\ Return(r)
    /\ UNCHANGED <<now, users, issued>>

\* A method that throws an Error at once, or only lists.
MethodReturns(r) ==
    /\ call[r].stage = "run" /\ call[r].method \in {"auth.keys.create", "auth.keys.remove", "auth.sessions.remove"}
    /\ Return(r)
    /\ UNCHANGED <<now, users, tokens, issued, lastUse>>

Tick ==
    /\ now < MaxTime
    /\ now' = now + 1
    /\ UNCHANGED <<rpcVars, users, tokens, issued, lastUse>>

AuthInit ==
    /\ RpcInit
    /\ now = 0 /\ users = {} /\ tokens = <<>> /\ issued = 0 /\ lastUse = <<>>

\* What the io thread or the pool does for a call that was invoked.
MethodStep(r) ==
    \/ InitChecks(r) \/ LoginFails(r) \/ LoginRehashes(r) \/ LoginIssues(r) \/ MethodReturns(r)
    \/ \E u \in Usernames, hashed \in BOOLEAN : InitInserts(r, u, hashed)
    \/ \E u \in Usernames : LoginFinds(r, u)
    \/ \E expires \in {now + 1, Never} : KeysCreate(r, expires)
    \/ \E id \in 1..MaxTokens : RemoveToken(r, id)

AuthNext ==
    \/ \E r \in RpcCalls, m \in Methods, id \in {0} \cup DOMAIN tokens, fails \in BOOLEAN : Arrive(r, m, id, fails)
    \/ \E r \in RpcCalls : RpcStep(r) /\ UNCHANGED <<now, users, tokens, issued, lastUse>>
    \/ \E r \in RpcCalls : MethodStep(r)
    \/ Tick

AuthSpec == AuthInit /\ [][AuthNext]_authVars

-----------------------------------------------------------------------------
(* Properties                                                                 *)

\* Init: however many calls of auth.init wait for their hash, one user is created.
OneUser == Cardinality(users) <= 1

\* "a user keeps at most this many sessions", "a user session expires after this long
\* without use": Login and Touch keep both, the second up to the interval in which a use is
\* not written.
SessionsLive ==
    /\ \A u \in Usernames : Cardinality(Sessions(u)) <= MaxSessions
    /\ \A u \in Usernames : \A i \in Sessions(u) : tokens[i].expires > lastUse[i] + IdleTimeout - TouchInterval

\* Login ends no session that was used clearly later than one it keeps; the expiry of an API
\* key never changes, and that of a session never comes closer.
TokensKept ==
    [][/\ \A i \in DOMAIN tokens \cap DOMAIN tokens' :
             \/ tokens'[i].expires = tokens[i].expires
             \/ tokens[i].kind = "session" /\ tokens'[i].expires > tokens[i].expires
       /\ issued' # issued =>
             \A i \in DOMAIN tokens \ (DOMAIN tokens' \cup Expired), j \in DOMAIN tokens \cap DOMAIN tokens' :
                 tokens[j].kind = "session" /\ tokens[j].user = tokens[i].user =>
                     lastUse[i] < lastUse[j] + TouchInterval]_authVars
=============================================================================
