----------------------------- MODULE AuthProofs -----------------------------
(***************************************************************************)
(* Replies and users, for any connections, methods and user names: a        *)
(* response is ended once, and calls of auth.init that overlap create one   *)
(* user.                                                                    *)
(***************************************************************************)
EXTENDS Auth, FiniteSetTheorems, TLAPS

\* The shape of the calls, whatever their methods and users are.
CallShape ==
    /\ DOMAIN call = RpcCalls /\ call = [r \in RpcCalls |-> call[r]]
    /\ \A r \in RpcCalls :
          call[r] = [stage |-> call[r].stage, method |-> call[r].method, allowed |-> call[r].allowed,
                     token |-> call[r].token, user |-> call[r].user]

RpcTypeOK ==
    /\ CallShape
    /\ open \in [RpcCalls -> BOOLEAN] /\ aborted \in [RpcCalls -> BOOLEAN] /\ responded \in [RpcCalls -> BOOLEAN]

\* The writer's two flags say whether the response can be used: a call that may reply has it
\* open, also after an abort or a reply that came while the method waited, and the next call
\* of the connection begins with the flags down.
FlagsFit(r) ==
    /\ open[r] => call[r].stage # "idle" /\ ~aborted[r] /\ ~responded[r]
    /\ call[r].stage # "idle" /\ ~aborted[r] /\ ~responded[r] => open[r]
    /\ call[r].stage = "idle" => ~aborted[r] /\ ~responded[r]
    /\ call[r].stage = "body" => open[r]

RpcInv == RpcTypeOK /\ rpcMisused = {} /\ \A r \in RpcCalls : FlagsFit(r)

\* No call has been made.
LEMMA RpcInitInv == RpcInit => RpcInv
BY DEF RpcInit, RpcInv, RpcTypeOK, CallShape, FlagsFit, Idle

\* A step of one connection leaves what is said of the others.
LEMMA OneConnection ==
    ASSUME RpcInv, NEW r \in RpcCalls, RpcTypeOK', rpcMisused' = {}, FlagsFit(r)',
           \A p \in RpcCalls \ {r} : /\ call'[p] = call[p] /\ open'[p] = open[p]
                                     /\ aborted'[p] = aborted[p] /\ responded'[p] = responded[p]
    PROVE  RpcInv'
<1>1. ASSUME NEW p \in RpcCalls \ {r} PROVE FlagsFit(p)'
  BY DEF RpcInv, FlagsFit
<1> QED BY <1>1 DEF RpcInv

\* A call that has been received may return at any point.
LEMMA ReturnKeeps ==
    ASSUME RpcInv, NEW r \in RpcCalls, call[r].stage # "idle", Return(r)
    PROVE  RpcInv'
<1>1. /\ aborted' = [aborted EXCEPT ![r] = FALSE] /\ responded' = [responded EXCEPT ![r] = FALSE]
      /\ call' = [call EXCEPT ![r] = Idle]
  BY DEF Return
<1>2. MayReply(r) <=> open[r] = TRUE
  BY DEF MayReply, RpcInv, RpcTypeOK, CallShape, FlagsFit
<1>3. open' = [open EXCEPT ![r] = FALSE] /\ rpcMisused' = {}
  <2>1. CASE open[r]
    BY <1>2, <2>1 DEF Return, EndResponse, RpcInv, RpcTypeOK, CallShape
  <2>2. CASE ~open[r]
    BY <1>2, <2>2 DEF Return, RpcInv, RpcTypeOK, CallShape
  <2> QED BY <2>1, <2>2
<1>4. RpcTypeOK'
  <2>1. open' \in [RpcCalls -> BOOLEAN] /\ aborted' \in [RpcCalls -> BOOLEAN] /\ responded' \in [RpcCalls -> BOOLEAN]
    BY <1>1, <1>3 DEF RpcInv, RpcTypeOK, CallShape
  <2>2. \A p \in RpcCalls : call'[p] = IF p = r THEN Idle ELSE call[p]
    BY <1>1 DEF RpcInv, RpcTypeOK, CallShape
  <2>3. DOMAIN call' = RpcCalls /\ call' = [p \in RpcCalls |-> call'[p]]
    BY <1>1 DEF RpcInv, RpcTypeOK, CallShape
  <2> QED BY <2>1, <2>2, <2>3 DEF RpcInv, RpcTypeOK, CallShape, Idle
<1>5. FlagsFit(r)'
  BY <1>1, <1>3 DEF RpcInv, RpcTypeOK, CallShape, FlagsFit, Idle
<1> QED BY <1>1, <1>3, <1>4, <1>5, OneConnection DEF RpcInv, RpcTypeOK, CallShape

\* A call that gets a stage, or a user too, keeps the shape and the other calls.
LEMMA StageShape ==
    ASSUME RpcInv, NEW r \in RpcCalls, NEW st,
           \/ call' = [call EXCEPT ![r].stage = st]
           \/ \E u : call' = [call EXCEPT ![r].stage = st, ![r].user = u]
    PROVE  CallShape' /\ call'[r].stage = st /\ \A p \in RpcCalls \ {r} : call'[p] = call[p]
<1>1. /\ DOMAIN call' = RpcCalls /\ call' = [p \in RpcCalls |-> call'[p]]
      /\ \A p \in RpcCalls \ {r} : call'[p] = call[p]
  BY DEF RpcInv, RpcTypeOK, CallShape
<1>2. PICK u : call'[r] = [stage |-> st, method |-> call[r].method, allowed |-> call[r].allowed,
                           token |-> call[r].token, user |-> u]
  BY DEF RpcInv, RpcTypeOK, CallShape
<1>3. ASSUME NEW p \in RpcCalls
      PROVE  call'[p] = [stage |-> call'[p].stage, method |-> call'[p].method, allowed |-> call'[p].allowed,
                         token |-> call'[p].token, user |-> call'[p].user]
  BY <1>1, <1>2 DEF RpcInv, RpcTypeOK, CallShape
<1> QED BY <1>1, <1>2, <1>3 DEF CallShape

\* A method that goes on to wait leaves the response alone.
LEMMA StageKeeps ==
    ASSUME RpcInv, NEW r \in RpcCalls, call[r].stage # "idle", NEW st, st \notin {"idle", "body"},
           \/ call' = [call EXCEPT ![r].stage = st]
           \/ \E u : call' = [call EXCEPT ![r].stage = st, ![r].user = u],
           UNCHANGED <<open, aborted, responded, rpcMisused>>
    PROVE  RpcInv'
<1>1. CallShape' /\ call'[r].stage = st /\ \A p \in RpcCalls \ {r} : call'[p] = call[p]
  BY StageShape
<1>2. RpcTypeOK'
  BY <1>1 DEF RpcInv, RpcTypeOK, CallShape
<1>3. FlagsFit(r)'
  BY <1>1 DEF RpcInv, FlagsFit
<1> QED BY <1>1, <1>2, <1>3, OneConnection DEF RpcInv

\* Every step of the server, of a plugin's method and of the peer keeps the flags right.
LEMMA RpcStepKeeps ==
    ASSUME RpcInv, NEW r \in RpcCalls, RpcStep(r)
    PROVE  RpcInv'
<1>1. CASE TooLarge(r)
  <2>1. open[r] /\ Return(r)
    BY <1>1 DEF TooLarge, Return, MayReply, RpcInv, RpcTypeOK, CallShape, FlagsFit
  <2> QED BY <1>1, <2>1, ReturnKeeps DEF TooLarge
<1>2. CASE Refuse(r) \/ PluginReturns(r)
  BY <1>2, ReturnKeeps DEF Refuse, PluginReturns
<1>3. CASE Invoke(r)
  <2>1. /\ call' = [call EXCEPT ![r].stage = "run"] /\ call[r].stage # "idle" /\ "run" \notin {"idle", "body"}
        /\ UNCHANGED <<open, aborted, responded, rpcMisused>>
    BY <1>3 DEF Invoke, Stage
  <2> QED BY <2>1, StageKeeps
<1>4. CASE AbortCall(r)
  <2>1. open[r] /\ open' = [open EXCEPT ![r] = FALSE] /\ UNCHANGED <<responded, rpcMisused>>
    BY <1>4 DEF AbortCall
  <2>2. CASE call[r].stage = "body"
    <3>1. aborted' = [aborted EXCEPT ![r] = FALSE] /\ call' = [call EXCEPT ![r] = Idle]
      BY <1>4, <2>2 DEF AbortCall
    <3>2. Return(r)
      BY <2>1, <3>1 DEF Return, EndResponse, MayReply, RpcInv, RpcTypeOK, CallShape, FlagsFit
    <3> QED BY <2>2, <3>2, ReturnKeeps
  <2>3. CASE call[r].stage # "body"
    <3>1. aborted' = [aborted EXCEPT ![r] = TRUE]
      BY <1>4, <2>3 DEF AbortCall
    <3>2. call' = call
      BY <1>4, <2>3 DEF AbortCall, RpcInv, RpcTypeOK, CallShape
    <3>3. RpcTypeOK'
      BY <2>1, <3>1, <3>2 DEF RpcInv, RpcTypeOK, CallShape
    <3>4. FlagsFit(r)'
      BY <2>1, <2>3, <3>1, <3>2 DEF RpcInv, RpcTypeOK, CallShape, FlagsFit
    <3> QED BY <2>1, <3>1, <3>2, <3>3, <3>4, OneConnection DEF RpcInv, RpcTypeOK, CallShape
  <2> QED BY <2>2, <2>3
<1>5. CASE PluginReplies(r)
  <2>1. call[r].stage = "run" /\ Reply(r) /\ call' = [call EXCEPT ![r].stage = "replied"]
    BY <1>5 DEF PluginReplies, Stage
  <2>2. CASE MayReply(r)
    <3>1. open[r] /\ UNCHANGED aborted
      BY <2>1, <2>2 DEF Reply, MayReply, RpcInv, FlagsFit
    <3>2. open' = [open EXCEPT ![r] = FALSE] /\ responded' = [responded EXCEPT ![r] = TRUE] /\ rpcMisused' = {}
      BY <2>1, <2>2, <3>1 DEF Reply, EndResponse, RpcInv
    <3>3. CallShape' /\ call'[r].stage = "replied" /\ \A p \in RpcCalls \ {r} : call'[p] = call[p]
      BY <2>1, StageShape
    <3>4. RpcTypeOK'
      BY <3>1, <3>2, <3>3 DEF RpcInv, RpcTypeOK, CallShape
    <3>5. FlagsFit(r)'
      BY <3>2, <3>3 DEF RpcInv, RpcTypeOK, CallShape, FlagsFit
    <3> QED BY <3>1, <3>2, <3>3, <3>4, <3>5, OneConnection DEF RpcInv, RpcTypeOK, CallShape
  <2>3. CASE ~MayReply(r)
    <3>1. UNCHANGED <<open, aborted, responded, rpcMisused>>
      BY <2>1, <2>3 DEF Reply
    <3>2. call[r].stage # "idle" /\ "replied" \notin {"idle", "body"}
      BY <2>1
    <3> QED BY <2>1, <3>1, <3>2, StageKeeps
  <2> QED BY <2>2, <2>3
<1> QED BY <1>1, <1>2, <1>3, <1>4, <1>5 DEF RpcStep

\* A request that arrives on an idle connection opens its response.
LEMMA ReceiveKeeps ==
    ASSUME RpcInv, NEW r \in RpcCalls, NEW m, NEW who, Receive(r, m, who)
    PROVE  RpcInv'
<1> DEFINE c == [stage |-> "body", method |-> m, allowed |-> Allows(m, who.kind),
                 token |-> IF m = "auth.logout" THEN who.token ELSE 0, user |-> "none"]
<1>1. /\ call[r].stage = "idle" /\ call' = [call EXCEPT ![r] = c] /\ open' = [open EXCEPT ![r] = TRUE]
      /\ UNCHANGED <<aborted, responded, rpcMisused>>
  BY DEF Receive
<1>2. \A p \in RpcCalls : call'[p] = IF p = r THEN c ELSE call[p]
  BY <1>1 DEF RpcInv, RpcTypeOK, CallShape
<1>3. DOMAIN call' = RpcCalls /\ call' = [p \in RpcCalls |-> call'[p]]
  BY <1>1 DEF RpcInv, RpcTypeOK, CallShape
<1>4. c = [stage |-> c.stage, method |-> c.method, allowed |-> c.allowed, token |-> c.token, user |-> c.user]
      /\ c.stage = "body"
  OBVIOUS
<1> HIDE DEF c
<1>5. RpcTypeOK'
  <2>1. open' \in [RpcCalls -> BOOLEAN] /\ aborted' \in [RpcCalls -> BOOLEAN] /\ responded' \in [RpcCalls -> BOOLEAN]
    BY <1>1 DEF RpcInv, RpcTypeOK, CallShape
  <2> QED BY <1>2, <1>3, <1>4, <2>1 DEF RpcInv, RpcTypeOK, CallShape
<1>6. FlagsFit(r)'
  BY <1>1, <1>2, <1>4 DEF RpcInv, RpcTypeOK, CallShape, FlagsFit
<1> QED BY <1>1, <1>2, <1>5, <1>6, OneConnection DEF RpcInv, RpcTypeOK, CallShape

\* The table of users has at most one row.
AtMostOne == users = {} \/ \E u \in Usernames : users = {u}

\* Every step keeps the flags right, and a user is only inserted into an empty table.
LEMMA AuthStep ==
    ASSUME RpcInv, AtMostOne, [AuthNext]_authVars
    PROVE  RpcInv' /\ AtMostOne'
<1>1. ASSUME NEW r \in RpcCalls, NEW m \in Methods, NEW id, NEW fails, Arrive(r, m, id, fails)
      PROVE  RpcInv' /\ AtMostOne'
  <2>1. Receive(r, m, Caller(id)) /\ UNCHANGED users
    BY <1>1 DEF Arrive
  <2> QED BY <2>1, ReceiveKeeps DEF AtMostOne
<1>2. ASSUME NEW r \in RpcCalls, RpcStep(r), UNCHANGED users PROVE RpcInv' /\ AtMostOne'
  BY <1>2, RpcStepKeeps DEF AtMostOne
<1>3. ASSUME NEW r \in RpcCalls, InitChecks(r) PROVE RpcInv' /\ AtMostOne'
  <2>1. call[r].stage = "run" /\ UNCHANGED users
    BY <1>3 DEF InitChecks, Running
  <2>2. CASE users # {}
    BY <1>3, <2>1, <2>2, ReturnKeeps DEF InitChecks, AtMostOne
  <2>3. CASE users = {}
    <3>1. call' = [call EXCEPT ![r].stage = "hash"] /\ UNCHANGED <<open, aborted, responded, rpcMisused>>
      BY <1>3, <2>3 DEF InitChecks, Stage
    <3>2. call[r].stage # "idle" /\ "hash" \notin {"idle", "body"}
      BY <2>1
    <3>3. RpcInv'
      BY <3>1, <3>2, StageKeeps
    <3> QED BY <2>1, <3>3 DEF AtMostOne
  <2> QED BY <2>2, <2>3
<1>4. ASSUME NEW r \in RpcCalls, NEW u \in Usernames, NEW hashed \in BOOLEAN, InitInserts(r, u, hashed)
      PROVE  RpcInv' /\ AtMostOne'
  <2>1. call[r].stage = "hash" /\ Return(r)
    BY <1>4 DEF InitInserts, Running
  <2>2. users' = users \/ (users = {} /\ users' = {u})
    BY <1>4 DEF InitInserts, MayInsertUser
  <2> QED BY <2>1, <2>2, ReturnKeeps DEF AtMostOne
<1>5. ASSUME NEW r \in RpcCalls, NEW u \in Usernames, LoginFinds(r, u) PROVE RpcInv' /\ AtMostOne'
  <2>1. /\ call[r].stage = "run" /\ UNCHANGED <<open, aborted, responded, rpcMisused, users>>
        /\ \E v : call' = [call EXCEPT ![r].stage = "verify", ![r].user = v]
    BY <1>5 DEF LoginFinds, Running
  <2>2. call[r].stage # "idle" /\ "verify" \notin {"idle", "body"} /\ UNCHANGED <<open, aborted, responded, rpcMisused>>
    BY <2>1
  <2>3. RpcInv'
    BY <2>1, <2>2, StageKeeps
  <2> QED BY <2>1, <2>3 DEF AtMostOne
<1>6. ASSUME NEW r \in RpcCalls, LoginRehashes(r) PROVE RpcInv' /\ AtMostOne'
  <2>1. /\ call[r].stage = "verify" /\ UNCHANGED <<open, aborted, responded, rpcMisused, users>>
        /\ call' = [call EXCEPT ![r].stage = "rehash"]
    BY <1>6 DEF LoginRehashes, Running, Stage
  <2>2. call[r].stage # "idle" /\ "rehash" \notin {"idle", "body"} /\ UNCHANGED <<open, aborted, responded, rpcMisused>>
    BY <2>1
  <2>3. RpcInv'
    BY <2>1, <2>2, StageKeeps
  <2> QED BY <2>1, <2>3 DEF AtMostOne
<1>7. ASSUME NEW r \in RpcCalls,
             \/ LoginFails(r) \/ LoginIssues(r) \/ MethodReturns(r)
             \/ \E expires : KeysCreate(r, expires)
             \/ \E id : RemoveToken(r, id)
      PROVE  RpcInv' /\ AtMostOne'
  <2>1. call[r].stage # "idle" /\ Return(r) /\ UNCHANGED users
    BY <1>7 DEF LoginFails, LoginIssues, MethodReturns, KeysCreate, RemoveToken, Running
  <2> QED BY <2>1, ReturnKeeps DEF AtMostOne
<1>8. ASSUME NEW r \in RpcCalls, MethodStep(r) PROVE RpcInv' /\ AtMostOne'
  BY <1>3, <1>4, <1>5, <1>6, <1>7, <1>8 DEF MethodStep
<1>9. CASE Tick \/ UNCHANGED authVars
  <2>1. UNCHANGED <<call, open, aborted, responded, rpcMisused, users>>
    BY <1>9 DEF Tick, authVars, rpcVars
  <2> QED BY <2>1 DEF RpcInv, RpcTypeOK, CallShape, FlagsFit, AtMostOne
<1> QED BY <1>1, <1>2, <1>8, <1>9 DEF AuthNext

\* DefaultResponseWriter, for any connections and methods: no response is used after its end,
\* and a call that may still reply has its response open.
THEOREM RepliesAreSafe == AuthSpec => []RepliesOnce
<1>1. AuthInit => RpcInv /\ AtMostOne
  BY RpcInitInv DEF AuthInit, AtMostOne
<1>2. RpcInv /\ AtMostOne /\ [AuthNext]_authVars => RpcInv' /\ AtMostOne'
  BY AuthStep
<1>3. RpcInv => RepliesOnce
  BY DEF RpcInv, FlagsFit, RepliesOnce
<1> QED BY <1>1, <1>2, <1>3, PTL DEF AuthSpec

\* auth.init, for any number of calls that wait for their hash at once: at most one user.
THEOREM SetupIsOnce == AuthSpec => []OneUser
<1>1. AuthInit => RpcInv /\ AtMostOne
  BY RpcInitInv DEF AuthInit, AtMostOne
<1>2. RpcInv /\ AtMostOne /\ [AuthNext]_authVars => RpcInv' /\ AtMostOne'
  BY AuthStep
<1>3. AtMostOne => OneUser
  <2>1. \A u : Cardinality({u}) = 1
    BY FS_Singleton
  <2>2. Cardinality({}) = 0
    BY FS_EmptySet
  <2> QED BY <2>1, <2>2 DEF AtMostOne, OneUser
<1> QED BY <1>1, <1>2, <1>3, PTL DEF AuthSpec

\* A row of the table of tokens; a session expires when it has not been written for the idle
\* timeout.
RowOK(row) ==
    /\ row = [kind |-> row.kind, user |-> row.user, created |-> row.created,
              expires |-> row.expires, lastUsed |-> row.lastUsed]
    /\ row.lastUsed \in Int /\ row.lastUsed <= now
    /\ row.kind = "session" => row.expires = row.lastUsed + IdleTimeout

\* Ids are fresh, so the table is finite, and each row has its last use.
TableOK ==
    /\ now \in Nat /\ issued \in Nat
    /\ DOMAIN tokens \subseteq 1..issued
    /\ tokens = [i \in DOMAIN tokens |-> tokens[i]]
    /\ lastUse \in [DOMAIN tokens -> Int]
    /\ \A i \in DOMAIN tokens : RowOK(tokens[i])

\* A session's row is behind its last use by less than the interval of Touch.
UsesFit ==
    \A i \in DOMAIN tokens : tokens[i].kind = "session" =>
        /\ tokens[i].lastUsed <= lastUse[i] /\ lastUse[i] < tokens[i].lastUsed + TouchInterval

FewSessions == \A u \in Usernames : Cardinality(Sessions(u)) <= MaxSessions

TokensInv == TableOK /\ UsesFit /\ FewSessions

\* What TokensKept says of a step.
TokensKeptStep ==
    /\ \A i \in DOMAIN tokens \cap DOMAIN tokens' :
          \/ tokens'[i].expires = tokens[i].expires
          \/ tokens[i].kind = "session" /\ tokens'[i].expires > tokens[i].expires
    /\ issued' # issued =>
          \A i \in DOMAIN tokens \ (DOMAIN tokens' \cup Expired), j \in DOMAIN tokens \cap DOMAIN tokens' :
              tokens[j].kind = "session" /\ tokens[j].user = tokens[i].user =>
                  lastUse[i] < lastUse[j] + TouchInterval

\* Every part of the table is finite.
LEMMA TokensFinite ==
    ASSUME TableOK
    PROVE  IsFiniteSet(DOMAIN tokens)
<1>1. IsFiniteSet(1..issued)
  BY FS_Interval DEF TableOK
<1>2. DOMAIN tokens \subseteq 1..issued
  BY DEF TableOK
<1> QED BY <1>1, <1>2, FS_Subset

\* Sessions only go: the number of a user's sessions stays within the limit.
LEMMA FewerSessions ==
    ASSUME TokensInv, NEW u \in Usernames, Sessions(u)' \subseteq Sessions(u)
    PROVE  Cardinality(Sessions(u)') <= MaxSessions
<1>1. IsFiniteSet(Sessions(u))
  BY TokensFinite, FS_Subset DEF TokensInv, Sessions
<1>2. Cardinality(Sessions(u)) <= MaxSessions
  BY DEF TokensInv, FewSessions
<1>3. IsFiniteSet(Sessions(u)') /\ Cardinality(Sessions(u)') <= Cardinality(Sessions(u))
  BY <1>1, FS_Subset
<1>4. Cardinality(Sessions(u)) \in Nat /\ Cardinality(Sessions(u)') \in Nat
  BY <1>1, <1>3, FS_CardinalityType
<1> QED BY <1>2, <1>3, <1>4, AuthAssumption

\* A step that leaves the tokens alone, while time may pass.
LEMMA TokensStay ==
    ASSUME TokensInv, UNCHANGED <<tokens, lastUse, issued>>, now' \in Nat, now' >= now
    PROVE  TokensInv' /\ TokensKeptStep
<1>1. TableOK' /\ UsesFit'
  BY DEF TokensInv, TableOK, UsesFit, RowOK
<1>2. FewSessions'
  BY DEF TokensInv, FewSessions, Sessions
<1> QED BY <1>1, <1>2 DEF TokensInv, TokensKeptStep

\* Verify writes the row of a token that is used when the interval is over, and slides the
\* expiry of a session only.
LEMMA VerifyKeeps ==
    ASSUME TokensInv, NEW id, NEW fails, Verify(id, fails), UNCHANGED <<now, issued>>
    PROVE  TokensInv' /\ TokensKeptStep
<1>1. CASE ~IsValidToken(id) \/ fails
  BY <1>1, TokensStay DEF Verify, TokensInv, TableOK
<1>2. CASE ~(~IsValidToken(id) \/ fails)
  <2>1. /\ id \in DOMAIN tokens /\ lastUse' = [lastUse EXCEPT ![id] = now]
        /\ tokens' = IF TouchDue(tokens[id]) THEN Put(id, Touched(tokens[id])) ELSE tokens
    BY <1>2 DEF Verify, IsValidToken
  <2>2. DOMAIN tokens' = DOMAIN tokens /\ tokens' = [i \in DOMAIN tokens' |-> tokens'[i]]
    BY <2>1 DEF Put, TokensInv, TableOK
  <2>3. \A i \in DOMAIN tokens \ {id} : tokens'[i] = tokens[i] /\ lastUse'[i] = lastUse[i]
    BY <2>1 DEF Put, TokensInv, TableOK
  <2>4. lastUse'[id] = now /\ lastUse' \in [DOMAIN tokens -> Int]
    BY <2>1 DEF TokensInv, TableOK
  <2>5. /\ RowOK(tokens'[id]) /\ tokens'[id].kind = tokens[id].kind /\ tokens'[id].user = tokens[id].user
        /\ tokens[id].kind = "session" => now < tokens'[id].lastUsed + TouchInterval
        /\ \/ tokens'[id].expires = tokens[id].expires
           \/ tokens[id].kind = "session" /\ tokens'[id].expires > tokens[id].expires
    <3>1. RowOK(tokens[id]) /\ now \in Nat
      BY <2>1 DEF TokensInv, TableOK
    <3>2. CASE TouchDue(tokens[id])
      <4>1. tokens'[id] = [kind |-> tokens[id].kind, user |-> tokens[id].user, created |-> tokens[id].created,
                           expires |-> IF tokens[id].kind = "session" THEN now + IdleTimeout ELSE tokens[id].expires,
                           lastUsed |-> now]
        BY <2>1, <3>1, <3>2 DEF Put, Touched, RowOK
      <4>2. now - tokens[id].lastUsed >= TouchInterval
        BY <3>2 DEF TouchDue
      <4> QED BY <3>1, <4>1, <4>2, AuthAssumption DEF RowOK
    <3>3. CASE ~TouchDue(tokens[id])
      <4>1. tokens' = tokens /\ ~(now - tokens[id].lastUsed >= TouchInterval)
        BY <2>1, <3>3 DEF TouchDue
      <4> QED BY <3>1, <4>1, AuthAssumption DEF RowOK
    <3> QED BY <3>2, <3>3
  <2>6. TableOK'
    <3>1. \A i \in DOMAIN tokens' : RowOK(tokens'[i])
      BY <2>2, <2>3, <2>5 DEF TokensInv, TableOK
    <3>2. \A row : RowOK(row)' <=> RowOK(row)
      BY DEF RowOK
    <3> QED BY <2>2, <2>4, <3>1, <3>2 DEF TokensInv, TableOK, RowOK
  <2>7. UsesFit'
    BY <2>2, <2>3, <2>4, <2>5 DEF TokensInv, UsesFit, RowOK
  <2>8. FewSessions'
    <3>1. \A u \in Usernames : Sessions(u)' = Sessions(u)
      BY <2>2, <2>3, <2>5 DEF Sessions
    <3> QED BY <3>1 DEF TokensInv, FewSessions
  <2>9. TokensKeptStep
    BY <2>2, <2>3, <2>5 DEF TokensKeptStep
  <2> QED BY <2>6, <2>7, <2>8, <2>9 DEF TokensInv
<1> QED BY <1>1, <1>2

\* Issue adds a fresh row to rows that stay: the table and the last uses stay right.
LEMMA IssueKeeps ==
    ASSUME TokensInv, NEW row, RowOK(row), row.kind = "session" => row.lastUsed = now,
           NEW rest, DOMAIN rest \subseteq DOMAIN tokens, \A i \in DOMAIN rest : rest[i] = tokens[i],
           Issue(row, rest), UNCHANGED now
    PROVE  /\ TableOK' /\ UsesFit' /\ DOMAIN tokens' = DOMAIN rest \cup {issued + 1}
           /\ tokens'[issued + 1] = row /\ issued + 1 \notin DOMAIN tokens
           /\ \A i \in DOMAIN rest : tokens'[i] = tokens[i]
<1>1. issued \in Nat /\ issued' = issued + 1 /\ issued + 1 \notin DOMAIN tokens /\ now \in Nat
  BY DEF TokensInv, TableOK, Issue
<1>2. /\ tokens' = [i \in DOMAIN rest \cup {issued + 1} |-> IF i = issued + 1 THEN row ELSE rest[i]]
      /\ lastUse' = [i \in DOMAIN rest \cup {issued + 1} |-> IF i = issued + 1 THEN now ELSE lastUse[i]]
  BY DEF Issue
<1>3. /\ DOMAIN tokens' = DOMAIN rest \cup {issued + 1} /\ tokens'[issued + 1] = row
      /\ \A i \in DOMAIN rest : tokens'[i] = tokens[i]
      /\ tokens' = [i \in DOMAIN tokens' |-> tokens'[i]]
  BY <1>1, <1>2
<1>4. /\ lastUse' \in [DOMAIN tokens' -> Int] /\ lastUse'[issued + 1] = now
      /\ \A i \in DOMAIN rest : lastUse'[i] = lastUse[i]
  BY <1>1, <1>2, <1>3 DEF TokensInv, TableOK
<1>5. TableOK'
  <2>1. \A i \in DOMAIN tokens' : RowOK(tokens'[i])
    BY <1>3 DEF TokensInv, TableOK
  <2>2. \A r : RowOK(r)' <=> RowOK(r)
    BY DEF RowOK
  <2>3. DOMAIN tokens' \subseteq 1..issued'
    BY <1>1, <1>3 DEF TokensInv, TableOK
  <2>4. now' \in Nat /\ issued' \in Nat
    BY <1>1
  <2> QED BY <1>3, <1>4, <2>1, <2>2, <2>3, <2>4 DEF TableOK, RowOK
<1>6. UsesFit'
  <2>1. row.kind = "session" => row.lastUsed <= now /\ now < row.lastUsed + TouchInterval
    BY <1>1, AuthAssumption
  <2> QED BY <1>3, <1>4, <2>1 DEF TokensInv, UsesFit
<1> QED BY <1>1, <1>3, <1>5, <1>6

\* The rest of Login: it makes room for the new session among the sessions of its user, by
\* their last uses, up to the interval in which a use is not written.
LEMMA LoginIssuesKeeps ==
    ASSUME TokensInv, NEW r \in RpcCalls, LoginIssues(r)
    PROVE  TokensInv' /\ TokensKeptStep
<1> DEFINE u == call[r].user
           gone == Delete(Expired)
           all == {i \in DOMAIN gone : gone[i].kind = "session" /\ gone[i].user = u}
           row == [kind |-> "session", user |-> u, created |-> now, expires |-> now + IdleTimeout, lastUsed |-> now]
<1>1. PICK keep \in Recent(u, gone) : Issue(row, [i \in DOMAIN gone \ (all \ keep) |-> gone[i]])
  BY DEF LoginIssues
<1> DEFINE rest == [i \in DOMAIN gone \ (all \ keep) |-> gone[i]]
<1>2. now \in Nat /\ UNCHANGED now
  BY DEF LoginIssues, TokensInv, TableOK
<1>3. DOMAIN gone = DOMAIN tokens \ Expired /\ \A i \in DOMAIN gone : gone[i] = tokens[i]
  BY DEF Delete
<1>4. /\ keep \subseteq all
      /\ Cardinality(keep) = (IF Cardinality(all) < MaxSessions - 1 THEN Cardinality(all) ELSE MaxSessions - 1)
      /\ \A i \in keep, j \in all \ keep : \/ gone[i].lastUsed > gone[j].lastUsed
                                           \/ gone[i].lastUsed = gone[j].lastUsed
  BY <1>1 DEF Recent, Kept
<1>5. RowOK(row) /\ row.kind = "session" /\ row.lastUsed = now /\ row.user = u
  BY <1>2 DEF RowOK
<1>6. /\ all \subseteq DOMAIN tokens
      /\ \A i \in all : tokens[i].kind = "session" /\ tokens[i].user = u
      /\ \A i \in DOMAIN tokens \ Expired : tokens[i].kind = "session" /\ tokens[i].user = u => i \in all
  BY <1>3
<1>7. DOMAIN rest = (DOMAIN tokens \ Expired) \ (all \ keep) /\ \A i \in DOMAIN rest : rest[i] = tokens[i]
  BY <1>3
<1>8. Issue(row, rest)
  BY <1>1
<1> HIDE DEF gone, all, row, rest, u
<1>9. /\ TableOK' /\ UsesFit' /\ DOMAIN tokens' = DOMAIN rest \cup {issued + 1}
      /\ tokens'[issued + 1] = row /\ issued + 1 \notin DOMAIN tokens
      /\ \A i \in DOMAIN rest : tokens'[i] = tokens[i]
  <2>1. DOMAIN rest \subseteq DOMAIN tokens
    BY <1>7
  <2> QED BY <1>2, <1>5, <1>7, <1>8, <2>1, IssueKeeps
<1>10. FewSessions'
  <2> SUFFICES ASSUME NEW v \in Usernames PROVE Cardinality(Sessions(v)') <= MaxSessions
    BY DEF FewSessions
  <2>1. CASE v = u
    <3>1. Sessions(v)' \subseteq keep \cup {issued + 1}
      BY <1>6, <1>7, <1>9, <2>1 DEF Sessions
    <3>2. IsFiniteSet(all) /\ IsFiniteSet(keep)
      BY <1>4, <1>6, TokensFinite, FS_Subset DEF TokensInv
    <3>3. Cardinality(all) \in Nat /\ Cardinality(keep) \in Nat
      BY <3>2, FS_CardinalityType
    <3>4. Cardinality(keep) <= MaxSessions - 1
      BY <1>4, <3>3, AuthAssumption
    <3>5. /\ IsFiniteSet(keep \cup {issued + 1})
          /\ Cardinality(keep \cup {issued + 1}) \in {Cardinality(keep), Cardinality(keep) + 1}
      BY <3>2, FS_AddElement
    <3>6. IsFiniteSet(Sessions(v)') /\ Cardinality(Sessions(v)') <= Cardinality(keep \cup {issued + 1})
      BY <3>1, <3>5, FS_Subset
    <3>7. Cardinality(Sessions(v)') \in Nat
      BY <3>6, FS_CardinalityType
    <3> QED BY <3>3, <3>4, <3>5, <3>6, <3>7, AuthAssumption
  <2>2. CASE v # u
    <3>1. Sessions(v)' \subseteq Sessions(v)
      BY <1>5, <1>7, <1>9, <2>2 DEF Sessions
    <3> QED BY <3>1, FewerSessions
  <2> QED BY <2>1, <2>2
<1>11. TokensKeptStep
  <2>1. ASSUME NEW i \in DOMAIN tokens \ (DOMAIN tokens' \cup Expired),
               NEW j \in DOMAIN tokens \cap DOMAIN tokens',
               tokens[j].kind = "session", tokens[j].user = tokens[i].user
        PROVE  lastUse[i] < lastUse[j] + TouchInterval
    <3>1. i \in all \ keep /\ tokens[i].kind = "session" /\ tokens[i].user = u
      BY <1>6, <1>7, <1>9
    <3>2. j \in DOMAIN rest /\ j \notin Expired
      BY <1>7, <1>9
    <3>3. j \in keep
      BY <1>6, <1>7, <2>1, <3>1, <3>2
    <3>4. gone[i] = tokens[i] /\ gone[j] = tokens[j]
      BY <1>3, <3>2
    <3>5. tokens[j].lastUsed >= tokens[i].lastUsed
      BY <1>4, <3>1, <3>3, <3>4 DEF TokensInv, TableOK, RowOK
    <3>6. /\ lastUse[i] \in Int /\ lastUse[j] \in Int
          /\ tokens[i].lastUsed \in Int /\ tokens[j].lastUsed \in Int
      BY DEF TokensInv, TableOK, RowOK
    <3>7. lastUse[i] < tokens[i].lastUsed + TouchInterval /\ tokens[j].lastUsed <= lastUse[j]
      BY <2>1, <3>1 DEF TokensInv, UsesFit
    <3> QED BY <3>5, <3>6, <3>7, AuthAssumption
  <2>2. \A i \in DOMAIN tokens \cap DOMAIN tokens' : tokens'[i] = tokens[i]
    BY <1>9
  <2> QED BY <2>1, <2>2 DEF TokensKeptStep
<1> QED BY <1>9, <1>10, <1>11 DEF TokensInv

\* A new API key leaves the sessions alone.
LEMMA KeysCreateKeeps ==
    ASSUME TokensInv, NEW r \in RpcCalls, NEW expires, KeysCreate(r, expires)
    PROVE  TokensInv' /\ TokensKeptStep
<1> DEFINE row == [kind |-> "api_key", user |-> "none", created |-> now, expires |-> expires, lastUsed |-> Unused]
<1>1. Issue(row, tokens) /\ UNCHANGED now /\ now \in Nat
  BY DEF KeysCreate, TokensInv, TableOK
<1>2. RowOK(row) /\ row.kind = "api_key"
  BY <1>1, AuthAssumption DEF RowOK, Unused
<1> HIDE DEF row
<1>3. /\ TableOK' /\ UsesFit' /\ DOMAIN tokens' = DOMAIN tokens \cup {issued + 1}
      /\ tokens'[issued + 1] = row /\ issued + 1 \notin DOMAIN tokens
      /\ \A i \in DOMAIN tokens : tokens'[i] = tokens[i]
  <2>1. row.kind = "session" => row.lastUsed = now
    BY <1>2
  <2> QED BY <1>1, <1>2, <2>1, IssueKeeps
<1>4. FewSessions'
  <2> SUFFICES ASSUME NEW v \in Usernames PROVE Cardinality(Sessions(v)') <= MaxSessions
    BY DEF FewSessions
  <2>1. Sessions(v)' \subseteq Sessions(v)
    BY <1>2, <1>3 DEF Sessions
  <2> QED BY <2>1, FewerSessions
<1>5. TokensKeptStep
  BY <1>3 DEF TokensKeptStep
<1> QED BY <1>3, <1>4, <1>5 DEF TokensInv

\* A token that is removed takes nothing else with it.
LEMMA RemoveTokenKeeps ==
    ASSUME TokensInv, NEW r \in RpcCalls, NEW id, RemoveToken(r, id)
    PROVE  TokensInv' /\ TokensKeptStep
<1>1. /\ tokens' = [i \in DOMAIN tokens \ {id} |-> tokens[i]]
      /\ lastUse' = [i \in DOMAIN lastUse \ {id} |-> lastUse[i]] /\ UNCHANGED <<now, issued>>
  BY DEF RemoveToken, Delete
<1>2. /\ DOMAIN tokens' = DOMAIN tokens \ {id} /\ \A i \in DOMAIN tokens' : tokens'[i] = tokens[i]
      /\ tokens' = [i \in DOMAIN tokens' |-> tokens'[i]]
      /\ lastUse' \in [DOMAIN tokens' -> Int] /\ \A i \in DOMAIN tokens' : lastUse'[i] = lastUse[i]
  BY <1>1 DEF TokensInv, TableOK
<1>3. TableOK' /\ UsesFit'
  BY <1>1, <1>2 DEF TokensInv, TableOK, UsesFit, RowOK
<1>4. FewSessions'
  <2> SUFFICES ASSUME NEW v \in Usernames PROVE Cardinality(Sessions(v)') <= MaxSessions
    BY DEF FewSessions
  <2>1. Sessions(v)' \subseteq Sessions(v)
    BY <1>2 DEF Sessions
  <2> QED BY <2>1, FewerSessions
<1>5. TokensKeptStep
  BY <1>1, <1>2 DEF TokensKeptStep
<1> QED BY <1>3, <1>4, <1>5 DEF TokensInv

\* Every step keeps the table right and ends or shortens no token it should not.
LEMMA TokensStep ==
    ASSUME TokensInv, [AuthNext]_authVars
    PROVE  TokensInv' /\ TokensKeptStep
<1>1. ASSUME NEW r \in RpcCalls, NEW m, NEW id, NEW fails, Arrive(r, m, id, fails)
      PROVE  TokensInv' /\ TokensKeptStep
  <2>1. Verify(id, fails) /\ UNCHANGED <<now, issued>>
    BY <1>1 DEF Arrive
  <2> QED BY <2>1, VerifyKeeps
<1>2. ASSUME UNCHANGED <<now, tokens, issued, lastUse>> PROVE TokensInv' /\ TokensKeptStep
  BY <1>2, TokensStay DEF TokensInv, TableOK
<1>3. ASSUME NEW r \in RpcCalls, MethodStep(r) PROVE TokensInv' /\ TokensKeptStep
  <2>1. CASE InitChecks(r) \/ LoginFails(r) \/ LoginRehashes(r) \/ MethodReturns(r)
    BY <1>2, <2>1 DEF InitChecks, LoginFails, LoginRehashes, MethodReturns
  <2>2. CASE (\E u \in Usernames, hashed \in BOOLEAN : InitInserts(r, u, hashed)) \/ \E u \in Usernames : LoginFinds(r, u)
    BY <1>2, <2>2 DEF InitInserts, LoginFinds
  <2>3. CASE LoginIssues(r)
    BY <2>3, LoginIssuesKeeps
  <2>4. CASE \E expires \in {now + 1, Never} : KeysCreate(r, expires)
    BY <2>4, KeysCreateKeeps
  <2>5. CASE \E id \in 1..MaxTokens : RemoveToken(r, id)
    BY <2>5, RemoveTokenKeeps
  <2> QED BY <1>3, <2>1, <2>2, <2>3, <2>4, <2>5 DEF MethodStep
<1>4. CASE Tick
  <2>1. now' = now + 1 /\ now \in Nat /\ UNCHANGED <<tokens, lastUse, issued>>
    BY <1>4 DEF Tick, TokensInv, TableOK
  <2>2. now' \in Nat /\ now' >= now
    BY <2>1
  <2> QED BY <2>1, <2>2, TokensStay
<1>5. CASE UNCHANGED authVars
  BY <1>2, <1>5 DEF authVars
<1>6. ASSUME NEW r \in RpcCalls, RpcStep(r), UNCHANGED <<now, users, tokens, issued, lastUse>>
      PROVE  TokensInv' /\ TokensKeptStep
  BY <1>2, <1>6
<1> QED BY <1>1, <1>3, <1>4, <1>5, <1>6 DEF AuthNext

\* There are no tokens at the start.
LEMMA TokensInit == AuthInit => TokensInv
<1> SUFFICES ASSUME AuthInit PROVE TokensInv
  OBVIOUS
<1>1. tokens = <<>> /\ DOMAIN tokens = {} /\ lastUse = <<>> /\ now = 0 /\ issued = 0
  BY DEF AuthInit
<1>2. TableOK /\ UsesFit
  BY <1>1 DEF TableOK, UsesFit
<1>3. FewSessions
  <2>1. \A u : Sessions(u) = {}
    BY <1>1 DEF Sessions
  <2> QED BY <2>1, FS_EmptySet, AuthAssumption DEF FewSessions
<1> QED BY <1>2, <1>3 DEF TokensInv

\* Login and Touch, for any users, limits and times: a user keeps at most kMaxSessionsPerUser
\* sessions, and each of them lasts the idle timeout after its last use, up to kTouchInterval.
THEOREM SessionsAreLimited == AuthSpec => []SessionsLive
<1>1. TokensInv => SessionsLive
  <2> SUFFICES ASSUME TokensInv PROVE SessionsLive
    OBVIOUS
  <2>1. ASSUME NEW u \in Usernames, NEW i \in Sessions(u)
        PROVE  tokens[i].expires > lastUse[i] + IdleTimeout - TouchInterval
    <3>1. i \in DOMAIN tokens /\ tokens[i].kind = "session"
      BY DEF Sessions
    <3> QED BY <3>1, AuthAssumption DEF TokensInv, TableOK, UsesFit, RowOK
  <2> QED BY <2>1 DEF SessionsLive, TokensInv, FewSessions
<1>2. TokensInv /\ [AuthNext]_authVars => TokensInv'
  BY TokensStep
<1> QED BY <1>1, <1>2, TokensInit, PTL DEF AuthSpec

\* Login and Touch: a login ends no session that was used clearly later than one it keeps, and
\* no expiry comes closer.
THEOREM TokensAreKept == AuthSpec => TokensKept
<1>1. TokensInv /\ [AuthNext]_authVars => TokensInv'
  BY TokensStep
<1>2. TokensInv /\ [AuthNext]_authVars => [TokensKeptStep]_authVars
  BY TokensStep
<1>3. TokensKept <=> [][TokensKeptStep]_authVars
  BY DEF TokensKept, TokensKeptStep
<1> QED BY <1>1, <1>2, <1>3, TokensInit, PTL DEF AuthSpec
=============================================================================
