------------------------------ MODULE MCService ------------------------------
(***************************************************************************)
(* Model checking of the parts that serve users: the info-hash map, logins  *)
(* and calls, the records of sessions and presets, the flags of a torrent,  *)
(* the queries and the log.  They share no state, so a behaviour is one of   *)
(* one of them.                                                             *)
(***************************************************************************)
EXTENDS InfoHashMap, Auth, Records, TorrentFlags, Queries, LogBuffer

VARIABLE part

serviceVars == <<part, vars, authVars, recordVars, flagVars, queryVars, logVars>>

\* The parts that a behaviour does not belong to stay in one initial state.
Rest ==
    /\ part # "records" => disk.version = 0
    /\ part # "flags" => flags = {} /\ ~missing
    /\ part # "query" => question = "nest"
    /\ part # "log" => logLevel = 0

ServiceInit ==
    /\ part \in {"map", "auth", "records", "flags", "query", "log"}
    /\ Init /\ AuthInit /\ RecordsInit /\ FlagsInit /\ QueriesInit /\ LogInit /\ Rest

ServiceNext ==
    /\ UNCHANGED part
    /\ \/ part = "map" /\ UNCHANGED <<authVars, recordVars, flagVars, queryVars, logVars>> /\ SessionNext
       \/ part = "auth" /\ UNCHANGED <<vars, recordVars, flagVars, queryVars, logVars>> /\ AuthNext
       \/ part = "records" /\ UNCHANGED <<vars, authVars, flagVars, queryVars, logVars>> /\ RecordsNext
       \/ part = "flags" /\ UNCHANGED <<vars, authVars, recordVars, queryVars, logVars>> /\ FlagsNext
       \/ part = "query" /\ UNCHANGED <<vars, authVars, recordVars, flagVars, logVars>> /\ QueriesNext
       \/ part = "log" /\ UNCHANGED <<vars, authVars, recordVars, flagVars, queryVars>> /\ LogNext

ServiceSpec == ServiceInit /\ [][ServiceNext]_serviceVars

-----------------------------------------------------------------------------
\* The hashes of hybrid torrents: torrent n has the halves <<n, "v1">> and
\* <<n, "v2">>, and is known by one of them or by both.
Torrents == 1 .. 3
HybridV1 == {<<n, "v1">> : n \in Torrents}
HybridV2 == {<<n, "v2">> : n \in Torrents}
HybridHashes ==
    UNION {{[v1 |-> <<n, "v1">>, v2 |-> NoHalf],
            [v1 |-> NoHalf, v2 |-> <<n, "v2">>],
            [v1 |-> <<n, "v1">>, v2 |-> <<n, "v2">>]} : n \in Torrents}

ASSUME HybridsConsistent == Hashes = HybridHashes => Consistent

\* Connections, and with them user names, are interchangeable.
Connections == Permutations(RpcCalls)
=============================================================================
