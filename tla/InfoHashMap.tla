---------------------------- MODULE InfoHashMap ----------------------------
(***************************************************************************)
(* The container a session keeps its torrents in                           *)
(* (src/sessions/infohashmap.hpp): a map keyed by the full info hash, and   *)
(* one index per half of the hash so that a hybrid torrent is also found by *)
(* either half.  A magnet link is keyed by the half it carries until its    *)
(* metadata adds the other one (rekey).                                     *)
(*                                                                         *)
(* m_items, m_v1 and m_v2 are std::maps; here each is a total function that *)
(* is None where the map has no entry.  Two specifications share the        *)
(* operations: Spec lets a caller pass any hash, SessionSpec calls the map  *)
(* the way Session does.                                                    *)
(***************************************************************************)
CONSTANTS
    V1,      \* the sha1 halves
    V2,      \* the sha256 halves
    NoHalf,  \* the all-zero half: has_v1() or has_v2() is false
    Hashes,  \* the info hashes callers pass
    Items,   \* the payloads
    None     \* no entry

HashType == [v1 : V1 \cup {NoHalf}, v2 : V2 \cup {NoHalf}]

HasV1(h) == h.v1 # NoHalf
HasV2(h) == h.v2 # NoHalf

ASSUME HashAssumption ==
    /\ NoHalf \notin V1 \cup V2
    /\ Hashes \subseteq HashType
    /\ \A h \in Hashes : HasV1(h) \/ HasV2(h)
    /\ None \notin Hashes \cup Items

VARIABLES m_items, m_v1, m_v2

vars == <<m_items, m_v1, m_v2>>

Keys == {k \in Hashes : m_items[k] # None}

-----------------------------------------------------------------------------
(* Lookup                                                                    *)

Compatible(a, b) ==
    /\ HasV1(a) /\ HasV1(b) => a.v1 = b.v1
    /\ HasV2(a) /\ HasV2(b) => a.v2 = b.v2

\* The index entry of half h.v1 (h.v2) counts only if the other halves agree.
ByV1(h) == HasV1(h) /\ m_v1[h.v1] # None /\ Compatible(h, m_v1[h.v1])
ByV2(h) == HasV2(h) /\ m_v2[h.v2] # None /\ Compatible(h, m_v2[h.v2])

\* Mutant: the second index is never asked.
BugKeyByV1Only(h) == IF ByV1(h) THEN m_v1[h.v1] ELSE None

KeyByHalf(h) == IF ByV1(h) THEN m_v1[h.v1]
                ELSE IF ByV2(h) THEN m_v2[h.v2]
                ELSE None

-----------------------------------------------------------------------------
(* Index maintenance: what one index becomes                                 *)

\* try_emplace: an entry another key already holds is kept.
AddV1(index, k) ==
    [x \in V1 |-> IF x = k.v1 /\ index[x] = None THEN k ELSE index[x]]

AddV2(index, k) ==
    [x \in V2 |-> IF x = k.v2 /\ index[x] = None THEN k ELSE index[x]]

\* Only the entry that refers to k itself is dropped.
RemoveV1(index, k) ==
    [x \in V1 |-> IF x = k.v1 /\ index[x] = k THEN None ELSE index[x]]

RemoveV2(index, k) ==
    [x \in V2 |-> IF x = k.v2 /\ index[x] = k THEN None ELSE index[x]]

-----------------------------------------------------------------------------
(* Operations                                                                *)

TryEmplace(h, item) ==
    /\ m_items[h] = None
    /\ m_items' = [m_items EXCEPT ![h] = item]
    /\ m_v1' = AddV1(m_v1, h)
    /\ m_v2' = AddV2(m_v2, h)

Erase(h) ==
    /\ m_items[h] # None
    /\ m_items' = [m_items EXCEPT ![h] = None]
    /\ m_v1' = RemoveV1(m_v1, h)
    /\ m_v2' = RemoveV2(m_v2, h)

\* extract, change the key, insert back.
RekeyMoved(prev, curr) ==
    /\ curr = prev \/ m_items[curr] = None
    /\ m_items' = [m_items EXCEPT ![prev] = None, ![curr] = m_items[prev]]
    /\ m_v1' = AddV1(RemoveV1(m_v1, prev), curr)
    /\ m_v2' = AddV2(RemoveV2(m_v2, prev), curr)

\* curr is taken: the item at prev is dropped.
RekeyDropped(prev, curr) ==
    /\ curr # prev /\ m_items[curr] # None
    /\ m_items' = [m_items EXCEPT ![prev] = None]
    /\ m_v1' = RemoveV1(m_v1, prev)
    /\ m_v2' = RemoveV2(m_v2, prev)

Rekey(prev, curr) ==
    /\ m_items[prev] # None
    /\ RekeyMoved(prev, curr) \/ RekeyDropped(prev, curr)

Init ==
    /\ m_items = [h \in Hashes |-> None]
    /\ m_v1 = [x \in V1 |-> None]
    /\ m_v2 = [x \in V2 |-> None]

Next ==
    \/ \E h \in Hashes, item \in Items : TryEmplace(h, item)
    \/ \E h \in Hashes : Erase(h)
    \/ \E prev, curr \in Hashes : Rekey(prev, curr)

Spec == Init /\ [][Next]_vars

-----------------------------------------------------------------------------
(* The calls Session makes.  Session::Add inserts only what find_by_half     *)
(* does not know.  A torrent is re-keyed when its metadata adds the missing  *)
(* half; libtorrent refuses the metadata when another of its torrents has    *)
(* that half already (the case where the other one is an add still on its    *)
(* way to libtorrent is left to Spec).                                       *)

Share(a, b) ==
    \/ HasV1(a) /\ a.v1 = b.v1
    \/ HasV2(a) /\ a.v2 = b.v2

\* Halves are digests of one info dictionary: hashes that share one half are
\* hashes of one torrent and never disagree on the other.
Consistent == \A a, b \in Hashes : Share(a, b) => Compatible(a, b)

SessionAdd(h, item) == KeyByHalf(h) = None /\ TryEmplace(h, item)

Completes(prev, curr) ==
    /\ HasV1(prev) => curr.v1 = prev.v1
    /\ HasV2(prev) => curr.v2 = prev.v2

SessionRekey(prev, curr) ==
    /\ Completes(prev, curr)
    /\ \A k \in Keys : Share(k, curr) => k = prev
    /\ Rekey(prev, curr)

SessionNext ==
    \/ \E h \in Hashes, item \in Items : SessionAdd(h, item)
    \/ \E h \in Hashes : Erase(h)
    \/ \E prev, curr \in Hashes : SessionRekey(prev, curr)

SessionSpec == Init /\ [][SessionNext]_vars

-----------------------------------------------------------------------------
(* Properties                                                                *)

\* The maps have items and keys.
TypeOK ==
    /\ m_items \in [Hashes -> Items \cup {None}]
    /\ m_v1 \in [V1 -> Hashes \cup {None}]
    /\ m_v2 \in [V2 -> Hashes \cup {None}]

\* An index entry always refers to an item that is in the map and whose key has
\* that half: find_by_half never looks up a key that was erased or moved away,
\* whatever order inserts, erases and re-keys of colliding hashes come in.
IndexSound ==
    /\ \A x \in V1 : m_v1[x] # None => m_v1[x] \in Keys /\ m_v1[x].v1 = x
    /\ \A x \in V2 : m_v2[x] # None => m_v2[x] \in Keys /\ m_v2[x].v2 = x

\* Under the calls Session makes, every half of every key is indexed, by that
\* key: no sequence of adds, metadata arrivals and removals leaves a torrent
\* that one of its halves does not find.
IndexComplete ==
    \A k \in Keys : /\ HasV1(k) => m_v1[k.v1] = k
                    /\ HasV2(k) => m_v2[k.v2] = k

\* Under the calls Session makes, find_by_half agrees with its definition by
\* search: it finds a torrent exactly when some key shares a half with the
\* hash, so Session::Add refuses a duplicate before libtorrent has to.
FindByHalfExact ==
    \A h \in Hashes :
        LET found == KeyByHalf(h)
        IN  IF \E k \in Keys : Share(h, k)
            THEN found \in Keys /\ Share(h, found)
            ELSE found = None

\* Under the calls Session makes, no two torrents of the session share a half:
\* the "pathological" case AddHalves resolves by order of arrival never comes up.
NoSharedHalf == \A a, b \in Keys : Share(a, b) => a = b
=============================================================================
