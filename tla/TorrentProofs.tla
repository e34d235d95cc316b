--------------------------- MODULE TorrentProofs ----------------------------
(***************************************************************************)
(* Proofs about InfoHashMap and TorrentFlags.  For any caller the indexes   *)
(* never refer to a key that is gone (IndexSound).  For the calls Session   *)
(* makes, and hashes that are consistent, they are also complete, so no two *)
(* torrents share a half and find_by_half is exact.  The flags that a check *)
(* puts aside come back, for any requests, alerts and restarts.             *)
(***************************************************************************)
EXTENDS InfoHashMap, TorrentFlags, TLAPS

-----------------------------------------------------------------------------
(* InfoHashMap                                                                *)

\* The indexes hold hashes and None only, and the items are payloads, for any
\* caller of try_emplace, erase and rekey.
LEMMA TypeStep ==
    ASSUME TypeOK, [Next]_vars
    PROVE  TypeOK'
<1> USE HashAssumption DEF TypeOK
<1>1. ASSUME NEW h \in Hashes, NEW item \in Items, TryEmplace(h, item)
      PROVE  TypeOK'
  BY <1>1 DEF TryEmplace, AddV1, AddV2
<1>2. ASSUME NEW h \in Hashes, Erase(h)
      PROVE  TypeOK'
  BY <1>2 DEF Erase, RemoveV1, RemoveV2
<1>3. ASSUME NEW prev \in Hashes, NEW curr \in Hashes, Rekey(prev, curr)
      PROVE  TypeOK'
  <2>1. CASE RekeyMoved(prev, curr)
    BY <2>1 DEF RekeyMoved, AddV1, AddV2, RemoveV1, RemoveV2
  <2>2. CASE RekeyDropped(prev, curr)
    BY <2>2 DEF RekeyDropped, RemoveV1, RemoveV2
  <2>3. QED
    BY <1>3, <2>1, <2>2 DEF Rekey
<1>4. CASE UNCHANGED vars
  BY <1>4 DEF vars
<1>5. QED
  BY <1>1, <1>2, <1>3, <1>4 DEF Next

\* TypeOK holds in every behaviour of the map.
THEOREM TypeCorrect == Spec => []TypeOK
<1>1. Init => TypeOK
  BY HashAssumption DEF Init, TypeOK
<1>2. TypeOK /\ [Next]_vars => TypeOK'
  BY TypeStep
<1>3. QED
  BY <1>1, <1>2, PTL DEF Spec

-----------------------------------------------------------------------------
(* IndexSound is inductive relative to TypeOK.                               *)

\* One step of any caller keeps every index entry pointing at a key that has
\* that half and is in the map.
LEMMA SoundStep ==
    ASSUME TypeOK, IndexSound, [Next]_vars
    PROVE  IndexSound'
<1> USE HashAssumption DEF TypeOK, IndexSound, Keys, HashType
<1>1. ASSUME NEW h \in Hashes, NEW item \in Items, TryEmplace(h, item)
      PROVE  IndexSound'
  BY <1>1 DEF TryEmplace, AddV1, AddV2
<1>2. ASSUME NEW h \in Hashes, Erase(h)
      PROVE  IndexSound'
  BY <1>2 DEF Erase, RemoveV1, RemoveV2
<1>3. ASSUME NEW prev \in Hashes, NEW curr \in Hashes, Rekey(prev, curr)
      PROVE  IndexSound'
  <2>1. CASE RekeyMoved(prev, curr)
    BY <1>3, <2>1 DEF Rekey, RekeyMoved, AddV1, AddV2, RemoveV1, RemoveV2
  <2>2. CASE RekeyDropped(prev, curr)
    BY <1>3, <2>2 DEF Rekey, RekeyDropped, RemoveV1, RemoveV2
  <2>3. QED
    BY <1>3, <2>1, <2>2 DEF Rekey
<1>4. CASE UNCHANGED vars
  BY <1>4 DEF vars
<1>5. QED
  BY <1>1, <1>2, <1>3, <1>4 DEF Next

\* find_by_half never returns a key that is not in the map, for any caller and
\* any set of hashes.
THEOREM IndexIsSound == Spec => []IndexSound
<1>1. Init => TypeOK /\ IndexSound
  BY HashAssumption DEF Init, TypeOK, IndexSound
<1>2. TypeOK /\ IndexSound /\ [Next]_vars => TypeOK' /\ IndexSound'
  BY TypeStep, SoundStep
<1>3. QED
  BY <1>1, <1>2, PTL DEF Spec
-----------------------------------------------------------------------------
(* The calls of Session.  NoSharedHalf and IndexComplete need each other: an *)
(* add is refused only if the index is complete, and the index stays         *)
(* complete only if no half is contested.                                    *)

\* The inductive invariant of SessionSpec.
SessionInv == TypeOK /\ IndexSound /\ NoSharedHalf /\ IndexComplete

\* Session only makes calls any caller could make.
LEMMA SessionNextIsNext ==
    ASSUME [SessionNext]_vars
    PROVE  [Next]_vars
BY DEF SessionNext, Next, SessionAdd, SessionRekey

\* A complete and sound index over consistent hashes finds a key exactly when
\* some key shares a half.
LEMMA FindIsExact ==
    ASSUME Consistent, SessionInv
    PROVE  FindByHalfExact
<1> USE HashAssumption DEF SessionInv, TypeOK, Keys, HashType, Share
<1>1. ASSUME NEW h \in Hashes, NEW k \in Keys, Share(h, k)
      PROVE  ByV1(h) \/ ByV2(h)
  <2>1. Compatible(h, k)
    BY <1>1 DEF Consistent
  <2>2. CASE HasV1(h) /\ h.v1 = k.v1
    BY <1>1, <2>1, <2>2 DEF IndexComplete, HasV1, ByV1
  <2>3. CASE HasV2(h) /\ h.v2 = k.v2
    BY <1>1, <2>1, <2>3 DEF IndexComplete, HasV2, ByV2
  <2>4. QED
    BY <1>1, <2>2, <2>3
<1>2. ASSUME NEW h \in Hashes, KeyByHalf(h) # None
      PROVE  KeyByHalf(h) \in Keys /\ Share(h, KeyByHalf(h))
  <2>1. CASE ByV1(h)
    BY <2>1 DEF KeyByHalf, ByV1, HasV1, IndexSound
  <2>2. CASE ~ByV1(h) /\ ByV2(h)
    BY <2>2 DEF KeyByHalf, ByV2, HasV2, IndexSound
  <2>3. QED
    BY <1>2, <2>1, <2>2 DEF KeyByHalf
<1>3. ASSUME NEW h \in Hashes, ByV1(h) \/ ByV2(h)
      PROVE  KeyByHalf(h) # None
  BY <1>3 DEF KeyByHalf, ByV1, ByV2
<1>4. QED
  BY <1>1, <1>2, <1>3 DEF FindByHalfExact

\* Share does not depend on the order of its arguments.
LEMMA ShareSymmetric ==
    ASSUME NEW a \in Hashes, NEW b \in Hashes, Share(a, b)
    PROVE  Share(b, a)
BY DEF Share, HasV1, HasV2

\* A call of Session leaves no half contested.
LEMMA NoSharedHalfStep ==
    ASSUME Consistent, SessionInv, SessionNext
    PROVE  NoSharedHalf'
<1> USE HashAssumption DEF NoSharedHalf, TypeOK, Keys
<1>1. ASSUME NEW h \in Hashes, NEW item \in Items, SessionAdd(h, item)
      PROVE  NoSharedHalf'
  <2>1. \A k \in Keys : ~Share(h, k)
    BY <1>1, FindIsExact DEF SessionAdd, FindByHalfExact
  <2>2. \A k \in Keys : ~Share(k, h)
    BY <2>1, ShareSymmetric
  <2>3. Keys' = Keys \cup {h}
    BY <1>1 DEF SessionAdd, TryEmplace, SessionInv
  <2>4. QED
    BY <2>1, <2>2, <2>3 DEF SessionInv
<1>2. ASSUME NEW h \in Hashes, Erase(h)
      PROVE  NoSharedHalf'
  BY <1>2 DEF Erase, SessionInv
<1>3. ASSUME NEW prev \in Hashes, NEW curr \in Hashes, SessionRekey(prev, curr)
      PROVE  NoSharedHalf'
  <2>1. \A k \in Keys \ {prev} : ~Share(k, curr) /\ ~Share(curr, k)
    BY <1>3, ShareSymmetric DEF SessionRekey
  <2>2. Keys' \subseteq (Keys \ {prev}) \cup {curr}
    BY <1>3 DEF SessionRekey, Rekey, RekeyMoved, RekeyDropped, SessionInv
  <2>3. QED
    BY <2>1, <2>2 DEF SessionInv
<1>4. QED
  BY <1>1, <1>2, <1>3 DEF SessionNext

\* A call of Session leaves every half of every key indexed.
LEMMA IndexCompleteStep ==
    ASSUME Consistent, SessionInv, SessionNext
    PROVE  IndexComplete'
<1> USE HashAssumption DEF SessionInv, IndexComplete, TypeOK, Keys, HashType
<1>1. ASSUME NEW h \in Hashes, NEW item \in Items, SessionAdd(h, item)
      PROVE  IndexComplete'
  <2>1. \A k \in Keys : ~Share(h, k)
    BY <1>1, FindIsExact DEF SessionAdd, FindByHalfExact
  <2>2. /\ HasV1(h) => m_v1[h.v1] = None
        /\ HasV2(h) => m_v2[h.v2] = None
    BY <2>1 DEF IndexSound, Share, HasV1, HasV2
  <2>3. QED
    BY <1>1, <2>1, <2>2 DEF SessionAdd, TryEmplace, AddV1, AddV2, HasV1, HasV2, Share
<1>2. ASSUME NEW h \in Hashes, Erase(h)
      PROVE  IndexComplete'
  BY <1>2 DEF Erase, RemoveV1, RemoveV2, HasV1, HasV2, NoSharedHalf, Share
<1>3. ASSUME NEW prev \in Hashes, NEW curr \in Hashes, SessionRekey(prev, curr)
      PROVE  IndexComplete'
  <2>1. \A k \in Keys \ {prev} : ~Share(k, curr) /\ ~Share(curr, k)
    BY <1>3, ShareSymmetric DEF SessionRekey
  <2>2. /\ HasV1(curr) => m_v1[curr.v1] \in {None, prev}
        /\ HasV2(curr) => m_v2[curr.v2] \in {None, prev}
    BY <2>1 DEF IndexSound, Share, HasV1, HasV2
  <2>3. CASE RekeyMoved(prev, curr)
    <3>1. /\ HasV1(curr) => m_v1'[curr.v1] = curr
          /\ HasV2(curr) => m_v2'[curr.v2] = curr
      BY <2>2, <2>3 DEF IndexSound, RekeyMoved, AddV1, AddV2, RemoveV1, RemoveV2, HasV1, HasV2
    <3>2. ASSUME NEW k \in Keys \ {prev}
          PROVE  /\ HasV1(k) => m_v1'[k.v1] = k
                 /\ HasV2(k) => m_v2'[k.v2] = k
      BY <2>1, <2>3 DEF RekeyMoved, AddV1, AddV2, RemoveV1, RemoveV2, HasV1, HasV2, Share
    <3>3. Keys' \subseteq (Keys \ {prev}) \cup {curr}
      BY <2>3 DEF RekeyMoved
    <3>4. QED
      BY <3>1, <3>2, <3>3
  <2>4. CASE RekeyDropped(prev, curr)
    BY <2>4 DEF RekeyDropped, RemoveV1, RemoveV2, HasV1, HasV2
  <2>5. QED
    BY <1>3, <2>3, <2>4 DEF SessionRekey, Rekey
<1>4. QED
  BY <1>1, <1>2, <1>3 DEF SessionNext

\* Over consistent hashes, the calls of Session keep the indexes complete, keep
\* every half with one torrent, and keep find_by_half exact.
THEOREM SessionIndexCorrect ==
    Consistent => (SessionSpec => [](IndexComplete /\ NoSharedHalf /\ FindByHalfExact))
<1> SUFFICES ASSUME Consistent
             PROVE  SessionSpec => [](IndexComplete /\ NoSharedHalf /\ FindByHalfExact)
  OBVIOUS
<1>1. Init => SessionInv
  BY HashAssumption DEF Init, SessionInv, TypeOK, IndexSound, NoSharedHalf, IndexComplete, Keys
<1>2. SessionInv /\ [SessionNext]_vars => SessionInv'
  <2> SUFFICES ASSUME SessionInv, [SessionNext]_vars
               PROVE  SessionInv'
    OBVIOUS
  <2>1. TypeOK' /\ IndexSound'
    BY SessionNextIsNext, TypeStep, SoundStep DEF SessionInv
  <2>2. CASE SessionNext
    BY <2>1, <2>2, NoSharedHalfStep, IndexCompleteStep DEF SessionInv
  <2>3. CASE UNCHANGED vars
    BY <2>1, <2>3 DEF vars, SessionInv, NoSharedHalf, IndexComplete, Keys
  <2>4. QED
    BY <2>2, <2>3
<1>3. SessionInv => IndexComplete /\ NoSharedHalf /\ FindByHalfExact
  BY FindIsExact DEF SessionInv
<1>4. QED
  BY <1>1, <1>2, <1>3, PTL DEF SessionSpec

-----------------------------------------------------------------------------
(* TorrentFlags                                                               *)

FlagSets == SUBSET {Paused, Managed}

FlagsTypeOK == flags \in FlagSets /\ saved \in FlagSets /\ restore \in FlagSets \cup {NotSet}

\* What the torrent was asked for is in its flags or, during a check that nobody meddled with,
\* in the flags that are remembered; then the torrent has none, so that putting them back adds
\* to nothing and a second recheck has nothing to remember.
AskedIsKept ==
    ~meddled =>
        IF restore = NotSet THEN AskedOf(flags) = asked
        ELSE flags = {} /\ AskedOf(restore) = asked

FlagsInv == FlagsTypeOK /\ AskedIsKept

\* A request for flags says what is asked, and meddles when there are flags to put back.
LEMMA SetFlagsKeeps ==
    ASSUME FlagsInv, NEW f \in FlagSets, SetFlags(f)
    PROVE  FlagsInv'
BY DEF FlagsInv, FlagsTypeOK, AskedIsKept, SetFlags, AskedOf

\* Every request, alert, restart and step of libtorrent keeps what was asked.
LEMMA FlagsStep ==
    ASSUME FlagsInv, [FlagsNext]_flagVars
    PROVE  FlagsInv'
<1>1. CASE PauseTorrent
  BY <1>1, SetFlagsKeeps DEF PauseTorrent, FlagsInv, FlagsTypeOK, FlagSets
<1>2. CASE ResumeTorrent
  BY <1>2, SetFlagsKeeps DEF ResumeTorrent, FlagsInv, FlagsTypeOK, FlagSets
<1>3. ASSUME NEW f \in FlagSets, NEW mask \in FlagSets, PropertiesSet(f, mask) PROVE FlagsInv'
  BY <1>3, SetFlagsKeeps DEF PropertiesSet, FlagsInv, FlagsTypeOK, FlagSets
<1>4. CASE Recheck
  BY <1>4 DEF Recheck, Remembered, FlagsInv, FlagsTypeOK, AskedIsKept, FlagSets, AskedOf, NotSet, Paused, Managed
<1>5. CASE Manage
  BY <1>5 DEF Manage, FlagsInv, FlagsTypeOK, AskedIsKept, FlagSets, AskedOf, Paused, Managed
<1>6. ASSUME NEW bad, CheckEnds(bad) PROVE FlagsInv'
  BY <1>6 DEF CheckEnds, FlagsInv, FlagsTypeOK, AskedIsKept
<1>7. CASE OnTorrentChecked
  BY <1>7 DEF OnTorrentChecked, FlagsInv, FlagsTypeOK, AskedIsKept, FlagSets, AskedOf, NotSet
<1>8. CASE RestartTorrent
  BY <1>8 DEF RestartTorrent, FlagsInv, FlagsTypeOK, AskedIsKept
<1>9. CASE SaveFlags
  BY <1>9 DEF SaveFlags, FlagsInv, FlagsTypeOK, AskedIsKept
<1>10. CASE FilesPrioritize \/ Download \/ OnTorrentFinished \/ UNCHANGED flagVars
  BY <1>10 DEF FilesPrioritize, Download, OnTorrentFinished, flagVars, FlagsInv, FlagsTypeOK, AskedIsKept
<1> QED BY <1>1, <1>2, <1>3, <1>4, <1>5, <1>6, <1>7, <1>8, <1>9, <1>10 DEF FlagsNext, FlagSets

\* Session::Recheck and OnTorrentCheckedAlert, for any bounds: a torrent that no flags are
\* remembered for runs as it was asked to, unless somebody meddled with the check.
THEOREM ChecksPutFlagsBack == FlagsSpec => []FlagsRestored
<1>1. FlagsInit => FlagsInv
  BY DEF FlagsInit, FlagsInv, FlagsTypeOK, AskedIsKept, FlagSets
<1>2. FlagsInv /\ [FlagsNext]_flagVars => FlagsInv'
  BY FlagsStep
<1>3. FlagsInv => FlagsRestored
  BY DEF FlagsInv, AskedIsKept, FlagsRestored
<1> QED BY <1>1, <1>2, <1>3, PTL DEF FlagsSpec
=============================================================================
