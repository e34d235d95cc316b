---------------------------- MODULE SessionProofs ----------------------------
(****************************************************************************)
(* The session core, proved for any number of torrents, any queue length    *)
(* and any of the bounds of TorrentSession.                                 *)
(*                                                                          *)
(* The invariant is stated one torrent at a time (Good): its one entry is   *)
(* of its last add and outlives it, the add on its way and the alert of its *)
(* beginning or end that waits are of that add, its row and its events      *)
(* match.  It holds of every torrent (Core) that was not added again while  *)
(* the SaveState job may have untracked it early (Safe).  Every step is     *)
(* shown to leave a torrent as it is (Same), to make its entry current      *)
(* (Settling), to drop the entry of a torrent that is gone (Fewer), or to   *)
(* ask for an add or a removal (Asks).                                      *)
(*                                                                          *)
(* A second invariant (Meta) rests on the first: the statuses and metadata  *)
(* alerts that wait are of the last add, behind its add alert and before    *)
(* its removal, and the entry remembers what was announced of it.           *)
(****************************************************************************)
EXTENDS TorrentSession, TLAPS, FiniteSetTheorems, SequenceTheorems

-----------------------------------------------------------------------------
(* Queues                                                                    *)

\* The messages of a queue.
Items(q) == {q[i] : i \in DOMAIN q}

\* A queue has at most one message of M.
Once(q, M) == \A i, j \in DOMAIN q : q[i] \in M /\ q[j] \in M => i = j

\* In a queue the messages of N come before those of M.
Before(q, N, M) == \A i, j \in DOMAIN q : q[i] \in M /\ q[j] \in N => j < i

\* What is taken from a queue and what is left.
LEMMA TailItems ==
    ASSUME NEW S, NEW q \in Seq(S), q # <<>>
    PROVE  /\ Head(q) \in S /\ Tail(q) \in Seq(S)
           /\ Items(q) = {Head(q)} \cup Items(Tail(q))
<1>1. /\ Head(q) \in S /\ Tail(q) \in Seq(S) /\ Len(Tail(q)) = Len(q) - 1
      /\ \A i \in 1..Len(Tail(q)) : Tail(q)[i] = q[i + 1]
      /\ Len(q) \in Nat \ {0}
  BY HeadTailProperties, EmptySeq
<1>2. /\ DOMAIN q = 1..Len(q) /\ DOMAIN Tail(q) = 1..Len(Tail(q)) /\ Head(q) = q[1]
  BY <1>1, LenProperties
<1> DEFINE n == Len(q)
<1> HIDE DEF n
<1>3. n \in Nat \ {0} /\ DOMAIN q = 1..n /\ DOMAIN Tail(q) = 1..(n - 1)
      /\ \A i \in 1..(n - 1) : Tail(q)[i] = q[i + 1]
  BY <1>1, <1>2 DEF n
<1>4. Items(q) \subseteq {Head(q)} \cup Items(Tail(q))
  <2> SUFFICES ASSUME NEW i \in 1..n PROVE q[i] \in {Head(q)} \cup Items(Tail(q))
    BY <1>3 DEF Items
  <2>1. CASE i = 1
    BY <2>1, <1>2
  <2>2. CASE i # 1
    <3>1. i - 1 \in 1..(n - 1) /\ (i - 1) + 1 = i
      BY <2>2, <1>3
    <3>2. Tail(q)[i - 1] = q[i]
      BY <3>1, <1>3
    <3> QED BY <3>1, <3>2, <1>3 DEF Items
  <2> QED BY <2>1, <2>2
<1>5. Items(Tail(q)) \subseteq Items(q)
  <2> SUFFICES ASSUME NEW i \in 1..(n - 1) PROVE Tail(q)[i] \in Items(q)
    BY <1>3 DEF Items
  <2>1. i + 1 \in 1..n
    BY <1>3
  <2> QED BY <2>1, <1>3 DEF Items
<1>6. Head(q) \in Items(q)
  <2>1. 1 \in DOMAIN q
    BY <1>3
  <2> QED BY <2>1, <1>2 DEF Items
<1> QED BY <1>1, <1>4, <1>5, <1>6

\* What a post adds to a queue.
LEMMA AppendItems ==
    ASSUME NEW S, NEW q \in Seq(S), NEW a \in S
    PROVE  Append(q, a) \in Seq(S) /\ Items(Append(q, a)) = Items(q) \cup {a}
<1> DEFINE n == Len(q)
<1>1. /\ n \in Nat /\ DOMAIN q = 1..n /\ Append(q, a) \in Seq(S)
      /\ DOMAIN Append(q, a) = 1..(n + 1)
      /\ \A i \in 1..n : Append(q, a)[i] = q[i]
      /\ Append(q, a)[n + 1] = a
  BY LenProperties
<1> HIDE DEF n
<1>2. Items(Append(q, a)) \subseteq Items(q) \cup {a}
  <2> SUFFICES ASSUME NEW i \in 1..(n + 1) PROVE Append(q, a)[i] \in Items(q) \cup {a}
    BY <1>1 DEF Items
  <2>1. i \in 1..n \/ i = n + 1
    BY <1>1
  <2> QED BY <2>1, <1>1 DEF Items
<1>3. Items(q) \subseteq Items(Append(q, a))
  <2> SUFFICES ASSUME NEW i \in 1..n PROVE q[i] \in Items(Append(q, a))
    BY <1>1 DEF Items
  <2>1. i \in 1..(n + 1)
    BY <1>1
  <2> QED BY <2>1, <1>1 DEF Items
<1>4. a \in Items(Append(q, a))
  <2>1. n + 1 \in 1..(n + 1)
    BY <1>1
  <2> QED BY <2>1, <1>1 DEF Items
<1> QED BY <1>1, <1>2, <1>3, <1>4

\* The messages of two queues put together.
LEMMA ConcatItems ==
    ASSUME NEW S, NEW q \in Seq(S), NEW r \in Seq(S)
    PROVE  q \o r \in Seq(S) /\ Items(q \o r) = Items(q) \cup Items(r)
<1> DEFINE n == Len(q)
           m == Len(r)
<1>1. /\ n \in Nat /\ m \in Nat /\ DOMAIN q = 1..n /\ DOMAIN r = 1..m
      /\ q \o r \in Seq(S) /\ DOMAIN (q \o r) = 1..(n + m)
      /\ \A i \in 1..(n + m) : (q \o r)[i] = IF i <= n THEN q[i] ELSE r[i - n]
  BY LenProperties, ConcatProperties
<1> HIDE DEF n, m
<1>2. Items(q \o r) \subseteq Items(q) \cup Items(r)
  <2> SUFFICES ASSUME NEW i \in 1..(n + m) PROVE (q \o r)[i] \in Items(q) \cup Items(r)
    BY <1>1 DEF Items
  <2>1. CASE i <= n
    <3>1. i \in DOMAIN q /\ (q \o r)[i] = q[i]
      BY <2>1, <1>1
    <3> QED BY <3>1 DEF Items
  <2>2. CASE ~(i <= n)
    <3>1. i - n \in DOMAIN r /\ (q \o r)[i] = r[i - n]
      BY <2>2, <1>1
    <3> QED BY <3>1 DEF Items
  <2> QED BY <2>1, <2>2
<1>3. Items(q) \subseteq Items(q \o r)
  <2> SUFFICES ASSUME NEW i \in 1..n PROVE q[i] \in Items(q \o r)
    BY <1>1 DEF Items
  <2>1. i \in 1..(n + m) /\ i <= n
    BY <1>1
  <2> QED BY <2>1, <1>1 DEF Items
<1>4. Items(r) \subseteq Items(q \o r)
  <2> SUFFICES ASSUME NEW i \in 1..m PROVE r[i] \in Items(q \o r)
    BY <1>1 DEF Items
  <2>1. n + i \in 1..(n + m) /\ ~(n + i <= n) /\ (n + i) - n = i
    BY <1>1
  <2>2. (q \o r)[n + i] = r[i]
    BY <2>1, <1>1
  <2> QED BY <2>1, <2>2, <1>1 DEF Items
<1> QED BY <1>1, <1>2, <1>3, <1>4

\* The empty queue has no messages.
LEMMA NoItems == Items(<<>>) = {} /\ \A S : <<>> \in Seq(S)
  BY EmptySeq DEF Items

\* A queue without its head still has at most one message of M.
LEMMA OnceTail ==
    ASSUME NEW S, NEW q \in Seq(S), q # <<>>, NEW M, Once(q, M)
    PROVE  Once(Tail(q), M) /\ (Head(q) \in M => Items(Tail(q)) \cap M = {})
<1> DEFINE n == Len(q)
<1>1. /\ n \in Nat \ {0} /\ DOMAIN q = 1..n /\ DOMAIN Tail(q) = 1..(n - 1) /\ Head(q) = q[1]
      /\ \A i \in 1..(n - 1) : Tail(q)[i] = q[i + 1]
  BY HeadTailProperties, EmptySeq, LenProperties
<1> HIDE DEF n
<1>2. \A i \in 1..(n - 1) : i + 1 \in 1..n /\ i + 1 # 1 /\ Tail(q)[i] = q[i + 1]
  BY <1>1
<1>3. Once(Tail(q), M)
  <2> SUFFICES ASSUME NEW i \in 1..(n - 1), NEW j \in 1..(n - 1), Tail(q)[i] \in M, Tail(q)[j] \in M
               PROVE  i = j
    BY <1>1 DEF Once
  <2>1. i + 1 = j + 1
    BY <1>1, <1>2 DEF Once
  <2> QED BY <2>1, <1>1
<1>4. ASSUME Head(q) \in M, NEW i \in 1..(n - 1), Tail(q)[i] \in M PROVE FALSE
  <2>1. 1 \in 1..n
    BY <1>1
  <2> QED BY <1>1, <1>2, <1>4, <2>1 DEF Once
<1> QED BY <1>1, <1>3, <1>4 DEF Items

\* A queue without messages of M has at most one.
LEMMA OnceNone ==
    ASSUME NEW q, NEW M, Items(q) \cap M = {}
    PROVE  Once(q, M)
  BY DEF Once, Items

\* A message of another kind, or the first of its kind, keeps it at one.
LEMMA OnceAppend ==
    ASSUME NEW S, NEW q \in Seq(S), NEW a \in S, NEW M, Once(q, M), a \notin M \/ Items(q) \cap M = {}
    PROVE  Once(Append(q, a), M)
<1> DEFINE n == Len(q)
<1>1. /\ n \in Nat /\ DOMAIN q = 1..n
      /\ DOMAIN Append(q, a) = 1..(n + 1)
      /\ \A i \in 1..n : Append(q, a)[i] = q[i]
      /\ Append(q, a)[n + 1] = a
  BY LenProperties
<1> HIDE DEF n
<1> SUFFICES ASSUME NEW i \in 1..(n + 1), NEW j \in 1..(n + 1),
                    Append(q, a)[i] \in M, Append(q, a)[j] \in M
             PROVE  i = j
  BY <1>1 DEF Once
<1>2. (i \in 1..n \/ i = n + 1) /\ (j \in 1..n \/ j = n + 1)
  BY <1>1
<1> QED BY <1>1, <1>2 DEF Once, Items

\* So does a list of messages of other kinds.
LEMMA OnceConcat ==
    ASSUME NEW S, NEW q \in Seq(S), NEW r \in Seq(S), NEW M, Once(q, M), Items(r) \cap M = {}
    PROVE  Once(q \o r, M)
<1> DEFINE n == Len(q)
           m == Len(r)
<1>1. /\ n \in Nat /\ m \in Nat /\ DOMAIN q = 1..n /\ DOMAIN r = 1..m
      /\ DOMAIN (q \o r) = 1..(n + m)
      /\ \A i \in 1..(n + m) : (q \o r)[i] = IF i <= n THEN q[i] ELSE r[i - n]
  BY LenProperties, ConcatProperties
<1> HIDE DEF n, m
<1> SUFFICES ASSUME NEW i \in 1..(n + m), NEW j \in 1..(n + m),
                    (q \o r)[i] \in M, (q \o r)[j] \in M
             PROVE  i = j
  BY <1>1 DEF Once
<1>2. \A k \in 1..(n + m) : k \in 1..n \/ (~(k <= n) /\ k - n \in 1..m)
  BY <1>1
<1>3. \A k \in 1..m : r[k] \notin M
  BY <1>1 DEF Items
<1>4. i \in 1..n /\ j \in 1..n /\ (q \o r)[i] = q[i] /\ (q \o r)[j] = q[j]
  BY <1>1, <1>2, <1>3
<1> QED BY <1>1, <1>4 DEF Once
\* The first of a queue put before another.
LEMMA TailOfConcat ==
    ASSUME NEW S, NEW b \in Seq(S), NEW q \in Seq(S), b # <<>>
    PROVE  b \o q # <<>> /\ Tail(b \o q) = Tail(b) \o q /\ Head(b \o q) = Head(b)
<1> DEFINE n == Len(b)
           m == Len(q)
           w == b \o q
           x == Tail(b) \o q
           y == Tail(w)
<1>2. /\ Head(b) \in S /\ Tail(b) \in Seq(S) /\ Len(Tail(b)) = n - 1
      /\ n \in Nat \ {0} /\ m \in Nat /\ \A i \in 1..(n - 1) : Tail(b)[i] = b[i + 1]
  BY HeadTailProperties, EmptySeq, LenProperties
<1>3. /\ w \in Seq(S) /\ Len(w) = n + m
      /\ \A i \in 1..(n + m) : w[i] = IF i <= n THEN b[i] ELSE q[i - n]
  BY ConcatProperties
<1>4. w # <<>>
  BY <1>2, <1>3, EmptySeq
<1>5. Len(y) = (n + m) - 1 /\ y \in Seq(S) /\ \A i \in 1..((n + m) - 1) : y[i] = w[i + 1]
  BY <1>3, <1>4, HeadTailProperties
<1>6. /\ x \in Seq(S) /\ Len(x) = (n - 1) + m
      /\ \A i \in 1..((n - 1) + m) : x[i] = IF i <= n - 1 THEN Tail(b)[i] ELSE q[i - (n - 1)]
  BY <1>2, ConcatProperties
<1> HIDE DEF n, m, w, x, y
<1>7. Len(x) = Len(y)
  BY <1>2, <1>5, <1>6
<1>8. ASSUME NEW i \in 1..Len(x) PROVE x[i] = y[i]
  <2>1. i \in 1..((n - 1) + m) /\ i \in 1..((n + m) - 1) /\ i + 1 \in 1..(n + m)
    BY <1>2, <1>6
  <2>2. CASE i <= n - 1
    <3>1. i \in 1..(n - 1) /\ i + 1 <= n
      BY <2>1, <2>2, <1>2
    <3> QED BY <2>1, <2>2, <3>1, <1>2, <1>3, <1>5, <1>6
  <2>3. CASE ~(i <= n - 1)
    <3>1. ~(i + 1 <= n) /\ i - (n - 1) = (i + 1) - n
      BY <2>1, <2>3, <1>2
    <3>2. x[i] = q[i - (n - 1)] /\ y[i] = q[(i + 1) - n]
      BY <2>1, <2>3, <3>1, <1>3, <1>5, <1>6
    <3> QED BY <3>1, <3>2
  <2> QED BY <2>2, <2>3
<1>9. x = y
  BY <1>5, <1>6, <1>7, <1>8, SeqEqual
<1>10. Head(w) = Head(b)
  <2>1. 1 \in 1..(n + m) /\ 1 <= n
    BY <1>2
  <2>2. w[1] = b[1]
    BY <2>1, <1>3
  <2>3. Head(w) = w[1] /\ Head(b) = b[1]
    BY <1>3
  <2> QED BY <2>2, <2>3
<1> QED BY <1>4, <1>9, <1>10 DEF w, x, y

\* The messages of a queue whose head was replaced.
LEMMA ConsItems ==
    ASSUME NEW S, NEW q \in Seq(S), NEW x \in S
    PROVE  <<x>> \o q \in Seq(S) /\ Items(<<x>> \o q) = {x} \cup Items(q)
<1> DEFINE s == <<x>>
<1>1. s \in Seq(S)
  OBVIOUS
<1>2. Items(s) = {x}
  <2>1. DOMAIN s = 1..1 /\ s[1] = x
    OBVIOUS
  <2>2. 1..1 = {1}
    OBVIOUS
  <2> QED BY <2>1, <2>2 DEF Items
<1> HIDE DEF s
<1>3. s \o q \in Seq(S) /\ Items(s \o q) = Items(s) \cup Items(q)
  BY <1>1, ConcatItems
<1> QED BY <1>2, <1>3 DEF s

\* A queue behind another message.
LEMMA ConsIs ==
    ASSUME NEW S, NEW q \in Seq(S), NEW x \in S
    PROVE  /\ Len(q) \in Nat /\ DOMAIN q = 1..Len(q) /\ DOMAIN (<<x>> \o q) = 1..(1 + Len(q))
           /\ (<<x>> \o q)[1] = x /\ \A i \in 1..Len(q) : (<<x>> \o q)[1 + i] = q[i]
<1> DEFINE s == <<x>>
           n == Len(q)
           v == s \o q
<1>1. s \in Seq(S) /\ Len(s) = 1 /\ s[1] = x
  OBVIOUS
<1> HIDE DEF s
<1>2. n \in Nat /\ DOMAIN q = 1..n
  BY LenProperties
<1>3. v \in Seq(S) /\ Len(v) = Len(s) + Len(q) /\ \A i \in 1..(Len(s) + Len(q)) : v[i] = IF i <= Len(s) THEN s[i] ELSE q[i - Len(s)]
  BY <1>1, ConcatProperties
<1>4. DOMAIN v = 1..Len(v)
  BY <1>3, LenProperties
<1> HIDE DEF v, n
<1>5. DOMAIN v = 1..(1 + n) /\ \A i \in 1..(1 + n) : v[i] = IF i <= 1 THEN s[i] ELSE q[i - 1]
  BY <1>1, <1>3, <1>4 DEF n
<1>6. v[1] = x
  BY <1>1, <1>2, <1>5
<1>7. ASSUME NEW i \in 1..n PROVE v[1 + i] = q[i]
  <2>1. 1 + i \in 1..(1 + n) /\ ~(1 + i <= 1) /\ (1 + i) - 1 = i
    BY <1>2
  <2> QED BY <2>1, <1>5
<1> QED BY <1>2, <1>5, <1>6, <1>7 DEF n, v, s

\* A head that is replaced by one of another kind keeps it at one.
LEMMA OnceCons ==
    ASSUME NEW S, NEW q \in Seq(S), NEW x \in S, NEW M, Once(q, M), x \notin M
    PROVE  Once(<<x>> \o q, M)
<1> DEFINE v == <<x>> \o q
           n == Len(q)
<1>1. /\ n \in Nat /\ DOMAIN q = 1..n /\ DOMAIN v = 1..(1 + n) /\ v[1] = x /\ \A i \in 1..n : v[1 + i] = q[i]
  BY ConsIs
<1> HIDE DEF v, n
<1>2. ASSUME NEW i \in 1..(1 + n), v[i] \in M PROVE i - 1 \in 1..n /\ v[i] = q[i - 1]
  <2>1. i - 1 \in 1..n /\ 1 + (i - 1) = i
    BY <1>1, <1>2
  <2> QED BY <2>1, <1>1
<1>3. ASSUME NEW i \in 1..(1 + n), NEW j \in 1..(1 + n), v[i] \in M, v[j] \in M PROVE i = j
  <2>1. i - 1 = j - 1
    BY <1>1, <1>2, <1>3 DEF Once
  <2> QED BY <2>1, <1>1
<1> QED BY <1>1, <1>3 DEF Once, v

\* A finite set listed by the code holds what the set holds.
LEMMA ListedItems ==
    ASSUME NEW S, IsFiniteSet(S)
    PROVE  Listed(S) \in Seq(S) /\ Items(Listed(S)) = S
<1> DEFINE N == Cardinality(S)
<1>1. N \in Nat /\ ExistsBijection(1..N, S)
  BY FS_CardinalityType
<1> HIDE DEF N
<1>2. PICK f : f \in Bijection(1..N, S)
  BY <1>1, Zenon DEF ExistsBijection
<1>3. f \in [1..N -> S] /\ \A x \in S : \E i \in 1..N : f[i] = x
  BY <1>2, Zenon DEF Bijection, Surjection
<1>4. Listed(S) \in [1..N -> S] /\ \A x \in S : \E i \in 1..N : Listed(S)[i] = x
  BY <1>3, Zenon DEF Listed, N
<1> DEFINE s == Listed(S)
<1> HIDE DEF s
<1>5. s \in [1..N -> S] /\ \A x \in S : \E i \in 1..N : s[i] = x
  BY <1>4 DEF s
<1>6. s \in Seq(S)
  BY <1>1, <1>5
<1>7. Items(s) = S
  BY <1>5 DEF Items
<1> QED BY <1>6, <1>7 DEF s

\* A finite set of things made from the members of a finite set.
LEMMA ImageIsFinite ==
    ASSUME NEW S, IsFiniteSet(S), NEW f, f \in [S -> {f[x] : x \in S}]
    PROVE  IsFiniteSet({f[x] : x \in S})
<1> DEFINE T == {f[x] : x \in S}
<1>1. \A y \in T : \E x \in S : f[x] = y
  OBVIOUS
<1>2. f \in Surjection(S, T)
  BY <1>1, Zenon DEF Surjection
<1> HIDE DEF T
<1>3. IsFiniteSet(T)
  BY <1>2, FS_Surjection
<1> QED BY <1>3 DEF T

\* There are finitely many keys.
LEMMA KeysFinite == IsFiniteSet(Keys)
<1>1. IsFiniteSet(Torrents)
  BY SessionAssumption
<1>2. IsFiniteSet(Forms)
  <2>1. IsFiniteSet({"half"})
    BY FS_Singleton
  <2>2. IsFiniteSet({"half"} \cup {"full"})
    BY <2>1, FS_AddElement
  <2>3. Forms = {"half"} \cup {"full"}
    BY DEF Forms
  <2> QED BY <2>2, <2>3
<1>3. IsFiniteSet(Torrents \X Forms)
  BY <1>1, <1>2, FS_Product
<1> QED BY <1>3 DEF Keys

-----------------------------------------------------------------------------
(* Messages                                                                  *)

Top == IF StoredForms = {} THEN MaxAdds ELSE MaxAdds + 1

\* The ids are 1 to Top; the bounds are naturals.
LEMMA IdsAre == Ids = 1..Top /\ Top \in Nat /\ MaxAdds <= Top /\ MaxAdds \in Nat
              /\ (StoredForms # {} => Top = MaxAdds + 1) /\ MaxChanges \in Nat
              /\ AlertLimit \in Nat \ {0}
  BY SessionAssumption DEF Ids, Top

\* The calls Porla posts.
CallMsgs ==
    [op : {"add"}, t : Torrents, id : Ids, form : Forms, meta : BOOLEAN, cfg : Maybe(0..MaxChanges),
     pos : 0..MaxChanges]
    \cup [op : {"remove"}, t : Torrents, id : Ids]
    \cup [op : {"save"}, t : Torrents, id : Ids, always : BOOLEAN, info : BOOLEAN]
    \cup [op : {"configure", "queue"}, t : Torrents, id : Ids, cfg : 0..MaxChanges, pos : 0..MaxChanges]
    \cup [op : {"updates"}]

Statuses == [t : Torrents, id : Ids, form : Forms, meta : BOOLEAN]

AlertTypes == {"add", "addFailed", "removed", "saved", "notSaved", "metadata", "update"}

\* The alerts libtorrent posts.
AlertMsgs ==
    [type : {"add"}, t : Torrents, id : Ids, form : Forms, info : Maybe(Forms)]
    \cup [type : {"addFailed", "removed"}, t : Torrents, id : Ids, form : Forms]
    \cup [type : {"saved"}, t : Torrents, id : Ids, form : Forms, cfg : Maybe(0..MaxChanges), info : Maybe(Forms)]
    \cup [type : {"notSaved", "metadata"}, t : Torrents, id : Ids]
    \cup [type : {"update"}, status : SUBSET Statuses]
    \cup [type : {"dropped"}, types : SUBSET AlertTypes]

\* The fields of a call.
LEMMA CallFields ==
    ASSUME NEW c \in CallMsgs
    PROVE  /\ c.op \in {"add", "remove", "save", "configure", "queue", "updates"}
           /\ c.op # "updates" => c.t \in Torrents /\ c.id \in Ids
           /\ c.op = "add" => /\ c.form \in Forms /\ c.meta \in BOOLEAN /\ c.cfg \in Maybe(0..MaxChanges)
                              /\ c.pos \in 0..MaxChanges
           /\ c.op = "save" => c.always \in BOOLEAN /\ c.info \in BOOLEAN
           /\ c.op \in {"configure", "queue"} => c.cfg \in 0..MaxChanges /\ c.pos \in 0..MaxChanges
  BY DEF CallMsgs

\* The fields of an alert.
LEMMA AlertFields ==
    ASSUME NEW a \in AlertMsgs
    PROVE  /\ a.type \in AlertTypes \cup {"dropped"}
           /\ a.type \notin {"update", "dropped"} => a.t \in Torrents /\ a.id \in Ids
           /\ a.type \in {"add", "addFailed", "removed", "saved"} => a.form \in Forms
           /\ a.type \in {"add", "saved"} => a.info \in Maybe(Forms)
           /\ a.type = "saved" => a.cfg \in Maybe(0..MaxChanges)
           /\ a.type = "update" => /\ a = [type |-> "update", status |-> a.status]
                                   /\ a.status \subseteq Statuses
           /\ a.type = "dropped" => a.types \subseteq AlertTypes
<1>1. CASE a \in [type : {"add"}, t : Torrents, id : Ids, form : Forms, info : Maybe(Forms)]
  BY <1>1 DEF AlertTypes
<1>2. CASE a \in [type : {"addFailed", "removed"}, t : Torrents, id : Ids, form : Forms]
  BY <1>2 DEF AlertTypes
<1>3. CASE a \in [type : {"saved"}, t : Torrents, id : Ids, form : Forms, cfg : Maybe(0..MaxChanges), info : Maybe(Forms)]
  BY <1>3 DEF AlertTypes
<1>4. CASE a \in [type : {"notSaved", "metadata"}, t : Torrents, id : Ids]
  BY <1>4 DEF AlertTypes
<1>5. CASE a \in [type : {"update"}, status : SUBSET Statuses]
  BY <1>5 DEF AlertTypes
<1>6. CASE a \in [type : {"dropped"}, types : SUBSET AlertTypes]
  BY <1>6
<1> QED BY <1>1, <1>2, <1>3, <1>4, <1>5, <1>6 DEF AlertMsgs

\* The calls the session makes are calls.
LEMMA CallsMade ==
    ASSUME NEW t \in Torrents, NEW id \in Ids
    PROVE  /\ \A form \in Forms, meta \in BOOLEAN, cfg \in Maybe(0..MaxChanges), pos \in 0..MaxChanges :
                 [op |-> "add", t |-> t, id |-> id, form |-> form, meta |-> meta, cfg |-> cfg, pos |-> pos]
                     \in CallMsgs
           /\ [op |-> "remove", t |-> t, id |-> id] \in CallMsgs
           /\ \A always, info \in BOOLEAN : Save(t, id, always, info) \in CallMsgs
           /\ \A op \in {"configure", "queue"}, cfg, pos \in 0..MaxChanges :
                 [op |-> op, t |-> t, id |-> id, cfg |-> cfg, pos |-> pos] \in CallMsgs
<1>1. \A form \in Forms, meta \in BOOLEAN, cfg \in Maybe(0..MaxChanges), pos \in 0..MaxChanges :
                 [op |-> "add", t |-> t, id |-> id, form |-> form, meta |-> meta, cfg |-> cfg, pos |-> pos]
                     \in CallMsgs
  BY DEF CallMsgs
<1>2. [op |-> "remove", t |-> t, id |-> id] \in CallMsgs
  BY DEF CallMsgs
<1>3. \A always, info \in BOOLEAN : Save(t, id, always, info) \in CallMsgs
  BY DEF CallMsgs, Save
<1>4. \A op \in {"configure", "queue"}, cfg, pos \in 0..MaxChanges :
                 [op |-> op, t |-> t, id |-> id, cfg |-> cfg, pos |-> pos] \in CallMsgs
  BY DEF CallMsgs
<1> QED BY <1>1, <1>2, <1>3, <1>4

\* So is the request for the state of the torrents.
LEMMA UpdatesCall == [op |-> "updates"] \in CallMsgs
  BY DEF CallMsgs

\* The alerts libtorrent makes are alerts.
LEMMA AlertsMade ==
    ASSUME NEW t \in Torrents, NEW id \in Ids
    PROVE  /\ \A form \in Forms, info \in Maybe(Forms) :
                 [type |-> "add", t |-> t, id |-> id, form |-> form, info |-> info] \in AlertMsgs
           /\ \A type \in {"addFailed", "removed"}, form \in Forms :
                 [type |-> type, t |-> t, id |-> id, form |-> form] \in AlertMsgs
           /\ \A form \in Forms, cfg \in Maybe(0..MaxChanges), info \in Maybe(Forms) :
                 [type |-> "saved", t |-> t, id |-> id, form |-> form, cfg |-> cfg, info |-> info] \in AlertMsgs
           /\ \A type \in {"notSaved", "metadata"} : [type |-> type, t |-> t, id |-> id] \in AlertMsgs
<1>1. \A form \in Forms, info \in Maybe(Forms) :
                 [type |-> "add", t |-> t, id |-> id, form |-> form, info |-> info] \in AlertMsgs
  BY DEF AlertMsgs
<1>2. \A type \in {"addFailed", "removed"}, form \in Forms :
                 [type |-> type, t |-> t, id |-> id, form |-> form] \in AlertMsgs
  BY DEF AlertMsgs
<1>3. \A form \in Forms, cfg \in Maybe(0..MaxChanges), info \in Maybe(Forms) :
                 [type |-> "saved", t |-> t, id |-> id, form |-> form, cfg |-> cfg, info |-> info] \in AlertMsgs
  BY DEF AlertMsgs
<1>4. \A type \in {"notSaved", "metadata"} : [type |-> type, t |-> t, id |-> id] \in AlertMsgs
  BY DEF AlertMsgs
<1> QED BY <1>1, <1>2, <1>3, <1>4

\* So are the ones that hold sets.
LEMMA SetAlerts ==
    /\ \A status \in SUBSET Statuses : [type |-> "update", status |-> status] \in AlertMsgs
    /\ \A types \in SUBSET AlertTypes : [type |-> "dropped", types |-> types] \in AlertMsgs
  BY DEF AlertMsgs

-----------------------------------------------------------------------------
(* The alerts that wait: popped ones first, then those of the queue          *)

Waiting == batch \o alerts

QueuesAre ==
    /\ calls \in Seq(CallMsgs) /\ alerts \in Seq(AlertMsgs) /\ batch \in Seq(AlertMsgs)
    /\ Len(alerts) <= AlertLimit /\ dropped \in SUBSET AlertTypes

\* The waiting alerts are those of the batch and of the queue.
LEMMA WaitingIs ==
    ASSUME QueuesAre
    PROVE  Waiting \in Seq(AlertMsgs) /\ Items(Waiting) = Items(batch) \cup Items(alerts)
  BY ConcatItems DEF QueuesAre, Waiting

\* A handler takes the first alert.
LEMMA WaitingTaken ==
    ASSUME QueuesAre, batch # <<>>, batch' = Tail(batch), alerts' = alerts
    PROVE  /\ Waiting # <<>> /\ Waiting' = Tail(Waiting) /\ Head(Waiting) = Alert
           /\ Alert \in AlertMsgs /\ batch' \in Seq(AlertMsgs)
<1>1. batch \in Seq(AlertMsgs) /\ alerts \in Seq(AlertMsgs)
  BY DEF QueuesAre
<1>2. batch \o alerts # <<>> /\ Tail(batch \o alerts) = Tail(batch) \o alerts /\ Head(batch \o alerts) = Head(batch)
  BY <1>1, TailOfConcat
<1>3. Head(batch) \in AlertMsgs /\ Tail(batch) \in Seq(AlertMsgs)
  BY <1>1, HeadTailProperties
<1> QED BY <1>2, <1>3 DEF Waiting, Alert

\* The network thread posts an alert.
LEMMA WaitingPosted ==
    ASSUME QueuesAre, NEW a \in AlertMsgs, a.type \in AlertTypes, PostAlert(a), batch' = batch
    PROVE  /\ alerts' \in Seq(AlertMsgs) /\ Len(alerts') <= AlertLimit /\ dropped' \in SUBSET AlertTypes
           /\ alerts' = alerts \/ alerts' = Append(alerts, a)
           /\ Waiting' = Waiting \/ (Waiting' = Append(Waiting, a) /\ UNCHANGED lost)
           /\ Waiting' = Waiting => UNCHANGED alerts
<1>1. /\ Len(alerts) \in Nat /\ AlertLimit \in Nat /\ alerts \in Seq(AlertMsgs) /\ batch \in Seq(AlertMsgs)
  BY IdsAre, LenProperties DEF QueuesAre
<1>2. CASE Len(alerts) < AlertLimit
  <2>1. alerts' = Append(alerts, a) /\ UNCHANGED <<dropped, lost>>
    BY <1>2 DEF PostAlert
  <2>2. Append(alerts, a) \in Seq(AlertMsgs) /\ Len(Append(alerts, a)) = Len(alerts) + 1
    BY <1>1
  <2>3. Len(alerts) + 1 <= AlertLimit
    BY <1>1, <1>2
  <2>4. batch \o Append(alerts, a) = Append(batch \o alerts, a)
    <3> DEFINE b == batch
               q == alerts
    <3>1. b \in Seq(AlertMsgs) /\ q \in Seq(AlertMsgs)
      BY <1>1
    <3> HIDE DEF b, q
    <3>2. b \o Append(q, a) = Append(b \o q, a)
      BY <3>1, AppendProperties, ConcatProperties, SeqEqual, ConcatAssociative
    <3> QED BY <3>2 DEF b, q
  <2>5. Append(batch \o alerts, a) # batch \o alerts
    <3> DEFINE w == batch \o alerts
    <3>1. w \in Seq(AlertMsgs)
      BY <1>1, ConcatProperties
    <3> HIDE DEF w
    <3>2. Len(Append(w, a)) = Len(w) + 1 /\ Len(w) \in Nat
      BY <3>1
    <3> QED BY <3>2 DEF w
  <2>6. Waiting' = Append(Waiting, a) /\ Waiting' # Waiting
    BY <2>1, <2>4, <2>5 DEF Waiting
  <2> QED BY <2>1, <2>2, <2>3, <2>6 DEF QueuesAre
<1>3. CASE ~(Len(alerts) < AlertLimit)
  <2>1. UNCHANGED alerts /\ dropped' = dropped \cup {a.type}
    BY <1>3 DEF PostAlert
  <2> QED BY <2>1 DEF QueuesAre, Waiting
<1> QED BY <1>2, <1>3

\* The io thread pops the queue.
LEMMA WaitingPopped ==
    ASSUME QueuesAre, batch = <<>>, PopAlerts
    PROVE  /\ alerts' = <<>> /\ alerts' \in Seq(AlertMsgs) /\ Len(alerts') <= AlertLimit
           /\ dropped' \in SUBSET AlertTypes /\ batch' \in Seq(AlertMsgs)
           /\ \/ Waiting' = Waiting /\ Items(batch') = Items(alerts)
              \/ \E a \in AlertMsgs : /\ a.type = "dropped" /\ Waiting' = Append(Waiting, a)
                                      /\ Items(batch') = Items(alerts) \cup {a}
<1>1. /\ AlertLimit \in Nat /\ alerts \in Seq(AlertMsgs) /\ batch \in Seq(AlertMsgs)
      /\ Popped = IF dropped = {} THEN alerts ELSE Append(alerts, [type |-> "dropped", types |-> dropped])
  BY IdsAre DEF QueuesAre, Popped
<1>2. alerts' = <<>> /\ batch' = Popped /\ dropped' = {}
  BY DEF PopAlerts
<1>3. <<>> \in Seq(AlertMsgs) /\ Len(<<>>) = 0 /\ 0 <= AlertLimit
  BY <1>1
<1> DEFINE d == [type |-> "dropped", types |-> dropped]
<1>4. d \in AlertMsgs /\ d.type = "dropped"
  BY SetAlerts DEF QueuesAre
<1> HIDE DEF d
<1>5. Append(alerts, d) \in Seq(AlertMsgs) /\ Items(Append(alerts, d)) = Items(alerts) \cup {d}
  BY <1>1, <1>4, AppendItems
<1>6. Waiting = alerts
  BY <1>1, ConcatEmptySeq DEF Waiting
<1>7. Waiting' = Popped
  <2>1. Popped \in Seq(AlertMsgs)
    BY <1>1, <1>5 DEF d
  <2>2. Popped \o <<>> = Popped
    BY <2>1, ConcatEmptySeq
  <2> QED BY <1>2, <2>2 DEF Waiting
<1>8. CASE dropped = {}
  BY <1>1, <1>2, <1>3, <1>6, <1>7, <1>8
<1>9. CASE dropped # {}
  <2>1. Popped = Append(alerts, d)
    BY <1>1, <1>9 DEF d
  <2> QED BY <1>2, <1>3, <1>4, <1>5, <1>6, <1>7, <2>1
<1> QED BY <1>8, <1>9

-----------------------------------------------------------------------------
(* The shape of the state                                                    *)

LtIs(l) == l \in [Torrents -> Maybe(LtTorrents)]

MapIs(m) ==
    /\ m \in [Keys -> Maybe(Entries)]
    /\ \A k \in Keys : m[k] # None /\ m[k].state = "Current" => m[k].handle

DirtyIs(d) == d \in [Keys -> {"no", "plain", "force"}]

TableIs(table) == table \in [Torrents -> Maybe(TableRows)]

PlaceIs(p, a) ==
    /\ p \in {"idle", "alerts", "load", "reconcile", "saveState", "stopStatus", "stopSave", "stopWait", "down"}
    /\ a \in {"idle", "chunk", "job", "loadEnd", "stop"}

\* A row that is still to be loaded has one add left.
CountIs(n, load) ==
    /\ n \in [Torrents -> 0..Top]
    /\ load # None => \A t \in load : n[t] <= MaxAdds /\ StoredForms # {}

EventsAre(e) == e \in [EventNames \X Torrents \X Ids -> Nat]

SavesAre(s) == s \subseteq [t : Torrents, id : Ids, unsaved : BOOLEAN] /\ IsFiniteSet(s)

TypeInv ==
    /\ QueuesAre
    /\ LtIs(lt) /\ MapIs(m_torrents) /\ DirtyIs(m_dirty) /\ TableIs(rows) /\ TableIs(work)
    /\ toLoad = None \/ toLoad \subseteq Torrents
    /\ PlaceIs(pc, after) /\ CountIs(adds, toLoad) /\ EventsAre(events)
    /\ changes \in 0..MaxChanges /\ handles \subseteq Torrents \X Ids /\ SavesAre(toSave)
    /\ pc \notin {"alerts", "stopWait"} => batch = <<>>
    /\ pc = "load" \/ (pc = "alerts" /\ after = "chunk") => toLoad # None

\* The shape kept here implies the type invariant.
LEMMA TypeOKHolds == TypeInv => TypeOK
  BY DEF TypeInv, TypeOK, QueuesAre, LtIs, MapIs, DirtyIs, TableIs, PlaceIs, Current, Tracked

-----------------------------------------------------------------------------
\* There are two forms, and None is neither.
LEMMA FormsAre == Forms = {"half", "full"} /\ None \notin Forms /\ "half" # "full"
  BY NoneAssumption DEF Forms

\* A key is a torrent and a form.
LEMMA KeyParts ==
    /\ \A t \in Torrents, f \in Forms : <<t, f>> \in Keys
    /\ \A k \in Keys : k = <<k[1], k[2]>> /\ k[1] \in Torrents /\ k[2] \in Forms
  BY DEF Keys

\* The fields of a torrent of libtorrent.
LEMMA LtFields ==
    ASSUME NEW l, LtIs(l), NEW t \in Torrents, l[t] # None
    PROVE  /\ l[t] \in LtTorrents /\ l[t].id \in Ids /\ l[t].form \in Forms /\ l[t].meta \in BOOLEAN
           /\ l[t].cfg \in Maybe(0..MaxChanges) /\ l[t].pos \in 0..MaxChanges /\ l[t].unsaved \in BOOLEAN
<1>1. l[t] \in LtTorrents
  BY DEF LtIs, Maybe
<1> QED BY <1>1 DEF LtTorrents

\* One torrent of libtorrent is replaced.
LEMMA LtSet ==
    ASSUME NEW l, LtIs(l), NEW t \in Torrents, NEW r \in Maybe(LtTorrents)
    PROVE  /\ LtIs([l EXCEPT ![t] = r])
           /\ [l EXCEPT ![t] = r][t] = r
           /\ \A u \in Torrents \ {t} : [l EXCEPT ![t] = r][u] = l[u]
  BY DEF LtIs

\* The fields of an entry.
LEMMA EntryFields ==
    ASSUME NEW m, MapIs(m), NEW k \in Keys, m[k] # None
    PROVE  /\ m[k] \in Entries /\ m[k].id \in Ids /\ m[k].state \in {"Adding", "Loading", "Current"}
           /\ m[k].handle \in BOOLEAN /\ m[k].announced \in BOOLEAN /\ m[k].saved \in BOOLEAN
           /\ m[k].state = "Current" => m[k].handle
<1>1. m[k] \in Entries
  BY DEF MapIs, Maybe
<1> QED BY <1>1 DEF Entries, MapIs

\* One entry is replaced.
LEMMA MapSet ==
    ASSUME NEW m, MapIs(m), NEW k \in Keys, NEW e \in Maybe(Entries),
           e # None /\ e.state = "Current" => e.handle
    PROVE  /\ MapIs([m EXCEPT ![k] = e])
           /\ [m EXCEPT ![k] = e][k] = e
           /\ \A q \in Keys \ {k} : [m EXCEPT ![k] = e][q] = m[q]
  BY DEF MapIs

\* An entry that is marked stays the entry it is.
Announce(m, k) == [m EXCEPT ![k].announced = TRUE]
MarkSaved(m, k, b) == [m EXCEPT ![k].saved = b]

\* MetadataReceived marks the entry as announced and changes nothing else.
LEMMA AnnounceIs ==
    ASSUME NEW m, MapIs(m), NEW k \in Keys, m[k] # None
    PROVE  /\ MapIs(Announce(m, k)) /\ \A q \in Keys \ {k} : Announce(m, k)[q] = m[q]
           /\ Announce(m, k)[k] # None /\ Announce(m, k)[k].id = m[k].id /\ Announce(m, k)[k].state = m[k].state
           /\ Announce(m, k)[k].handle = m[k].handle /\ Announce(m, k)[k].announced = TRUE
<1> DEFINE r == m[k]
           e == [r EXCEPT !.announced = TRUE]
           x == Announce(m, k)
<1>1. r \in Entries /\ (r.state = "Current" => r.handle)
  BY EntryFields
<1> HIDE DEF r
<1>2. e \in Entries
  BY <1>1 DEF Entries
<1>3. e.id = r.id /\ e.state = r.state /\ e.handle = r.handle /\ e.announced = TRUE
  BY <1>1 DEF Entries
<1>4. x = [m EXCEPT ![k] = e]
  BY DEF r, MapIs, Announce
<1> HIDE DEF e, x
<1>5. e # None /\ e \in Maybe(Entries)
  BY <1>2, NoneAssumption DEF Maybe
<1>6. /\ MapIs([m EXCEPT ![k] = e]) /\ [m EXCEPT ![k] = e][k] = e
      /\ \A q \in Keys \ {k} : [m EXCEPT ![k] = e][q] = m[q]
  BY ONLY MapIs(m), k \in Keys, <1>1, <1>3, <1>5, MapSet
<1>7. /\ MapIs(x) /\ \A q \in Keys \ {k} : x[q] = m[q]
      /\ x[k] # None /\ x[k].id = m[k].id /\ x[k].state = m[k].state /\ x[k].handle = m[k].handle
      /\ x[k].announced = TRUE
  BY <1>3, <1>4, <1>5, <1>6 DEF r
<1> QED BY <1>7 DEF x

\* Stored metadata is noted in the entry and nothing else changes.
LEMMA MarkSavedIs ==
    ASSUME NEW m, MapIs(m), NEW k \in Keys, m[k] # None, NEW b \in BOOLEAN
    PROVE  /\ MapIs(MarkSaved(m, k, b)) /\ \A q \in Keys \ {k} : MarkSaved(m, k, b)[q] = m[q]
           /\ MarkSaved(m, k, b)[k] # None /\ MarkSaved(m, k, b)[k].id = m[k].id /\ MarkSaved(m, k, b)[k].state = m[k].state
           /\ MarkSaved(m, k, b)[k].handle = m[k].handle /\ MarkSaved(m, k, b)[k].announced = m[k].announced
<1> DEFINE r == m[k]
           e == [r EXCEPT !.saved = b]
           x == MarkSaved(m, k, b)
<1>1. r \in Entries /\ (r.state = "Current" => r.handle)
  BY EntryFields
<1> HIDE DEF r
<1>2. e \in Entries
  BY <1>1 DEF Entries
<1>3. e.id = r.id /\ e.state = r.state /\ e.handle = r.handle /\ e.announced = r.announced
  BY <1>1 DEF Entries
<1>4. x = [m EXCEPT ![k] = e]
  BY DEF r, MapIs, MarkSaved
<1> HIDE DEF e, x
<1>5. e # None /\ e \in Maybe(Entries)
  BY <1>2, NoneAssumption DEF Maybe
<1>6. /\ MapIs([m EXCEPT ![k] = e]) /\ [m EXCEPT ![k] = e][k] = e
      /\ \A q \in Keys \ {k} : [m EXCEPT ![k] = e][q] = m[q]
  BY ONLY MapIs(m), k \in Keys, <1>1, <1>3, <1>5, MapSet
<1>7. /\ MapIs(x) /\ \A q \in Keys \ {k} : x[q] = m[q]
      /\ x[k] # None /\ x[k].id = m[k].id /\ x[k].state = m[k].state /\ x[k].handle = m[k].handle
      /\ x[k].announced = m[k].announced
  BY <1>3, <1>4, <1>5, <1>6 DEF r
<1> QED BY <1>7 DEF x

\* An entry that is promoted, or taken for one that is being added.
Promote(m, k, s) == [m EXCEPT ![k].state = s, ![k].handle = TRUE]

\* A promotion changes the state of the entry and gives it its handle.
LEMMA MapPromoted ==
    ASSUME NEW m, MapIs(m), NEW k \in Keys, m[k] # None, NEW s \in {"Adding", "Current"}
    PROVE  /\ MapIs(Promote(m, k, s)) /\ \A q \in Keys \ {k} : Promote(m, k, s)[q] = m[q]
           /\ Promote(m, k, s)[k] # None /\ Promote(m, k, s)[k].id = m[k].id /\ Promote(m, k, s)[k].state = s
           /\ Promote(m, k, s)[k].handle = TRUE /\ Promote(m, k, s)[k].announced = m[k].announced
<1> DEFINE r == m[k]
           e == [r EXCEPT !.state = s, !.handle = TRUE]
<1>1. r \in Entries
  BY EntryFields
<1> HIDE DEF r
<1>2. e \in Entries /\ e.state = s /\ e.handle = TRUE /\ e.id = r.id /\ e.announced = r.announced
  BY <1>1 DEF Entries
<1>3. Promote(m, k, s) = [m EXCEPT ![k] = e]
  BY DEF r, MapIs, Promote
<1> HIDE DEF e
<1>4. e # None /\ e \in Maybe(Entries)
  BY <1>2, NoneAssumption DEF Maybe
<1>5. /\ MapIs([m EXCEPT ![k] = e]) /\ [m EXCEPT ![k] = e][k] = e
      /\ \A q \in Keys \ {k} : [m EXCEPT ![k] = e][q] = m[q]
  BY ONLY MapIs(m), k \in Keys, <1>2, <1>4, MapSet
<1> QED BY <1>2, <1>3, <1>4, <1>5 DEF r

\* A promotion leaves the other entries alone.
LEMMA PromotedBeside ==
    ASSUME NEW m, MapIs(m), NEW k \in Keys, NEW s, NEW q \in Keys \ {k}
    PROVE  Promote(m, k, s)[q] = m[q]
  BY DEF Promote, MapIs

\* InfoHashMap::rekey moves an entry to a free key.
LEMMA RekeyIs ==
    ASSUME NEW m, MapIs(m), NEW p \in Keys, NEW c \in Keys
    PROVE  /\ MapIs(Rekey(m, p, c))
           /\ m[p] = None => Rekey(m, p, c) = m
           /\ m[p] # None => /\ Rekey(m, p, c)[c] = IF m[c] = None THEN m[p] ELSE m[c]
                             /\ p # c => Rekey(m, p, c)[p] = None
                             /\ \A q \in Keys \ {p, c} : Rekey(m, p, c)[q] = m[q]
<1> DEFINE e == IF m[c] = None THEN m[p] ELSE m[c]
           m1 == [m EXCEPT ![p] = None]
           m2 == [m1 EXCEPT ![c] = e]
<1>1. m[p] # None => Rekey(m, p, c) = m2
  BY DEF Rekey, MapIs
<1>2. m[p] = None => Rekey(m, p, c) = m
  BY DEF Rekey
<1>3. /\ MapIs(m1) /\ m1[p] = None /\ \A q \in Keys \ {p} : m1[q] = m[q]
  BY MapSet DEF Maybe
<1>4. e \in Maybe(Entries) /\ (e # None /\ e.state = "Current" => e.handle)
  BY DEF MapIs
<1> HIDE DEF e, m1
<1>5. MapIs(m2) /\ m2[c] = e /\ \A q \in Keys \ {c} : m2[q] = m1[q]
  BY <1>3, <1>4, MapSet
<1> QED BY <1>1, <1>2, <1>3, <1>5 DEF e

\* UpdateInfoHashes keeps the dirty marks what they are.
LEMMA MovedDirtyIs ==
    ASSUME NEW d, DirtyIs(d), NEW m, NEW p \in Keys, NEW c \in Keys
    PROVE  DirtyIs(MoveDirty(d, m, p, c))
  BY DEF DirtyIs, MoveDirty

\* The fields of a row.
LEMMA RowFields ==
    ASSUME NEW table, TableIs(table), NEW t \in Torrents, table[t] # None
    PROVE  /\ table[t] \in TableRows /\ table[t].form \in Forms /\ table[t].key \in Forms
           /\ table[t].cfg \in Maybe(0..MaxChanges) /\ table[t].pos \in 0..MaxChanges
           /\ table[t].info \in Maybe(Forms)
<1>1. table[t] \in TableRows
  BY DEF TableIs, Maybe
<1> QED BY <1>1 DEF TableRows

\* One row is replaced.
LEMMA TableSet ==
    ASSUME NEW table, TableIs(table), NEW t \in Torrents, NEW r \in Maybe(TableRows)
    PROVE  /\ TableIs([table EXCEPT ![t] = r]) /\ [table EXCEPT ![t] = r][t] = r
           /\ \A u \in Torrents \ {t} : [table EXCEPT ![t] = r][u] = table[u]
  BY DEF TableIs

\* What the three statements do to the table.
LEMMA InsertIs ==
    ASSUME NEW table, TableIs(table), NEW t \in Torrents, NEW form \in Forms, NEW cfg \in Maybe(0..MaxChanges),
           NEW pos \in 0..MaxChanges, NEW info \in Maybe(Forms)
    PROVE  /\ TableIs(InsertRow(table, t, form, cfg, pos, info))
           /\ \A u \in Torrents \ {t} : InsertRow(table, t, form, cfg, pos, info)[u] = table[u]
           /\ InsertRow(table, t, form, cfg, pos, info)[t] # None
           /\ InsertRow(table, t, form, cfg, pos, info)[t].form = IF table[t] = None THEN form ELSE table[t].form
<1>1. CASE table[t] = None
  <2> DEFINE r == [form |-> form, key |-> form, cfg |-> cfg, pos |-> pos, info |-> info]
  <2>1. r \in TableRows /\ r.form = form
    BY DEF TableRows
  <2>2. InsertRow(table, t, form, cfg, pos, info) = [table EXCEPT ![t] = r]
    BY <1>1 DEF InsertRow
  <2> HIDE DEF r
  <2>3. r # None /\ r \in Maybe(TableRows)
    BY <2>1, NoneAssumption DEF Maybe
  <2>4. /\ TableIs([table EXCEPT ![t] = r]) /\ [table EXCEPT ![t] = r][t] = r
        /\ \A u \in Torrents \ {t} : [table EXCEPT ![t] = r][u] = table[u]
    BY ONLY TableIs(table), t \in Torrents, <2>3, TableSet
  <2> QED BY <1>1, <2>1, <2>2, <2>3, <2>4
<1>2. CASE table[t] # None
  <2> DEFINE r == table[t]
             i == IF info # None /\ Matches(r, form) THEN info ELSE r.info
             e == [r EXCEPT !.info = i]
  <2>1. r \in TableRows /\ i \in Maybe(Forms)
    BY <1>2, RowFields
  <2>2. InsertRow(table, t, form, cfg, pos, info) = [table EXCEPT ![t] = e]
    BY <1>2 DEF InsertRow, TableIs
  <2> HIDE DEF r, i
  <2>3. e \in TableRows /\ e.form = r.form
    BY <2>1 DEF TableRows
  <2> HIDE DEF e
  <2>4. e # None /\ e \in Maybe(TableRows)
    BY <2>3, NoneAssumption DEF Maybe
  <2>5. /\ TableIs([table EXCEPT ![t] = e]) /\ [table EXCEPT ![t] = e][t] = e
        /\ \A u \in Torrents \ {t} : [table EXCEPT ![t] = e][u] = table[u]
    BY ONLY TableIs(table), t \in Torrents, <2>4, TableSet
  <2> QED BY <1>2, <2>2, <2>3, <2>4, <2>5 DEF r
<1> QED BY <1>1, <1>2

\* AddTorrentParams::Update keeps the row and its hash columns.
LEMMA UpdateIs ==
    ASSUME NEW table, TableIs(table), NEW t \in Torrents, NEW form \in Forms, NEW key \in Forms,
           NEW cfg \in Maybe(0..MaxChanges), NEW pos \in 0..MaxChanges, NEW info \in Maybe(Forms)
    PROVE  /\ TableIs(UpdateRow(table, t, form, key, cfg, pos, info))
           /\ \A u \in Torrents \ {t} : UpdateRow(table, t, form, key, cfg, pos, info)[u] = table[u]
           /\ UpdateRow(table, t, form, key, cfg, pos, info)[t] = None <=> table[t] = None
           /\ table[t] # None => UpdateRow(table, t, form, key, cfg, pos, info)[t].form = table[t].form
           /\ Matches(table[t], form) =>
                 /\ UpdateRow(table, t, form, key, cfg, pos, info)[t].cfg = cfg
                 /\ UpdateRow(table, t, form, key, cfg, pos, info)[t].pos = pos
                 /\ UpdateRow(table, t, form, key, cfg, pos, info)[t].info = IF info = None THEN table[t].info ELSE info
           /\ ~Matches(table[t], form) => UpdateRow(table, t, form, key, cfg, pos, info) = table
<1>1. CASE ~Matches(table[t], form)
  BY <1>1 DEF UpdateRow
<1>2. CASE Matches(table[t], form)
  <2> DEFINE r == table[t]
             i == IF info = None THEN r.info ELSE info
             e == [r EXCEPT !.key = key, !.cfg = cfg, !.pos = pos, !.info = i]
  <2>1. r \in TableRows /\ i \in Maybe(Forms) /\ table[t] # None
    BY <1>2, RowFields DEF Matches
  <2>2. UpdateRow(table, t, form, key, cfg, pos, info) = [table EXCEPT ![t] = e]
    BY <1>2 DEF UpdateRow, TableIs
  <2> HIDE DEF r, i
  <2>3. e \in TableRows /\ e.form = r.form /\ e.cfg = cfg /\ e.pos = pos /\ e.info = i
    BY <2>1 DEF TableRows
  <2> HIDE DEF e
  <2>4. e # None /\ e \in Maybe(TableRows)
    BY <2>3, NoneAssumption DEF Maybe
  <2>5. /\ TableIs([table EXCEPT ![t] = e]) /\ [table EXCEPT ![t] = e][t] = e
        /\ \A u \in Torrents \ {t} : [table EXCEPT ![t] = e][u] = table[u]
    BY ONLY TableIs(table), t \in Torrents, <2>4, TableSet
  <2> QED BY <1>2, <2>1, <2>2, <2>3, <2>4, <2>5 DEF r, i
<1> QED BY <1>1, <1>2

\* A row that matches is deleted, the others stay.
LEMMA DeleteIs ==
    ASSUME NEW table, TableIs(table), NEW t \in Torrents, NEW form \in Forms
    PROVE  /\ TableIs(DeleteRow(table, t, form))
           /\ \A u \in Torrents \ {t} : DeleteRow(table, t, form)[u] = table[u]
           /\ DeleteRow(table, t, form)[t] = IF Matches(table[t], form) THEN None ELSE table[t]
  BY TableSet DEF DeleteRow, Maybe

\* An event is counted.
LEMMA PublishIs ==
    ASSUME EventsAre(events), NEW name \in EventNames, NEW t \in Torrents, NEW id \in Ids, Publish(name, t, id)
    PROVE  /\ EventsAre(events') /\ events'[<<name, t, id>>] = events[<<name, t, id>>] + 1
           /\ \A e \in EventNames \X Torrents \X Ids : e # <<name, t, id>> => events'[e] = events[e]
<1> DEFINE x == <<name, t, id>>
<1>1. x \in EventNames \X Torrents \X Ids
  OBVIOUS
<1>2. events' = [events EXCEPT ![x] = @ + 1]
  BY DEF Publish
<1> HIDE DEF x
<1>3. /\ EventsAre(events') /\ events'[x] = events[x] + 1
      /\ \A e \in EventNames \X Torrents \X Ids : e # x => events'[e] = events[e]
  BY <1>1, <1>2 DEF EventsAre
<1> QED BY <1>3 DEF x

-----------------------------------------------------------------------------
(* What a step does to the queues                                            *)

\* The calls that add t, and the alerts that tell of the beginning or the end of t.
AddCalls(t) == {c \in CallMsgs : c.op = "add" /\ c.t = t}
LifeAlerts(t) == {a \in AlertMsgs : a.type \in {"add", "addFailed", "removed"} /\ a.t = t}

\* The step posts no other calls than those of N.
NewCalls(N) ==
    /\ calls' \in Seq(CallMsgs) /\ Items(calls') \subseteq Items(calls) \cup N
    /\ \A t \in Torrents : N \cap AddCalls(t) = {} /\ Once(calls, AddCalls(t)) => Once(calls', AddCalls(t))

\* The step posts no other alerts than those of N.
NewAlerts(N) ==
    /\ alerts' \in Seq(AlertMsgs) /\ batch' \in Seq(AlertMsgs)
    /\ Len(alerts') <= AlertLimit /\ dropped' \in SUBSET AlertTypes
    /\ Items(Waiting') \subseteq Items(Waiting) \cup N
    /\ Items(alerts') \subseteq Items(alerts) \cup N
    /\ \A t \in Torrents : N \cap LifeAlerts(t) = {} /\ Once(Waiting, LifeAlerts(t)) => Once(Waiting', LifeAlerts(t))
    /\ \/ Waiting' = Waiting
       \/ Waiting # <<>> /\ Waiting' = Tail(Waiting)
       \/ \E a \in N : Waiting' = Append(Waiting, a)
       \/ \E a \in N : Waiting # <<>> /\ Waiting' = <<a>> \o Tail(Waiting)

\* No call is posted when the calls stay the same.
LEMMA CallsKept ==
    ASSUME QueuesAre, calls' = calls
    PROVE  NewCalls({})
  BY DEF QueuesAre, NewCalls

\* None when the network thread takes one.
LEMMA CallTaken ==
    ASSUME QueuesAre, calls # <<>>, calls' = Tail(calls)
    PROVE  /\ NewCalls({}) /\ Call \in CallMsgs /\ Call \in Items(calls)
           /\ \A t \in Torrents : Once(calls, AddCalls(t)) /\ Call \in AddCalls(t) => Items(calls') \cap AddCalls(t) = {}
<1>1. calls \in Seq(CallMsgs)
  BY DEF QueuesAre
<1>2. /\ Head(calls) \in CallMsgs /\ Tail(calls) \in Seq(CallMsgs)
      /\ Items(calls) = {Head(calls)} \cup Items(Tail(calls))
  BY <1>1, TailItems
<1>3. ASSUME NEW t \in Torrents, Once(calls, AddCalls(t))
      PROVE  Once(Tail(calls), AddCalls(t)) /\ (Head(calls) \in AddCalls(t) => Items(Tail(calls)) \cap AddCalls(t) = {})
  BY <1>1, <1>3, OnceTail
<1> QED BY <1>2, <1>3 DEF NewCalls, Call

\* One is posted at the end.
LEMMA CallPosted ==
    ASSUME QueuesAre, NEW c \in CallMsgs, calls' = Append(calls, c)
    PROVE  NewCalls({c}) /\ Items(calls') = Items(calls) \cup {c}
<1>1. calls \in Seq(CallMsgs)
  BY DEF QueuesAre
<1>2. Append(calls, c) \in Seq(CallMsgs) /\ Items(Append(calls, c)) = Items(calls) \cup {c}
  BY <1>1, AppendItems
<1>3. ASSUME NEW t \in Torrents, {c} \cap AddCalls(t) = {}, Once(calls, AddCalls(t))
      PROVE  Once(Append(calls, c), AddCalls(t))
  <2>1. c \notin AddCalls(t)
    BY <1>3
  <2> QED BY <1>1, <1>3, <2>1, OnceAppend
<1> QED BY <1>2, <1>3 DEF NewCalls

\* A finite set of calls is posted.
LEMMA CallsListed ==
    ASSUME QueuesAre, NEW S \in SUBSET CallMsgs, IsFiniteSet(S), calls' = calls \o Listed(S)
    PROVE  NewCalls(S)
<1>1. calls \in Seq(CallMsgs)
  BY DEF QueuesAre
<1>2. Listed(S) \in Seq(CallMsgs) /\ Items(Listed(S)) = S
  <2>1. Listed(S) \in Seq(S) /\ Items(Listed(S)) = S
    BY ListedItems
  <2>2. Listed(S) \in Seq(CallMsgs)
    BY <2>1, SeqMonotonic
  <2> QED BY <2>1, <2>2
<1> DEFINE r == Listed(S)
<1> HIDE DEF r
<1>3. r \in Seq(CallMsgs) /\ Items(r) = S /\ calls' = calls \o r
  BY <1>2 DEF r
<1>4. calls \o r \in Seq(CallMsgs) /\ Items(calls \o r) = Items(calls) \cup S
  BY <1>1, <1>3, ConcatItems
<1>5. ASSUME NEW t \in Torrents, S \cap AddCalls(t) = {}, Once(calls, AddCalls(t))
      PROVE  Once(calls \o r, AddCalls(t))
  BY <1>1, <1>3, <1>5, OnceConcat
<1> QED BY <1>3, <1>4, <1>5 DEF NewCalls

\* No alert is posted when the queues stay the same.
LEMMA AlertsKept ==
    ASSUME QueuesAre, UNCHANGED <<alerts, batch, dropped>>
    PROVE  NewAlerts({})
  BY DEF QueuesAre, NewAlerts, Waiting

\* None when a handler takes the next one.
LEMMA AlertTaken ==
    ASSUME QueuesAre, batch # <<>>, batch' = Tail(batch), alerts' = alerts, dropped' = dropped
    PROVE  /\ NewAlerts({}) /\ Alert \in AlertMsgs /\ Alert \in Items(Waiting) /\ Alert \in Items(batch)
           /\ Waiting # <<>> /\ Waiting' = Tail(Waiting) /\ Alert = Head(Waiting)
           /\ Items(batch') \subseteq Items(batch)
           /\ \A t \in Torrents : Once(Waiting, LifeAlerts(t)) /\ Alert \in LifeAlerts(t) =>
                 Items(Waiting') \cap LifeAlerts(t) = {}
<1>1. Waiting \in Seq(AlertMsgs) /\ Items(Waiting) = Items(batch) \cup Items(alerts)
  BY WaitingIs
<1>2. /\ Waiting # <<>> /\ Waiting' = Tail(Waiting) /\ Head(Waiting) = Alert
      /\ Alert \in AlertMsgs /\ batch' \in Seq(AlertMsgs)
  BY WaitingTaken
<1> DEFINE w == Waiting
<1> HIDE DEF w
<1>3. w \in Seq(AlertMsgs) /\ w # <<>>
  BY <1>1, <1>2 DEF w
<1>4. Items(w) = {Head(w)} \cup Items(Tail(w))
  BY <1>3, TailItems
<1>5. ASSUME NEW t \in Torrents, Once(w, LifeAlerts(t))
      PROVE  Once(Tail(w), LifeAlerts(t)) /\ (Head(w) \in LifeAlerts(t) => Items(Tail(w)) \cap LifeAlerts(t) = {})
  BY <1>3, <1>5, OnceTail
<1>6. batch \in Seq(AlertMsgs) /\ alerts \in Seq(AlertMsgs) /\ Len(alerts) <= AlertLimit /\ dropped \in SUBSET AlertTypes
  BY DEF QueuesAre
<1>7. Alert \in Items(batch) /\ Items(batch') \subseteq Items(batch)
  BY <1>6, TailItems DEF Alert
<1>8. NewAlerts({})
  BY <1>2, <1>4, <1>5, <1>6 DEF NewAlerts, w
<1> QED BY <1>2, <1>4, <1>5, <1>7, <1>8 DEF w

\* One is posted, or dropped because the queue is full.
LEMMA AlertPosted ==
    ASSUME QueuesAre, NEW a \in AlertMsgs, a.type \in AlertTypes, PostAlert(a), batch' = batch
    PROVE  /\ NewAlerts({a})
           /\ \A t \in Torrents : Items(Waiting) \cap LifeAlerts(t) = {} => Once(Waiting', LifeAlerts(t))
<1>1. Waiting \in Seq(AlertMsgs) /\ Items(Waiting) = Items(batch) \cup Items(alerts)
  BY WaitingIs
<1>2. /\ alerts' \in Seq(AlertMsgs) /\ Len(alerts') <= AlertLimit /\ dropped' \in SUBSET AlertTypes
      /\ alerts' = alerts \/ alerts' = Append(alerts, a)
      /\ Waiting' = Waiting \/ Waiting' = Append(Waiting, a)
  BY WaitingPosted
<1>3. batch \in Seq(AlertMsgs) /\ alerts \in Seq(AlertMsgs)
  BY DEF QueuesAre
<1>4. Items(alerts') \subseteq Items(alerts) \cup {a}
  BY <1>2, <1>3, AppendItems
<1> DEFINE w == Waiting
<1> HIDE DEF w
<1>5. w \in Seq(AlertMsgs)
  BY <1>1 DEF w
<1>6. Items(Append(w, a)) = Items(w) \cup {a}
  BY <1>5, AppendItems
<1>7. ASSUME NEW t \in Torrents, Once(w, LifeAlerts(t)), a \notin LifeAlerts(t) \/ Items(w) \cap LifeAlerts(t) = {}
      PROVE  Once(Append(w, a), LifeAlerts(t))
  BY <1>5, <1>7, OnceAppend
<1>8. Items(Waiting') \subseteq Items(Waiting) \cup {a}
  BY <1>2, <1>6 DEF w
<1>9. NewAlerts({a})
  BY <1>2, <1>3, <1>4, <1>8, <1>7 DEF NewAlerts, w
<1>10. ASSUME NEW t \in Torrents, Items(Waiting) \cap LifeAlerts(t) = {} PROVE Once(Waiting', LifeAlerts(t))
  <2>1. Once(w, LifeAlerts(t))
    BY <1>10, OnceNone DEF w
  <2> QED BY <1>2, <1>7, <1>10, <2>1 DEF w
<1> QED BY <1>9, <1>10

\* The alerts that say what was dropped.
DropAlerts == {a \in AlertMsgs : a.type = "dropped"}

\* A pop moves the queue into the empty batch, with a note of what was dropped.
LEMMA AlertsPopped ==
    ASSUME QueuesAre, batch = <<>>, PopAlerts
    PROVE  NewAlerts(DropAlerts) /\ alerts' = <<>> /\ Items(batch') \subseteq Items(alerts) \cup DropAlerts
<1>1. Waiting \in Seq(AlertMsgs) /\ Items(Waiting) = Items(batch) \cup Items(alerts)
  BY WaitingIs
<1>2. /\ alerts' = <<>> /\ alerts' \in Seq(AlertMsgs) /\ Len(alerts') <= AlertLimit
      /\ dropped' \in SUBSET AlertTypes /\ batch' \in Seq(AlertMsgs)
      /\ \/ Waiting' = Waiting /\ Items(batch') = Items(alerts)
         \/ \E a \in AlertMsgs : /\ a.type = "dropped" /\ Waiting' = Append(Waiting, a)
                                 /\ Items(batch') = Items(alerts) \cup {a}
  BY WaitingPopped
<1>3. Items(alerts') = {}
  BY <1>2, NoItems
<1>4. CASE Waiting' = Waiting /\ Items(batch') = Items(alerts)
  BY <1>2, <1>3, <1>4 DEF NewAlerts
<1>5. ASSUME NEW a \in AlertMsgs, a.type = "dropped", Waiting' = Append(Waiting, a), Items(batch') = Items(alerts) \cup {a}
      PROVE  NewAlerts(DropAlerts) /\ Items(batch') \subseteq Items(alerts) \cup DropAlerts
  <2> DEFINE w == Waiting
  <2> HIDE DEF w
  <2>1. a \in DropAlerts /\ w \in Seq(AlertMsgs) /\ Waiting' = Append(w, a)
    BY <1>1, <1>5 DEF w, DropAlerts
  <2>2. \A t \in Torrents : a \notin LifeAlerts(t)
    BY <1>5 DEF LifeAlerts
  <2>3. Items(Append(w, a)) = Items(w) \cup {a}
    BY <2>1, AppendItems
  <2>4. ASSUME NEW t \in Torrents, Once(w, LifeAlerts(t)) PROVE Once(Append(w, a), LifeAlerts(t))
    BY <2>1, <2>2, <2>4, OnceAppend
  <2> QED BY <1>2, <1>3, <1>5, <2>1, <2>3, <2>4 DEF NewAlerts, w
<1> QED BY <1>2, <1>4, <1>5

\* The rest of a state update, back at the front.
LEMMA AlertReplaced ==
    ASSUME QueuesAre, batch # <<>>, NEW x \in AlertMsgs, x.type = "update", batch' = <<x>> \o Tail(batch),
           alerts' = alerts, dropped' = dropped
    PROVE  /\ NewAlerts({x}) /\ Waiting # <<>> /\ Waiting' = <<x>> \o Tail(Waiting)
           /\ Alert \in AlertMsgs /\ Alert \in Items(Waiting) /\ Alert \in Items(batch) /\ Alert = Head(Waiting)
           /\ Items(batch') \subseteq Items(batch) \cup {x}
<1>0. batch \in Seq(AlertMsgs) /\ alerts \in Seq(AlertMsgs) /\ Len(alerts) <= AlertLimit /\ dropped \in SUBSET AlertTypes
  BY DEF QueuesAre
<1>1. Waiting \in Seq(AlertMsgs) /\ Items(Waiting) = Items(batch) \cup Items(alerts)
  BY WaitingIs
<1>2. Tail(batch) \in Seq(AlertMsgs) /\ Items(batch) = {Head(batch)} \cup Items(Tail(batch)) /\ Head(batch) \in AlertMsgs
  BY <1>0, TailItems
<1>3. /\ batch \o alerts # <<>> /\ Tail(batch \o alerts) = Tail(batch) \o alerts
      /\ Head(batch \o alerts) = Head(batch)
  BY <1>0, TailOfConcat
<1> DEFINE w == Waiting
           r == Tail(w)
<1>4. w # <<>> /\ r = Tail(batch) \o alerts /\ Head(w) = Alert /\ w \in Seq(AlertMsgs)
  BY <1>1, <1>3 DEF Waiting, Alert
<1>5. Waiting' = (<<x>> \o Tail(batch)) \o alerts
  BY DEF Waiting
<1>6. (<<x>> \o Tail(batch)) \o alerts = <<x>> \o (Tail(batch) \o alerts)
  <2> DEFINE s == <<x>>
             u == Tail(batch)
             v == alerts
  <2>1. s \in Seq(AlertMsgs) /\ u \in Seq(AlertMsgs) /\ v \in Seq(AlertMsgs)
    BY <1>0, <1>2
  <2> HIDE DEF s, u, v
  <2>2. (s \o u) \o v = s \o (u \o v)
    BY <2>1, ConcatAssociative
  <2> QED BY <2>2 DEF s, u, v
<1> HIDE DEF w
<1>7. Waiting' = <<x>> \o r
  BY <1>4, <1>5, <1>6
<1>8. r \in Seq(AlertMsgs) /\ Items(w) = {Head(w)} \cup Items(r)
  BY <1>4, TailItems
<1>9. ASSUME NEW t \in Torrents, Once(w, LifeAlerts(t)) PROVE Once(r, LifeAlerts(t))
  BY <1>4, <1>9, OnceTail
<1> HIDE DEF r
<1>10. Items(<<x>> \o r) = {x} \cup Items(r)
  BY <1>8, ConsItems
<1>11. <<x>> \o Tail(batch) \in Seq(AlertMsgs) /\ Items(<<x>> \o Tail(batch)) = {x} \cup Items(Tail(batch))
  BY <1>2, ConsItems
<1>12. ASSUME NEW t \in Torrents, Once(w, LifeAlerts(t)) PROVE Once(<<x>> \o r, LifeAlerts(t))
  <2>1. x \notin LifeAlerts(t)
    BY DEF LifeAlerts
  <2> QED BY <1>8, <1>9, <1>12, <2>1, OnceCons
<1>13. /\ Items(Waiting') \subseteq Items(Waiting) \cup {x}
       /\ \A t \in Torrents : Once(Waiting, LifeAlerts(t)) => Once(Waiting', LifeAlerts(t))
       /\ Waiting # <<>> /\ Waiting' = <<x>> \o Tail(Waiting)
  BY <1>4, <1>7, <1>8, <1>10, <1>12 DEF w, r
<1>14. NewAlerts({x})
  BY <1>0, <1>11, <1>13 DEF NewAlerts
<1>15. Alert \in AlertMsgs /\ Alert \in Items(batch) /\ Alert = Head(Waiting)
  BY <1>2, <1>4 DEF Alert, w
<1> QED BY <1>1, <1>2, <1>11, <1>13, <1>14, <1>15

-----------------------------------------------------------------------------
(* What a step leaves as it was, for one torrent                             *)

SameEntry(e, d) ==
    /\ d = None <=> e = None
    /\ e # None => d.id = e.id /\ d.state = e.state /\ d.handle = e.handle

\* It stays in libtorrent, or out of it; its hash may grow.
LtSame(t) ==
    /\ lt'[t] = None <=> lt[t] = None
    /\ lt[t] # None => lt'[t].id = lt[t].id /\ lt'[t].form \in {lt[t].form, "full"}

MapSame(t) == \A f \in Forms : SameEntry(m_torrents[<<t, f>>], m_torrents'[<<t, f>>])

AskSame(t) ==
    /\ adds'[t] = adds[t]
    /\ \A id : /\ <<t, id>> \in removing' <=> <<t, id>> \in removing
               /\ <<t, id>> \in loadedIds' <=> <<t, id>> \in loadedIds

QueuesSame(t) ==
    /\ Items(calls') \cap AddCalls(t) \subseteq Items(calls)
    /\ Once(calls, AddCalls(t)) => Once(calls', AddCalls(t))
    /\ Items(Waiting') \cap LifeAlerts(t) \subseteq Items(Waiting)
    /\ Once(Waiting, LifeAlerts(t)) => Once(Waiting', LifeAlerts(t))

RowSame(t) ==
    /\ work'[t] = None <=> work[t] = None
    /\ work[t] # None => work'[t].form = work[t].form

EventsSame(t) ==
    \A id \in Ids : /\ events'[<<"added", t, id>>] = events[<<"added", t, id>>]
                    /\ events'[<<"removed", t, id>>] = events[<<"removed", t, id>>]

Same(t) == LtSame(t) /\ MapSame(t) /\ AskSame(t) /\ QueuesSame(t) /\ RowSame(t) /\ EventsSame(t)

Commits == rows' = rows \/ rows' = work'

SaveCalls == {c \in CallMsgs : c.op = "save"}
PlainCalls == {c \in CallMsgs : c.op # "add"}
PlainAlerts == {a \in AlertMsgs : a.type \notin {"add", "addFailed", "removed"}}

\* Messages about other things leave the queues of t as they are.
LEMMA QueuesBeside ==
    ASSUME NEW t \in Torrents, NEW N, NEW M, NewCalls(N), NewAlerts(M),
           N \cap AddCalls(t) = {}, M \cap LifeAlerts(t) = {}
    PROVE  QueuesSame(t)
  BY DEF QueuesSame, NewCalls, NewAlerts

\* Saves, requests and news of other kinds say nothing of a beginning or an end.
LEMMA PlainQueues ==
    ASSUME NEW N \in SUBSET PlainCalls, NEW M \in SUBSET PlainAlerts, NewCalls(N), NewAlerts(M)
    PROVE  \A t \in Torrents : QueuesSame(t)
<1> SUFFICES ASSUME NEW t \in Torrents PROVE QueuesSame(t)
  OBVIOUS
<1>1. N \cap AddCalls(t) = {} /\ M \cap LifeAlerts(t) = {}
  BY DEF PlainCalls, PlainAlerts, AddCalls, LifeAlerts
<1> QED BY <1>1, QueuesBeside

\* libtorrent is left alone.
LEMMA LtBeside == UNCHANGED lt => \A t \in Torrents : LtSame(t)
<1> SUFFICES ASSUME UNCHANGED lt, NEW t \in Torrents PROVE LtSame(t)
  OBVIOUS
<1>1. lt'[t] = lt[t]
  OBVIOUS
<1> QED BY <1>1 DEF LtSame

\* The entries are left alone.
LEMMA MapBeside == UNCHANGED m_torrents => \A t \in Torrents : MapSame(t)
  BY DEF MapSame, SameEntry

\* Nothing is asked for.
LEMMA AskBeside == UNCHANGED <<adds, removing, loadedIds>> => \A t \in Torrents : AskSame(t)
  BY DEF AskSame

\* The rows are left alone.
LEMMA RowBeside == UNCHANGED work => \A t \in Torrents : RowSame(t)
  BY DEF RowSame

\* Nothing is published.
LEMMA EventsBeside == UNCHANGED events => \A t \in Torrents : EventsSame(t)
  BY DEF EventsSame

\* A step of the io thread's other state.
IoSame == UNCHANGED <<ioVars, sessVars, dbVars, adds, loadedIds, events, removing, changes>>

\* A step of the network thread leaves the session alone.
LEMMA IoBeside ==
    ASSUME TypeInv, IoSame, LtIs(lt'), calls' \in Seq(CallMsgs), NEW M, NewAlerts(M)
    PROVE  /\ TypeInv' /\ Commits
           /\ \A t \in Torrents : MapSame(t) /\ AskSame(t) /\ RowSame(t) /\ EventsSame(t)
<1>1. UNCHANGED <<pc, after, batch, handles, toSave, m_torrents, m_dirty, toLoad, rows, work, adds, loadedIds, events, removing, changes>>
  BY DEF IoSame, ioVars, sessVars, dbVars
<1>2. QueuesAre'
  BY DEF NewAlerts, QueuesAre
<1>3. TypeInv'
  BY <1>1, <1>2 DEF TypeInv
<1> QED BY <1>1, <1>3, MapBeside, AskBeside, RowBeside, EventsBeside DEF Commits

\* The network thread takes a call and leaves the session alone.
LEMMA TakesIs ==
    ASSUME TypeInv, NEW op, Takes(op)
    PROVE  /\ Call \in CallMsgs /\ Call.op = op /\ Call \in Items(calls) /\ NewCalls({}) /\ IoSame /\ batch' = batch
           /\ calls' \in Seq(CallMsgs) /\ calls # <<>> /\ calls' = Tail(calls)
           /\ \A t \in Torrents : Once(calls, AddCalls(t)) /\ Call \in AddCalls(t) => Items(calls') \cap AddCalls(t) = {}
<1>1. QueuesAre /\ calls # <<>> /\ calls' = Tail(calls) /\ Call.op = op /\ IoSame
  BY DEF TypeInv, Takes, IoSame
<1>2. batch' = batch
  BY <1>1 DEF IoSame, ioVars
<1> QED BY <1>1, <1>2, CallTaken DEF NewCalls

-----------------------------------------------------------------------------
(* The network thread                                                        *)

AddAlertOf(c) ==
    [type |-> "add", t |-> c.t, id |-> c.id, form |-> c.form, info |-> IF c.meta THEN c.form ELSE None]

\* async_add_torrent succeeds: the torrent is there and its alert is posted or lost.
LEMMA LtAddEffect ==
    ASSUME TypeInv, LtAdd
    PROVE  /\ TypeInv' /\ Commits /\ \A t \in Torrents \ {Call.t} : Same(t)
           /\ Call \in CallMsgs /\ Call.op = "add" /\ Call \in Items(calls) /\ Call.t \in Torrents
           /\ NewAlerts({AddAlertOf(Call)}) /\ AddAlertOf(Call) \in AlertMsgs
           /\ \A t \in Torrents : MapSame(t) /\ AskSame(t) /\ RowSame(t) /\ EventsSame(t)
           /\ lt[Call.t] = None /\ lt'[Call.t] # None /\ lt'[Call.t].id = Call.id /\ lt'[Call.t].form = Call.form
           /\ Items(Waiting) \cap LifeAlerts(Call.t) = {} => Once(Waiting', LifeAlerts(Call.t))
           /\ Once(calls, AddCalls(Call.t)) => Items(calls') \cap AddCalls(Call.t) = {}
           /\ Items(calls') \subseteq Items(calls)
<1>1. Takes("add") /\ lt[Call.t] = None /\ PostAlert(AddAlertOf(Call))
  BY DEF LtAdd, Live, AddAlertOf
<1>2. /\ Call \in CallMsgs /\ Call.op = "add" /\ Call \in Items(calls) /\ NewCalls({}) /\ IoSame /\ batch' = batch
      /\ calls' \in Seq(CallMsgs)
      /\ \A t \in Torrents : Once(calls, AddCalls(t)) /\ Call \in AddCalls(t) => Items(calls') \cap AddCalls(t) = {}
  BY <1>1, TakesIs
<1> DEFINE c == Call
           r == [id |-> c.id, form |-> c.form, meta |-> c.meta, cfg |-> c.cfg, pos |-> c.pos, unsaved |-> FALSE]
           a == AddAlertOf(c)
<1>3. lt' = [lt EXCEPT ![c.t] = r]
  BY DEF LtAdd
<1>4. c \in CallMsgs /\ c.op = "add"
  BY <1>2
<1> HIDE DEF c
<1>5. c.t \in Torrents /\ c.id \in Ids /\ c.form \in Forms /\ c.meta \in BOOLEAN /\ c.cfg \in Maybe(0..MaxChanges) /\ c.pos \in 0..MaxChanges
  BY <1>4, CallFields
<1>6. r \in LtTorrents /\ r.id = c.id /\ r.form = c.form
  BY <1>5 DEF LtTorrents
<1> HIDE DEF r
<1>7. r # None /\ r \in Maybe(LtTorrents)
  BY <1>6, NoneAssumption DEF Maybe
<1>8. LtIs(lt') /\ lt'[c.t] = r /\ \A u \in Torrents \ {c.t} : lt'[u] = lt[u]
  <2>1. LtIs(lt)
    BY DEF TypeInv
  <2>2. LtIs([lt EXCEPT ![c.t] = r]) /\ [lt EXCEPT ![c.t] = r][c.t] = r
        /\ \A u \in Torrents \ {c.t} : [lt EXCEPT ![c.t] = r][u] = lt[u]
    BY ONLY <2>1, <1>5, <1>7, LtSet
  <2> QED BY <1>3, <2>2
<1>9. a \in AlertMsgs /\ a.type = "add" /\ a.t = c.t
  <2>1. (IF c.meta THEN c.form ELSE None) \in Maybe(Forms)
    BY <1>5 DEF Maybe
  <2> QED BY <1>5, <2>1, AlertsMade DEF AddAlertOf
<1> HIDE DEF a
<1>10. /\ NewAlerts({a})
       /\ \A t \in Torrents : Items(Waiting) \cap LifeAlerts(t) = {} => Once(Waiting', LifeAlerts(t))
  <2>1. a.type \in AlertTypes /\ PostAlert(a)
    BY <1>1, <1>9 DEF AlertTypes, a, c
  <2> QED BY <1>2, <1>9, <2>1, AlertPosted DEF TypeInv
<1>11. /\ TypeInv' /\ Commits
       /\ \A t \in Torrents : MapSame(t) /\ AskSame(t) /\ RowSame(t) /\ EventsSame(t)
  BY <1>2, <1>8, <1>10, IoBeside
<1>12. ASSUME NEW t \in Torrents \ {c.t} PROVE Same(t)
  <2>1. {} \cap AddCalls(t) = {} /\ {a} \cap LifeAlerts(t) = {}
    BY <1>9 DEF LifeAlerts
  <2>2. QueuesSame(t)
    BY <1>2, <1>10, <2>1, QueuesBeside
  <2>3. LtSame(t)
    BY <1>8 DEF LtSame
  <2> QED BY <1>11, <2>2, <2>3 DEF Same
<1>13. Call \in AddCalls(Call.t)
  BY <1>4 DEF AddCalls, c
<1> QED BY <1>1, <1>2, <1>5, <1>6, <1>7, <1>8, <1>9, <1>10, <1>11, <1>12, <1>13 DEF c, a, NewCalls

FailedAlertOf(c) == [type |-> "addFailed", t |-> c.t, id |-> c.id, form |-> c.form]

\* async_add_torrent fails: only its alert is posted or lost.
LEMMA LtAddFailsEffect ==
    ASSUME TypeInv, LtAddFails
    PROVE  /\ TypeInv' /\ Commits /\ \A t \in Torrents \ {Call.t} : Same(t)
           /\ Call \in CallMsgs /\ Call.op = "add" /\ Call \in Items(calls) /\ Call.t \in Torrents
           /\ NewAlerts({FailedAlertOf(Call)}) /\ FailedAlertOf(Call) \in AlertMsgs
           /\ \A t \in Torrents : MapSame(t) /\ AskSame(t) /\ RowSame(t) /\ EventsSame(t)
           /\ UNCHANGED lt
           /\ Items(Waiting) \cap LifeAlerts(Call.t) = {} => Once(Waiting', LifeAlerts(Call.t))
           /\ Once(calls, AddCalls(Call.t)) => Items(calls') \cap AddCalls(Call.t) = {}
           /\ Items(calls') \subseteq Items(calls)
<1>1. Takes("add") /\ PostAlert(FailedAlertOf(Call)) /\ UNCHANGED lt
  BY DEF LtAddFails, FailedAlertOf
<1>2. /\ Call \in CallMsgs /\ Call.op = "add" /\ Call \in Items(calls) /\ NewCalls({}) /\ IoSame /\ batch' = batch
      /\ calls' \in Seq(CallMsgs)
      /\ \A t \in Torrents : Once(calls, AddCalls(t)) /\ Call \in AddCalls(t) => Items(calls') \cap AddCalls(t) = {}
  BY <1>1, TakesIs
<1> DEFINE c == Call
           a == FailedAlertOf(c)
<1>4. c \in CallMsgs /\ c.op = "add"
  BY <1>2
<1> HIDE DEF c
<1>5. c.t \in Torrents /\ c.id \in Ids /\ c.form \in Forms
  BY <1>4, CallFields
<1>9. a \in AlertMsgs /\ a.type = "addFailed" /\ a.t = c.t
  BY <1>5, AlertsMade DEF FailedAlertOf
<1> HIDE DEF a
<1>10. /\ NewAlerts({a})
       /\ \A t \in Torrents : Items(Waiting) \cap LifeAlerts(t) = {} => Once(Waiting', LifeAlerts(t))
  <2>1. a.type \in AlertTypes /\ PostAlert(a)
    BY <1>1, <1>9 DEF AlertTypes, a, c
  <2> QED BY <1>2, <1>9, <2>1, AlertPosted DEF TypeInv
<1>11. /\ TypeInv' /\ Commits
       /\ \A t \in Torrents : MapSame(t) /\ AskSame(t) /\ RowSame(t) /\ EventsSame(t)
  <2>1. LtIs(lt')
    BY <1>1 DEF TypeInv
  <2> QED BY <1>2, <1>10, <2>1, IoBeside
<1>12. ASSUME NEW t \in Torrents \ {c.t} PROVE Same(t)
  <2>1. {} \cap AddCalls(t) = {} /\ {a} \cap LifeAlerts(t) = {}
    BY <1>9 DEF LifeAlerts
  <2>2. QueuesSame(t)
    BY <1>2, <1>10, <2>1, QueuesBeside
  <2>3. LtSame(t)
    BY <1>1, LtBeside
  <2> QED BY <1>11, <2>2, <2>3 DEF Same
<1>13. Call \in AddCalls(Call.t)
  BY <1>4 DEF AddCalls, c
<1> QED BY <1>1, <1>2, <1>5, <1>9, <1>10, <1>11, <1>12, <1>13 DEF c, a, NewCalls

\* A torrent that stays while other fields than its id change.
LEMMA LtReplaced ==
    ASSUME LtIs(lt), NEW t \in Torrents, lt[t] # None, NEW x \in LtTorrents, x.id = lt[t].id,
           x.form \in {lt[t].form, "full"}, lt' = [lt EXCEPT ![t] = x]
    PROVE  LtIs(lt') /\ \A u \in Torrents : LtSame(u)
<1>1. x # None /\ x \in Maybe(LtTorrents)
  BY NoneAssumption DEF Maybe
<1> DEFINE l == [lt EXCEPT ![t] = x]
<1>2. LtIs(l) /\ l[t] = x /\ \A u \in Torrents \ {t} : l[u] = lt[u]
  BY ONLY LtIs(lt), t \in Torrents, <1>1, LtSet
<1> HIDE DEF l
<1>3. lt' = l
  BY DEF l
<1>4. ASSUME NEW u \in Torrents PROVE LtSame(u)
  <2>1. CASE u = t
    BY <1>1, <1>2, <1>3, <2>1 DEF LtSame
  <2>2. CASE u # t
    BY <1>2, <1>3, <2>2 DEF LtSame
  <2> QED BY <2>1, <2>2
<1> QED BY <1>2, <1>3, <1>4

\* save_resume_data changes what is unsaved and posts its answer.
LEMMA LtSaveEffect ==
    ASSUME TypeInv, LtSave
    PROVE  /\ TypeInv' /\ Commits /\ \A t \in Torrents : Same(t)
           /\ NewCalls({}) /\ \E M \in SUBSET {a \in AlertMsgs : a.type \in {"saved", "notSaved"}} : NewAlerts(M)
           /\ IoSame
           /\ UNCHANGED <<alerts, batch, lost>> \/ \E a \in AlertMsgs : a.type \in {"saved", "notSaved"} /\ PostAlert(a)
<1>1. Takes("save")
  BY DEF LtSave
<1>2. /\ Call \in CallMsgs /\ Call.op = "save" /\ NewCalls({}) /\ IoSame /\ batch' = batch /\ calls' \in Seq(CallMsgs)
  BY <1>1, TakesIs
<1> DEFINE c == Call
<1>3. c.t \in Torrents /\ c.id \in Ids /\ c.always \in BOOLEAN /\ c.info \in BOOLEAN
  BY <1>2, CallFields
<1>4. QueuesAre /\ LtIs(lt)
  BY DEF TypeInv
<1> DEFINE K == {a \in AlertMsgs : a.type \in {"saved", "notSaved"}}
<1>5. /\ LtIs(lt') /\ (\A t \in Torrents : LtSame(t)) /\ (\E M \in SUBSET K : NewAlerts(M))
      /\ UNCHANGED <<alerts, batch, lost>> \/ \E a \in K : PostAlert(a)
  <2>1. CASE ~Valid(c.t, c.id)
    <3>1. UNCHANGED <<lt, alerts, dropped, lost>>
      BY <2>1 DEF LtSave
    <3>2. NewAlerts({})
      BY <1>2, <1>4, <3>1, AlertsKept
    <3> QED BY <1>2, <1>4, <3>1, <3>2, LtBeside
  <2>2. CASE Valid(c.t, c.id) /\ (c.always \/ lt[c.t].unsaved)
    <3> DEFINE info == IF c.info THEN InfoOf(c.t) ELSE None
               a == [type |-> "saved", t |-> c.t, id |-> c.id, form |-> lt[c.t].form, cfg |-> lt[c.t].cfg, info |-> info]
    <3>1. lt' = [lt EXCEPT ![c.t].unsaved = FALSE] /\ PostAlert(a)
      BY <2>2 DEF LtSave
    <3>2. lt[c.t] # None
      BY <2>2 DEF Valid, Live
    <3>3. lt[c.t].form \in Forms /\ lt[c.t].cfg \in Maybe(0..MaxChanges)
      BY <1>3, <1>4, <3>2, LtFields
    <3>4. info \in Maybe(Forms)
      BY <3>3 DEF Maybe, InfoOf
    <3> HIDE DEF info
    <3>5. a \in AlertMsgs /\ a.type = "saved"
      BY <1>3, <3>3, <3>4, AlertsMade
    <3> HIDE DEF a, c
    <3>6. NewAlerts({a})
      BY <1>2, <1>4, <3>1, <3>5, AlertPosted DEF AlertTypes
    <3> DEFINE r == lt[c.t]
               x == [r EXCEPT !.unsaved = FALSE]
    <3>7. lt' = [lt EXCEPT ![c.t] = x]
      BY <3>1, <1>4 DEF LtIs
    <3>7a. r \in LtTorrents
      BY <1>3, <1>4, <3>2, LtFields
    <3> HIDE DEF r
    <3>7b. x \in LtTorrents /\ x.id = r.id /\ x.form = r.form
      BY <3>7a DEF LtTorrents
    <3> HIDE DEF x
    <3>8. LtIs(lt') /\ \A u \in Torrents : LtSame(u)
      BY <1>3, <1>4, <3>2, <3>7, <3>7b, LtReplaced DEF r
    <3>9. {a} \in SUBSET K
      BY <3>5
    <3> QED BY <3>1, <3>6, <3>8, <3>9
  <2>3. CASE Valid(c.t, c.id) /\ ~(c.always \/ lt[c.t].unsaved)
    <3> DEFINE a == [type |-> "notSaved", t |-> c.t, id |-> c.id]
    <3>1. PostAlert(a) /\ UNCHANGED lt
      BY <2>3 DEF LtSave
    <3>2. a \in AlertMsgs /\ a.type = "notSaved"
      BY <1>3, AlertsMade
    <3> HIDE DEF a
    <3>3. NewAlerts({a})
      BY <1>2, <1>4, <3>1, <3>2, AlertPosted DEF AlertTypes
    <3>4. {a} \in SUBSET K
      BY <3>2
    <3> QED BY <1>4, <3>1, <3>3, <3>4, LtBeside
  <2> QED BY <2>1, <2>2, <2>3
<1>6. PICK M \in SUBSET K : NewAlerts(M)
  BY <1>5
<1>7. M \in SUBSET PlainAlerts /\ {} \in SUBSET PlainCalls
  BY DEF PlainAlerts
<1>8. \A t \in Torrents : QueuesSame(t)
  BY <1>2, <1>6, <1>7, PlainQueues
<1>9. /\ TypeInv' /\ Commits
      /\ \A t \in Torrents : MapSame(t) /\ AskSame(t) /\ RowSame(t) /\ EventsSame(t)
  BY <1>2, <1>5, <1>6, IoBeside
<1> QED BY <1>2, <1>5, <1>6, <1>8, <1>9 DEF Same

\* Settings and queue positions change the torrent and post nothing.
LEMMA LtConfigureEffect ==
    ASSUME TypeInv, LtConfigure \/ LtMoveQueue
    PROVE  /\ TypeInv' /\ Commits /\ \A t \in Torrents : Same(t)
           /\ NewCalls({}) /\ NewAlerts({}) /\ IoSame
           /\ Call.op \in {"configure", "queue"} /\ Call \in Items(calls)
<1> DEFINE c == Call
<1>1. PICK op \in {"configure", "queue"} : Takes(op)
  BY DEF LtConfigure, LtMoveQueue
<1>2. /\ c \in CallMsgs /\ c.op = op /\ NewCalls({}) /\ IoSame /\ batch' = batch /\ calls' \in Seq(CallMsgs)
      /\ Call \in Items(calls)
  BY <1>1, TakesIs
<1>3. c.t \in Torrents /\ c.id \in Ids /\ c.cfg \in 0..MaxChanges /\ c.pos \in 0..MaxChanges
  BY <1>2, CallFields
<1>4. QueuesAre /\ LtIs(lt) /\ UNCHANGED <<alerts, dropped>>
  BY DEF TypeInv, LtConfigure, LtMoveQueue
<1>5. NewAlerts({})
  BY <1>2, <1>4, AlertsKept
<1>6. LtIs(lt') /\ \A t \in Torrents : LtSame(t)
  <2>1. CASE ~Valid(c.t, c.id)
    <3>1. UNCHANGED lt
      BY <2>1 DEF LtConfigure, LtMoveQueue
    <3> QED BY <1>4, <3>1, LtBeside
  <2>2. CASE Valid(c.t, c.id)
    <3> DEFINE r == lt[c.t]
               x == [r EXCEPT !.cfg = c.cfg, !.unsaved = TRUE]
               y == [r EXCEPT !.pos = c.pos]
    <3>1. lt[c.t] # None
      BY <2>2 DEF Valid, Live
    <3>2. lt' = [lt EXCEPT ![c.t] = x] \/ lt' = [lt EXCEPT ![c.t] = y]
      BY <1>4, <2>2 DEF LtIs, LtConfigure, LtMoveQueue
    <3>3. r \in LtTorrents
      BY <1>3, <1>4, <3>1, LtFields
    <3> HIDE DEF r, c
    <3>4. x \in LtTorrents /\ x.id = r.id /\ x.form = r.form /\ y \in LtTorrents /\ y.id = r.id /\ y.form = r.form
      BY <1>3, <3>3 DEF LtTorrents, Maybe
    <3> HIDE DEF x, y
    <3>5. CASE lt' = [lt EXCEPT ![c.t] = x]
      BY <1>3, <1>4, <3>1, <3>4, <3>5, LtReplaced DEF r
    <3>6. CASE lt' = [lt EXCEPT ![c.t] = y]
      BY <1>3, <1>4, <3>1, <3>4, <3>6, LtReplaced DEF r
    <3> QED BY <3>2, <3>5, <3>6
  <2> QED BY <2>1, <2>2
<1>7. {} \in SUBSET PlainAlerts /\ {} \in SUBSET PlainCalls
  OBVIOUS
<1>8. \A t \in Torrents : QueuesSame(t)
  BY <1>2, <1>5, <1>7, PlainQueues
<1>9. /\ TypeInv' /\ Commits
      /\ \A t \in Torrents : MapSame(t) /\ AskSame(t) /\ RowSame(t) /\ EventsSame(t)
  BY <1>2, <1>5, <1>6, IoBeside
<1> QED BY <1>2, <1>5, <1>6, <1>8, <1>9 DEF Same

\* post_torrent_updates posts the state of every torrent.
LEMMA LtPostUpdatesEffect ==
    ASSUME TypeInv, LtPostUpdates
    PROVE  /\ TypeInv' /\ Commits /\ \A t \in Torrents : Same(t)
           /\ NewCalls({}) /\ IoSame /\ UNCHANGED lt
           /\ Call.op = "updates" /\ Call \in Items(calls)
           /\ \E a \in AlertMsgs : /\ a.type = "update" /\ NewAlerts({a}) /\ PostAlert(a)
                                   /\ \A s \in a.status : s.t \in Torrents /\ lt[s.t] # None /\ s.id = lt[s.t].id
<1>1. Takes("updates") /\ UNCHANGED lt
  BY DEF LtPostUpdates
<1>2. /\ Call.op = "updates" /\ NewCalls({}) /\ IoSame /\ batch' = batch /\ calls' \in Seq(CallMsgs)
      /\ Call \in Items(calls)
  BY <1>1, TakesIs
<1>3. QueuesAre /\ LtIs(lt)
  BY DEF TypeInv
<1> DEFINE st(t) == [t |-> t, id |-> lt[t].id, form |-> lt[t].form, meta |-> lt[t].meta]
           L == {u \in Torrents : Live(u)}
           S == {st(t) : t \in L}
           a == [type |-> "update", status |-> S]
<1>4. PostAlert(a)
  BY DEF LtPostUpdates
<1>5. ASSUME NEW t \in L PROVE st(t) \in Statuses /\ st(t).t \in Torrents /\ lt[st(t).t] # None /\ st(t).id = lt[st(t).t].id
  <2>1. t \in Torrents /\ lt[t] # None
    BY DEF Live
  <2>2. lt[t].id \in Ids /\ lt[t].form \in Forms /\ lt[t].meta \in BOOLEAN
    BY <1>3, <2>1, LtFields
  <2> QED BY <2>1, <2>2 DEF Statuses
<1>6. S \subseteq Statuses /\ \A s \in S : s.t \in Torrents /\ lt[s.t] # None /\ s.id = lt[s.t].id
  BY <1>5
<1> HIDE DEF S
<1>7. a \in AlertMsgs /\ a.type = "update" /\ a.status = S
  BY <1>6, SetAlerts
<1> HIDE DEF a
<1>8. NewAlerts({a})
  BY <1>2, <1>3, <1>4, <1>7, AlertPosted DEF AlertTypes
<1>9. {a} \in SUBSET PlainAlerts /\ {} \in SUBSET PlainCalls
  BY <1>7 DEF PlainAlerts
<1>10. \A t \in Torrents : QueuesSame(t)
  BY <1>2, <1>8, <1>9, PlainQueues
<1>11. /\ TypeInv' /\ Commits
      /\ \A t \in Torrents : MapSame(t) /\ AskSame(t) /\ RowSame(t) /\ EventsSame(t)
  <2>1. LtIs(lt')
    BY <1>1, <1>3
  <2> QED BY <1>2, <1>8, <2>1, IoBeside
<1>12. \A s \in a.status : s.t \in Torrents /\ lt[s.t] # None /\ s.id = lt[s.t].id
  BY <1>6, <1>7
<1> QED BY <1>1, <1>2, <1>4, <1>7, <1>8, <1>10, <1>11, <1>12, LtBeside DEF Same

\* Metadata arrives: the torrent may get its full hash.
LEMMA LtMetadataEffect ==
    ASSUME TypeInv, NEW t \in Torrents, LtMetadata(t)
    PROVE  /\ TypeInv' /\ Commits /\ \A u \in Torrents : Same(u)
           /\ NewCalls({}) /\ IoSame /\ lt[t] # None
           /\ [type |-> "metadata", t |-> t, id |-> lt[t].id] \in AlertMsgs
           /\ NewAlerts({[type |-> "metadata", t |-> t, id |-> lt[t].id]})
<1> DEFINE a == [type |-> "metadata", t |-> t, id |-> lt[t].id]
           r == lt[t]
<1>1. IoSame /\ calls' = calls /\ lt[t] # None /\ PostAlert(a)
  BY DEF LtMetadata, IoSame, Live
<1>2. PICK form \in {lt[t].form, "full"} :
          lt' = [lt EXCEPT ![t].meta = TRUE, ![t].form = form, ![t].unsaved = TRUE]
  BY DEF LtMetadata
<1>3. QueuesAre /\ LtIs(lt)
  BY DEF TypeInv
<1> DEFINE x == [r EXCEPT !.meta = TRUE, !.form = form, !.unsaved = TRUE]
<1>4. lt' = [lt EXCEPT ![t] = x]
  BY <1>2, <1>3 DEF LtIs
<1>5. r \in LtTorrents /\ lt[t].id \in Ids /\ lt[t].form \in Forms
  BY <1>1, <1>3, LtFields
<1>6. a \in AlertMsgs /\ a.type = "metadata"
  BY <1>5, AlertsMade
<1>7. form \in Forms
  BY <1>5, FormsAre
<1> HIDE DEF r, a
<1>8. x \in LtTorrents /\ x.id = r.id /\ x.form = form
  BY <1>5, <1>7 DEF LtTorrents
<1> HIDE DEF x
<1>9. LtIs(lt') /\ \A u \in Torrents : LtSame(u)
  BY <1>1, <1>3, <1>4, <1>8, LtReplaced DEF r
<1>10. batch' = batch
  BY <1>1 DEF IoSame, ioVars
<1>11. NewAlerts({a}) /\ NewCalls({}) /\ calls' \in Seq(CallMsgs)
  BY <1>1, <1>3, <1>6, <1>10, AlertPosted, CallsKept DEF AlertTypes, QueuesAre
<1>12. {a} \in SUBSET PlainAlerts /\ {} \in SUBSET PlainCalls
  BY <1>6 DEF PlainAlerts
<1>13. \A u \in Torrents : QueuesSame(u)
  BY <1>11, <1>12, PlainQueues
<1>14. /\ TypeInv' /\ Commits
      /\ \A u \in Torrents : MapSame(u) /\ AskSame(u) /\ RowSame(u) /\ EventsSame(u)
  BY <1>1, <1>9, <1>11, IoBeside
<1> QED BY <1>1, <1>6, <1>9, <1>11, <1>13, <1>14 DEF Same, a

RemovedAlertOf(c) == [type |-> "removed", t |-> c.t, id |-> c.id, form |-> lt[c.t].form]

\* remove_torrent: the torrent goes if its handle is valid.
LEMMA LtRemoveEffect ==
    ASSUME TypeInv, LtRemove
    PROVE  /\ TypeInv' /\ Commits /\ \A t \in Torrents \ {Call.t} : Same(t)
           /\ NewCalls({}) /\ IoSame /\ Call.op = "remove" /\ Call \in CallMsgs /\ Call \in Items(calls)
           /\ Call.t \in Torrents /\ Call.id \in Ids
           /\ \A t \in Torrents : MapSame(t) /\ AskSame(t) /\ RowSame(t) /\ EventsSame(t)
           /\ \/ Same(Call.t) /\ NewAlerts({})
              \/ /\ lt[Call.t] # None /\ lt[Call.t].id = Call.id /\ lt'[Call.t] = None
                 /\ RemovedAlertOf(Call) \in AlertMsgs /\ NewAlerts({RemovedAlertOf(Call)})
                 /\ Items(Waiting) \cap LifeAlerts(Call.t) = {} => Once(Waiting', LifeAlerts(Call.t))
<1> DEFINE c == Call
           a == RemovedAlertOf(c)
<1>1. Takes("remove")
  BY DEF LtRemove
<1>2. /\ c \in CallMsgs /\ c.op = "remove" /\ c \in Items(calls) /\ NewCalls({}) /\ IoSame /\ batch' = batch
      /\ calls' \in Seq(CallMsgs)
  BY <1>1, TakesIs
<1>3. c.t \in Torrents /\ c.id \in Ids
  BY <1>2, CallFields
<1>4. QueuesAre /\ LtIs(lt)
  BY DEF TypeInv
<1>5. CASE ~Valid(c.t, c.id)
  <2>1. UNCHANGED <<lt, alerts, dropped>>
    BY <1>5 DEF LtRemove
  <2>2. NewAlerts({})
    BY <1>2, <1>4, <2>1, AlertsKept
  <2>3. {} \in SUBSET PlainAlerts /\ {} \in SUBSET PlainCalls
    OBVIOUS
  <2>4. \A t \in Torrents : QueuesSame(t)
    BY <1>2, <2>2, <2>3, PlainQueues
  <2>5. /\ TypeInv' /\ Commits
        /\ \A t \in Torrents : MapSame(t) /\ AskSame(t) /\ RowSame(t) /\ EventsSame(t)
    <3>1. LtIs(lt')
      BY <1>4, <2>1
    <3> QED BY <1>2, <2>2, <3>1, IoBeside
  <2> QED BY <1>2, <1>3, <2>1, <2>2, <2>4, <2>5, LtBeside DEF Same
<1>6. CASE Valid(c.t, c.id)
  <2>1. lt' = [lt EXCEPT ![c.t] = None] /\ PostAlert(a)
    BY <1>6 DEF LtRemove, RemovedAlertOf
  <2>2. lt[c.t] # None /\ lt[c.t].id = c.id
    BY <1>6 DEF Valid, Live
  <2>3. lt[c.t].form \in Forms
    BY <1>3, <1>4, <2>2, LtFields
  <2>4. a \in AlertMsgs /\ a.type = "removed" /\ a.t = c.t
    BY <1>3, <2>3, AlertsMade DEF RemovedAlertOf
  <2> HIDE DEF a, c
  <2>5. LtIs(lt') /\ lt'[c.t] = None /\ \A u \in Torrents \ {c.t} : lt'[u] = lt[u]
    <3>1. None \in Maybe(LtTorrents)
      BY DEF Maybe
    <3> DEFINE l == [lt EXCEPT ![c.t] = None]
    <3>2. LtIs(l) /\ l[c.t] = None /\ \A u \in Torrents \ {c.t} : l[u] = lt[u]
      BY ONLY <3>1, <1>3, <1>4, LtSet
    <3> HIDE DEF l
    <3> QED BY <2>1, <3>2 DEF l
  <2>6. /\ NewAlerts({a})
        /\ \A t \in Torrents : Items(Waiting) \cap LifeAlerts(t) = {} => Once(Waiting', LifeAlerts(t))
    BY <1>2, <1>4, <2>1, <2>4, AlertPosted DEF AlertTypes
  <2>7. /\ TypeInv' /\ Commits
        /\ \A t \in Torrents : MapSame(t) /\ AskSame(t) /\ RowSame(t) /\ EventsSame(t)
    BY <1>2, <2>5, <2>6, IoBeside
  <2>8. ASSUME NEW t \in Torrents \ {c.t} PROVE Same(t)
    <3>1. {} \cap AddCalls(t) = {} /\ {a} \cap LifeAlerts(t) = {}
      BY <2>4 DEF LifeAlerts
    <3>2. QueuesSame(t)
      BY <1>2, <2>6, <3>1, QueuesBeside
    <3>3. LtSame(t)
      BY <2>5 DEF LtSame
    <3> QED BY <2>7, <3>2, <3>3 DEF Same
  <2> QED BY <1>2, <1>3, <2>2, <2>4, <2>5, <2>6, <2>7, <2>8 DEF c, a
<1> QED BY <1>5, <1>6

-----------------------------------------------------------------------------
(* The alert handlers                                                        *)

HandlerSame == UNCHANGED <<lt, alerts, dropped, pc, after, handles, seen, toSave, awaited, dirtyTimer, toLoad,
                           rows, adds, loadedIds, removing, lost, changes>>

\* A handler takes the head of the batch and nothing that libtorrent owns changes.
LEMMA HandlesIs ==
    ASSUME TypeInv, NEW type, Handles(type)
    PROVE  /\ NewAlerts({}) /\ Alert \in AlertMsgs /\ Alert \in Items(Waiting) /\ Alert \in Items(batch)
           /\ Waiting # <<>> /\ Waiting' = Tail(Waiting) /\ Alert = Head(Waiting)
           /\ Items(batch') \subseteq Items(batch)
           /\ \A t \in Torrents : Once(Waiting, LifeAlerts(t)) /\ Alert \in LifeAlerts(t) =>
                 Items(Waiting') \cap LifeAlerts(t) = {}
           /\ Alert.type = type /\ HandlerSame /\ pc = "alerts"
<1>1. /\ QueuesAre /\ batch # <<>> /\ batch' = Tail(batch) /\ alerts' = alerts /\ dropped' = dropped
      /\ Alert.type = type /\ HandlerSame /\ pc = "alerts"
  BY DEF TypeInv, Handles, HandlerSame
<1> QED BY <1>1, AlertTaken

\* A handler that changes one torrent leaves the others alone.
LEMMA HandlerBeside ==
    ASSUME TypeInv, HandlerSame, pc = "alerts", NEW M, NewAlerts(M), calls' \in Seq(CallMsgs),
           MapIs(m_torrents'), DirtyIs(m_dirty'), TableIs(work'), EventsAre(events')
    PROVE  TypeInv' /\ Commits /\ \A t \in Torrents : LtSame(t) /\ AskSame(t)
<1>1. UNCHANGED <<lt, pc, after, handles, toSave, toLoad, rows, adds, loadedIds, removing, changes>>
  BY DEF HandlerSame
<1>2. QueuesAre'
  BY DEF NewAlerts, QueuesAre
<1>3. TypeInv'
  BY <1>1, <1>2 DEF TypeInv
<1> QED BY <1>1, <1>3, LtBeside, AskBeside DEF Commits

\* No message is of a kind that says nothing of a beginning or an end.
LEMMA NothingNew == {} \in SUBSET PlainAlerts /\ {} \in SUBSET PlainCalls /\ SaveCalls \in SUBSET PlainCalls
                    /\ DropAlerts \in SUBSET PlainAlerts
  BY DEF SaveCalls, PlainCalls, PlainAlerts, DropAlerts

\* The calls of a handler.
LEMMA SavePosted ==
    ASSUME QueuesAre, NEW t \in Torrents, NEW id \in Ids, NEW b \in BOOLEAN, NEW i \in BOOLEAN,
           calls' = Append(calls, Save(t, id, b, i))
    PROVE  NewCalls(SaveCalls)
<1> DEFINE c == Save(t, id, b, i)
<1>1. c \in CallMsgs
  BY CallsMade
<1>2. c.op = "save"
  BY DEF Save
<1> HIDE DEF c
<1>3. NewCalls({c})
  BY <1>1, CallPosted DEF c
<1>4. c \in SaveCalls /\ \A u \in Torrents : {c} \cap AddCalls(u) = {} /\ SaveCalls \cap AddCalls(u) = {}
  BY <1>1, <1>2 DEF SaveCalls, AddCalls
<1> QED BY <1>3, <1>4 DEF NewCalls

\* No save is asked for.
LEMMA SavesKept == QueuesAre /\ calls' = calls => NewCalls(SaveCalls)
<1> SUFFICES ASSUME QueuesAre, calls' = calls PROVE NewCalls(SaveCalls)
  OBVIOUS
<1> QED BY DEF QueuesAre, NewCalls

\* Nothing is published.
LEMMA NoNews == EventsAre(events) /\ UNCHANGED events => EventsAre(events') /\ \A t \in Torrents : EventsSame(t)
  BY EventsBeside

\* An event of another kind than added and removed.
LEMMA OtherNews ==
    ASSUME EventsAre(events), NEW name \in {"metadata", "addFailed"}, NEW t \in Torrents, NEW id \in Ids, Publish(name, t, id)
    PROVE  EventsAre(events') /\ \A u \in Torrents : EventsSame(u)
<1>1. name \in EventNames /\ "added" \in EventNames /\ "removed" \in EventNames
  BY DEF EventNames
<1>2. EventsAre(events') /\ \A e \in EventNames \X Torrents \X Ids : e # <<name, t, id>> => events'[e] = events[e]
  BY <1>1, PublishIs
<1>3. ASSUME NEW u \in Torrents, NEW i \in Ids, NEW m \in {"added", "removed"} PROVE events'[<<m, u, i>>] = events[<<m, u, i>>]
  <2>1. <<m, u, i>> \in EventNames \X Torrents \X Ids /\ <<m, u, i>> # <<name, t, id>>
    BY <1>1
  <2> QED BY <1>2, <2>1
<1> QED BY <1>2, <1>3 DEF EventsSame

\* A published event of one torrent is none of another's.
LEMMA NewsOf ==
    ASSUME EventsAre(events), NEW name \in EventNames, NEW t \in Torrents, NEW id \in Ids, Publish(name, t, id)
    PROVE  EventsAre(events') /\ \A u \in Torrents \ {t} : EventsSame(u)
<1>1. name \in EventNames /\ "added" \in EventNames /\ "removed" \in EventNames
  BY DEF EventNames
<1>2. EventsAre(events') /\ \A e \in EventNames \X Torrents \X Ids : e # <<name, t, id>> => events'[e] = events[e]
  BY <1>1, PublishIs
<1>3. ASSUME NEW u \in Torrents \ {t}, NEW i \in Ids, NEW m \in {"added", "removed"} PROVE events'[<<m, u, i>>] = events[<<m, u, i>>]
  <2>1. <<m, u, i>> \in EventNames \X Torrents \X Ids /\ <<m, u, i>> # <<name, t, id>>
    BY <1>1
  <2> QED BY <1>2, <2>1
<1> QED BY <1>2, <1>3 DEF EventsSame

\* An entry of one torrent is none of another's.
LEMMA MapOf ==
    ASSUME NEW t \in Torrents, \A q \in Keys : q[1] # t => m_torrents'[q] = m_torrents[q]
    PROVE  \A u \in Torrents \ {t} : MapSame(u)
<1> SUFFICES ASSUME NEW u \in Torrents \ {t}, NEW f \in Forms PROVE m_torrents'[<<u, f>>] = m_torrents[<<u, f>>]
  BY DEF MapSame, SameEntry
<1>1. <<u, f>> \in Keys /\ <<u, f>>[1] = u
  BY KeyParts
<1> QED BY <1>1

\* OnAddTorrentAlert with an error drops the entry that was being added.
LEMMA OnAddFailedEffect ==
    ASSUME TypeInv, OnAddFailed
    PROVE  /\ TypeInv' /\ Commits /\ \A t \in Torrents \ {Alert.t} : Same(t)
           /\ Alert \in AlertMsgs /\ Alert.type = "addFailed" /\ Alert \in Items(Waiting) /\ Alert.t \in Torrents
           /\ HandlerSame /\ pc = "alerts" /\ Items(batch') \subseteq Items(batch) /\ NewCalls({}) /\ NewAlerts({})
           /\ \A t \in Torrents : LtSame(t) /\ AskSame(t) /\ QueuesSame(t) /\ RowSame(t) /\ EventsSame(t)
           /\ Once(Waiting, LifeAlerts(Alert.t)) => Items(Waiting') \cap LifeAlerts(Alert.t) = {}
           /\ \A k \in Keys : m_torrents'[k] = IF k = AlertKey /\ ~Current(k) THEN None ELSE m_torrents[k]
<1> DEFINE a == Alert
           k == AlertKey
<1>1. Handles("addFailed") /\ UNCHANGED <<calls, m_dirty, reconcile, work>>
  BY DEF OnAddFailed
<1>2. /\ NewAlerts({}) /\ a \in AlertMsgs /\ a \in Items(Waiting) /\ a.type = "addFailed" /\ HandlerSame /\ pc = "alerts"
      /\ Items(batch') \subseteq Items(batch)
      /\ \A t \in Torrents : Once(Waiting, LifeAlerts(t)) /\ a \in LifeAlerts(t) => Items(Waiting') \cap LifeAlerts(t) = {}
  BY <1>1, HandlesIs
<1>3. a.t \in Torrents /\ a.id \in Ids /\ a.form \in Forms /\ a \in LifeAlerts(a.t)
  BY <1>2, AlertFields DEF LifeAlerts
<1>4. k \in Keys /\ k = <<a.t, a.form>> /\ k[1] = a.t
  BY <1>3, KeyParts DEF AlertKey
<1>5. QueuesAre /\ MapIs(m_torrents) /\ EventsAre(events) /\ DirtyIs(m_dirty) /\ TableIs(work)
  BY DEF TypeInv
<1>6. NewCalls({}) /\ calls' \in Seq(CallMsgs)
  BY <1>1, <1>5, CallsKept DEF NewCalls
<1>7. /\ MapIs(m_torrents') /\ EventsAre(events') /\ \A u \in Torrents : EventsSame(u)
      /\ \A q \in Keys : m_torrents'[q] = IF q = k /\ ~Current(q) THEN None ELSE m_torrents[q]
  <2>1. CASE Tracked(k) /\ ~Current(k)
    <3>1. m_torrents' = [m_torrents EXCEPT ![k] = None] /\ Publish("addFailed", a.t, a.id)
      BY <2>1 DEF OnAddFailed
    <3>2. EventsAre(events') /\ \A u \in Torrents : EventsSame(u)
      BY <1>3, <1>5, <3>1, OtherNews
    <3> HIDE DEF k
    <3>3. None \in Maybe(Entries)
      BY DEF Maybe
    <3> DEFINE m == [m_torrents EXCEPT ![k] = None]
    <3>4. MapIs(m) /\ m[k] = None /\ \A q \in Keys \ {k} : m[q] = m_torrents[q]
      BY ONLY <1>4, <1>5, <3>3, MapSet
    <3> HIDE DEF m
    <3>5. m_torrents' = m
      BY <3>1 DEF m
    <3> QED BY <2>1, <3>2, <3>4, <3>5
  <2>2. CASE ~(Tracked(k) /\ ~Current(k))
    <3>1. UNCHANGED <<m_torrents, events>>
      BY <2>2 DEF OnAddFailed
    <3>2. ASSUME NEW q \in Keys, q = k, ~Current(q) PROVE m_torrents[q] = None
      BY <2>2, <3>2 DEF Tracked
    <3> QED BY <1>5, <3>1, <3>2, NoNews
  <2> QED BY <2>1, <2>2
<1>8. TypeInv' /\ Commits /\ \A t \in Torrents : LtSame(t) /\ AskSame(t)
  <2>1. DirtyIs(m_dirty') /\ TableIs(work')
    BY <1>1, <1>5
  <2> QED BY <1>2, <1>6, <1>7, <2>1, HandlerBeside
<1>9. \A t \in Torrents : QueuesSame(t) /\ RowSame(t)
  BY <1>1, <1>2, <1>6, NothingNew, PlainQueues, RowBeside
<1>10. \A t \in Torrents \ {a.t} : MapSame(t)
  <2>1. \A q \in Keys : q[1] # a.t => m_torrents'[q] = m_torrents[q]
    BY <1>4, <1>7
  <2> QED BY <1>3, <2>1, MapOf
<1> QED BY <1>2, <1>3, <1>6, <1>7, <1>8, <1>9, <1>10 DEF Same

\* The map after the lookup of an add alert.
LEMMA LookupIs ==
    ASSUME TypeInv, Alert \in AlertMsgs, Alert.type = "add", lt[Alert.t] # None
    PROVE  /\ Alert.t \in Torrents /\ Alert.id \in Ids /\ AlertKey \in Keys /\ AddHash \in Keys /\ Alert.info \in Maybe(Forms)
           /\ AlertKey = <<Alert.t, Alert.form>> /\ AddHash = <<Alert.t, lt[Alert.t].form>> /\ Alert.form \in Forms
           /\ AddHash[1] = Alert.t /\ AlertKey[1] = Alert.t /\ AddHash[2] = lt[Alert.t].form /\ lt[Alert.t].form \in Forms
           /\ MapIs(AddLookup(AlertKey, AddHash)) /\ AddLookup(AlertKey, AddHash)[AddHash] # None
           /\ \A q \in Keys : q[1] # Alert.t => AddLookup(AlertKey, AddHash)[q] = m_torrents[q]
           /\ Tracked(AlertKey) /\ (AddHash # AlertKey => m_torrents[AddHash] = None) =>
                 /\ AddLookup(AlertKey, AddHash)[AddHash] = m_torrents[AlertKey]
                 /\ \A q \in Keys \ {AlertKey, AddHash} : AddLookup(AlertKey, AddHash)[q] = m_torrents[q]
                 /\ AddHash # AlertKey => AddLookup(AlertKey, AddHash)[AlertKey] = None
<1> DEFINE a == Alert
           k == AlertKey
           h == AddHash
           m == m_torrents
           l == AddLookup(k, h)
<1>1. a.t \in Torrents /\ a.id \in Ids /\ a.form \in Forms /\ a.info \in Maybe(Forms)
  BY AlertFields
<1>2. MapIs(m) /\ LtIs(lt)
  BY DEF TypeInv
<1>3. lt[a.t].form \in Forms /\ lt[a.t].meta \in BOOLEAN
  BY <1>1, <1>2, LtFields
<1>4. /\ k = <<a.t, a.form>> /\ h = <<a.t, lt[a.t].form>> /\ k \in Keys /\ h \in Keys /\ k[1] = a.t /\ h[1] = a.t
      /\ h[2] = lt[a.t].form
  BY <1>1, <1>3, KeyParts DEF AlertKey, AddHash
<1>5. CASE Tracked(k)
  <2>1. l = Rekey(m, k, h) /\ m[k] # None
    BY <1>5 DEF AddLookup, Tracked
  <2>2. /\ MapIs(Rekey(m, k, h))
        /\ Rekey(m, k, h)[h] = IF m[h] = None THEN m[k] ELSE m[h]
        /\ k # h => Rekey(m, k, h)[k] = None
        /\ \A q \in Keys \ {k, h} : Rekey(m, k, h)[q] = m[q]
    <3>1. MapIs(m) /\ k \in Keys /\ h \in Keys /\ m[k] # None
      BY <1>2, <1>4, <2>1
    <3> HIDE DEF k, h, m
    <3> QED BY ONLY <3>1, RekeyIs
  <2>3. l[h] # None
    BY <2>1, <2>2
  <2>4. \A q \in Keys : q[1] # a.t => l[q] = m[q]
    BY <1>4, <2>1, <2>2
  <2> QED BY <1>1, <1>3, <1>4, <2>1, <2>2, <2>3, <2>4
<1>6. CASE ~Tracked(k) /\ Tracked(h)
  <2> DEFINE p == Promote(m, h, "Adding")
  <2>1. l = p /\ m[h] # None
    BY <1>6 DEF AddLookup, Tracked, Promote
  <2>2. MapIs(p) /\ p[h] # None /\ \A q \in Keys \ {h} : p[q] = m[q]
    <3>1. MapIs(m) /\ h \in Keys /\ m[h] # None /\ "Adding" \in {"Adding", "Current"}
      BY <1>2, <1>4, <2>1
    <3> HIDE DEF h, m
    <3>2. MapIs(p)
      BY ONLY <3>1, MapPromoted
    <3>3. p[h] # None
      BY ONLY <3>1, MapPromoted
    <3>4. \A q \in Keys \ {h} : p[q] = m[q]
      BY ONLY <3>1, PromotedBeside
    <3> QED BY <3>2, <3>3, <3>4
  <2> HIDE DEF p
  <2> QED BY <1>1, <1>3, <1>4, <1>6, <2>1, <2>2
<1>7. CASE ~Tracked(k) /\ ~Tracked(h)
  <2> DEFINE e == Entry("Adding", a.id, TRUE, lt[a.t].meta, lt[a.t].meta)
             p == [m EXCEPT ![h] = e]
  <2>1. l = p
    BY <1>7 DEF AddLookup
  <2>2. e \in Entries /\ e # None /\ e.state = "Adding"
    <3> DEFINE b == lt[a.t].meta
               i == a.id
    <3>1. b \in BOOLEAN /\ i \in Ids /\ TRUE \in BOOLEAN /\ "Adding" \in {"Adding", "Loading", "Current"}
      BY <1>1, <1>3
    <3> HIDE DEF b, i
    <3>2. e = [state |-> "Adding", id |-> i, handle |-> TRUE, announced |-> b, saved |-> b]
      BY DEF Entry, b, i
    <3> HIDE DEF e
    <3>3. e \in Entries /\ e.state = "Adding"
      BY <3>1, <3>2 DEF Entries
    <3> QED BY <3>3, NoneAssumption
  <2> HIDE DEF e
  <2>3. e \in Maybe(Entries)
    BY <2>2 DEF Maybe
  <2>4. MapIs(p) /\ p[h] = e /\ \A q \in Keys \ {h} : p[q] = m[q]
    <3> HIDE DEF h, m
    <3> QED BY <1>2, <1>4, <2>2, <2>3, MapSet
  <2> HIDE DEF p
  <2> QED BY <1>1, <1>3, <1>4, <1>7, <2>1, <2>2, <2>4
<1> QED BY <1>5, <1>6, <1>7

\* The torrent has one entry, under f, that is current; it was e before.
Settles(t, f, e) ==
    /\ m_torrents'[<<t, f>>] # None /\ m_torrents'[<<t, f>>].id = e.id
    /\ m_torrents'[<<t, f>>].state = "Current" /\ m_torrents'[<<t, f>>].handle = TRUE
    /\ \A g \in Forms \ {f} : m_torrents'[<<t, g>>] = None

\* What was told of its metadata is remembered.
Remembers(t, f, e) == m_torrents'[<<t, f>>].announced = e.announced

\* The torrent has at most the entry under f.
Alone(t, f) == \A g \in Forms \ {f} : m_torrents[<<t, g>>] = None

\* OnAddTorrentAlert finds the entry of the torrent and moves it to the hash it has now.
LEMMA HandlesAddIs ==
    ASSUME TypeInv, NEW states \in SUBSET {"Adding", "Loading", "Current"}, HandlesAdd(states),
           m_torrents' = Promoted \/ (m_torrents' = AddLookup(AlertKey, AddHash)
                                       /\ AddLookup(AlertKey, AddHash)[AddHash].state = "Current"),
           NewCalls(SaveCalls), TableIs(work'), EventsAre(events')
    PROVE  /\ TypeInv' /\ Commits /\ NewAlerts({}) /\ HandlerSame /\ pc = "alerts" /\ Items(batch') \subseteq Items(batch)
           /\ Alert \in AlertMsgs /\ Alert.type = "add" /\ Alert \in Items(Waiting) /\ Alert.t \in Torrents /\ Alert.id \in Ids
           /\ Waiting # <<>> /\ Waiting' = Tail(Waiting) /\ Alert = Head(Waiting)
           /\ Alert.form \in Forms /\ Alert.info \in Maybe(Forms) /\ lt[Alert.t] # None /\ lt[Alert.t].id = Alert.id
           /\ lt[Alert.t].form \in Forms
           /\ \A t \in Torrents : LtSame(t) /\ AskSame(t) /\ QueuesSame(t)
           /\ \A t \in Torrents \ {Alert.t} : MapSame(t)
           /\ Once(Waiting, LifeAlerts(Alert.t)) => Items(Waiting') \cap LifeAlerts(Alert.t) = {}
           /\ Tracked(AlertKey) /\ Alone(Alert.t, Alert.form) =>
                 /\ Settles(Alert.t, lt[Alert.t].form, m_torrents[AlertKey]) /\ Remembers(Alert.t, lt[Alert.t].form, m_torrents[AlertKey])
                 /\ m_torrents[AlertKey].state \in states
<1> DEFINE a == Alert
           k == AlertKey
           h == AddHash
           l == AddLookup(k, h)
<1>1. Handles("add") /\ Valid(a.t, a.id) /\ l[h].state \in states
      /\ m_dirty' = (IF Tracked(k) /\ k # h THEN MoveDirty(m_dirty, m_torrents, k, h) ELSE m_dirty)
  BY DEF HandlesAdd
<1>2. /\ NewAlerts({}) /\ a \in AlertMsgs /\ a \in Items(Waiting) /\ a.type = "add" /\ HandlerSame /\ pc = "alerts"
      /\ Items(batch') \subseteq Items(batch)
      /\ Waiting # <<>> /\ Waiting' = Tail(Waiting) /\ Alert = Head(Waiting)
      /\ \A t \in Torrents : Once(Waiting, LifeAlerts(t)) /\ a \in LifeAlerts(t) => Items(Waiting') \cap LifeAlerts(t) = {}
  BY <1>1, HandlesIs
<1>3. lt[a.t] # None /\ lt[a.t].id = a.id
  BY <1>1 DEF Valid, Live
<1>4. /\ a.t \in Torrents /\ a.id \in Ids /\ k \in Keys /\ h \in Keys /\ a.info \in Maybe(Forms)
      /\ k = <<a.t, a.form>> /\ h = <<a.t, lt[a.t].form>> /\ a.form \in Forms
      /\ h[1] = a.t /\ k[1] = a.t /\ h[2] = lt[a.t].form /\ lt[a.t].form \in Forms
      /\ MapIs(l) /\ l[h] # None
      /\ \A q \in Keys : q[1] # a.t => l[q] = m_torrents[q]
      /\ Tracked(k) /\ (h # k => m_torrents[h] = None) =>
           /\ l[h] = m_torrents[k]
           /\ \A q \in Keys \ {k, h} : l[q] = m_torrents[q]
           /\ h # k => l[k] = None
  BY <1>2, <1>3, LookupIs
<1>5. a \in LifeAlerts(a.t)
  BY <1>2 DEF LifeAlerts
<1> DEFINE p == Promote(l, h, "Current")
           m == m_torrents'
<1>6. m = p \/ (m = l /\ l[h].state = "Current")
  BY DEF Promoted, Promote
<1> HIDE DEF l, k, h, a
<1>7. /\ MapIs(p) /\ \A q \in Keys \ {h} : p[q] = l[q]
      /\ p[h] # None /\ p[h].id = l[h].id /\ p[h].state = "Current"
      /\ p[h].handle = TRUE /\ p[h].announced = l[h].announced
  <2>1. MapIs(l) /\ h \in Keys /\ l[h] # None /\ "Current" \in {"Adding", "Current"}
    BY <1>4
  <2>2. MapIs(p) /\ p[h] # None
    BY ONLY <2>1, MapPromoted
  <2>3. \A q \in Keys \ {h} : p[q] = l[q]
    BY ONLY <2>1, PromotedBeside
  <2>4. p[h].id = l[h].id /\ p[h].state = "Current"
    BY ONLY <2>1, MapPromoted
  <2>5. p[h].handle = TRUE /\ p[h].announced = l[h].announced
    BY ONLY <2>1, MapPromoted
  <2> QED BY <2>2, <2>3, <2>4, <2>5
<1>8. l[h].state = "Current" => l[h].handle = TRUE
  <2>1. l[h].handle \in BOOLEAN /\ (l[h].state = "Current" => l[h].handle)
    BY <1>4, EntryFields
  <2> QED BY <2>1
<1> HIDE DEF p, m
<1>9. /\ MapIs(m) /\ \A q \in Keys \ {h} : m[q] = l[q]
      /\ m[h] # None /\ m[h].id = l[h].id /\ m[h].state = "Current" /\ m[h].handle = TRUE
      /\ m[h].announced = l[h].announced
  BY <1>4, <1>6, <1>7, <1>8
<1>10. DirtyIs(m_dirty')
  <2>1. DirtyIs(m_dirty)
    BY DEF TypeInv
  <2>2. DirtyIs(MoveDirty(m_dirty, m_torrents, k, h))
    BY <1>4, <2>1, MovedDirtyIs
  <2> QED BY <1>1, <2>1, <2>2
<1>11. TypeInv' /\ Commits /\ \A t \in Torrents : LtSame(t) /\ AskSame(t)
  <2>1. calls' \in Seq(CallMsgs) /\ MapIs(m_torrents')
    BY <1>9 DEF NewCalls, m
  <2> QED BY <1>2, <1>10, <2>1, HandlerBeside
<1>12. \A t \in Torrents : QueuesSame(t)
  BY <1>2, NothingNew, PlainQueues
<1>13. \A t \in Torrents \ {a.t} : MapSame(t)
  <2>1. \A q \in Keys : q[1] # a.t => m_torrents'[q] = m_torrents[q]
    BY <1>4, <1>9 DEF m
  <2> QED BY <1>4, <2>1, MapOf
<1>14. ASSUME Tracked(k), Alone(a.t, a.form)
       PROVE  /\ Settles(a.t, lt[a.t].form, m_torrents[k]) /\ Remembers(a.t, lt[a.t].form, m_torrents[k])
              /\ m_torrents[k].state \in states
  <2>1. h # k => m_torrents[h] = None
    BY <1>4, <1>14 DEF Alone
  <2>2. /\ l[h] = m_torrents[k] /\ \A q \in Keys \ {k, h} : l[q] = m_torrents[q]
        /\ h # k => l[k] = None
    BY <1>4, <1>14, <2>1
  <2>3. ASSUME NEW g \in Forms \ {lt[a.t].form} PROVE m[<<a.t, g>>] = None
    <3>1. <<a.t, g>> \in Keys /\ <<a.t, g>> # h
      BY <1>4, KeyParts
    <3>2. CASE <<a.t, g>> = k
      BY <1>9, <2>2, <3>1, <3>2
    <3>3. CASE <<a.t, g>> # k
      <4>1. g # a.form
        BY <1>4, <3>3
      <4>2. m_torrents[<<a.t, g>>] = None
        BY <1>14, <4>1 DEF Alone
      <4> QED BY <1>9, <2>2, <3>1, <3>3, <4>2
    <3> QED BY <3>2, <3>3
  <2>4. Settles(a.t, lt[a.t].form, m_torrents[k]) /\ Remembers(a.t, lt[a.t].form, m_torrents[k])
    BY <1>4, <1>9, <2>2, <2>3 DEF Settles, Remembers, m
  <2>5. m_torrents[k].state \in states
    BY <1>1, <2>2
  <2> QED BY <2>4, <2>5
<1> QED BY <1>2, <1>3, <1>4, <1>5, <1>11, <1>12, <1>13, <1>14 DEF a, k

\* A loaded torrent is promoted.
LEMMA OnAddKnownEffect ==
    ASSUME TypeInv, OnAddKnown
    PROVE  /\ TypeInv' /\ Commits /\ NewAlerts({}) /\ NewCalls(SaveCalls) /\ HandlerSame /\ pc = "alerts" /\ Items(batch') \subseteq Items(batch)
           /\ Alert \in AlertMsgs /\ Alert.type = "add" /\ Alert \in Items(Waiting) /\ Alert.t \in Torrents /\ Alert.id \in Ids
           /\ Alert.form \in Forms /\ lt[Alert.t] # None /\ lt[Alert.t].id = Alert.id /\ lt[Alert.t].form \in Forms
           /\ \A t \in Torrents : LtSame(t) /\ AskSame(t) /\ QueuesSame(t) /\ RowSame(t) /\ EventsSame(t)
           /\ \A t \in Torrents \ {Alert.t} : Same(t)
           /\ Once(Waiting, LifeAlerts(Alert.t)) => Items(Waiting') \cap LifeAlerts(Alert.t) = {}
           /\ Tracked(AlertKey) /\ Alone(Alert.t, Alert.form) =>
                 /\ Settles(Alert.t, lt[Alert.t].form, m_torrents[AlertKey]) /\ Remembers(Alert.t, lt[Alert.t].form, m_torrents[AlertKey])
                 /\ m_torrents[AlertKey].state \in {"Loading", "Current"}
<1> DEFINE S == {"Loading", "Current"}
<1>0. UNCHANGED <<calls, events, work>>
  BY DEF OnAddKnown
<1>1. /\ HandlesAdd(S)
      /\ m_torrents' = Promoted \/ (m_torrents' = AddLookup(AlertKey, AddHash)
                                       /\ AddLookup(AlertKey, AddHash)[AddHash].state = "Current")
  BY DEF OnAddKnown
<1>2. QueuesAre /\ TableIs(work) /\ EventsAre(events) /\ S \in SUBSET {"Adding", "Loading", "Current"}
  BY DEF TypeInv
<1>3. NewCalls(SaveCalls) /\ TableIs(work') /\ EventsAre(events')
  BY <1>0, <1>2, SavesKept
<1>4. \A t \in Torrents : RowSame(t) /\ EventsSame(t)
  BY <1>0, RowBeside, EventsBeside
<1> HIDE DEF S
<1>5. /\ TypeInv' /\ Commits /\ NewAlerts({}) /\ HandlerSame /\ pc = "alerts" /\ Items(batch') \subseteq Items(batch)
      /\ Alert \in AlertMsgs /\ Alert.type = "add" /\ Alert \in Items(Waiting) /\ Alert.t \in Torrents /\ Alert.id \in Ids
      /\ Alert.form \in Forms /\ lt[Alert.t] # None /\ lt[Alert.t].id = Alert.id /\ lt[Alert.t].form \in Forms
      /\ \A t \in Torrents : LtSame(t) /\ AskSame(t) /\ QueuesSame(t)
      /\ \A t \in Torrents \ {Alert.t} : MapSame(t)
      /\ Once(Waiting, LifeAlerts(Alert.t)) => Items(Waiting') \cap LifeAlerts(Alert.t) = {}
      /\ Tracked(AlertKey) /\ Alone(Alert.t, Alert.form) =>
            /\ Settles(Alert.t, lt[Alert.t].form, m_torrents[AlertKey]) /\ Remembers(Alert.t, lt[Alert.t].form, m_torrents[AlertKey])
            /\ m_torrents[AlertKey].state \in S
  BY <1>1, <1>2, <1>3, HandlesAddIs
<1> QED BY <1>3, <1>4, <1>5 DEF Same, S

\* A new torrent is promoted, stored and announced.
LEMMA OnAddNewEffect ==
    ASSUME TypeInv, OnAddNew
    PROVE  /\ TypeInv' /\ Commits /\ NewAlerts({}) /\ NewCalls(SaveCalls) /\ HandlerSame /\ pc = "alerts" /\ Items(batch') \subseteq Items(batch)
           /\ Alert \in AlertMsgs /\ Alert.type = "add" /\ Alert \in Items(Waiting) /\ Alert.t \in Torrents /\ Alert.id \in Ids
           /\ Alert.form \in Forms /\ lt[Alert.t] # None /\ lt[Alert.t].id = Alert.id /\ lt[Alert.t].form \in Forms
           /\ \A t \in Torrents : LtSame(t) /\ AskSame(t) /\ QueuesSame(t)
           /\ \A t \in Torrents \ {Alert.t} : Same(t)
           /\ Once(Waiting, LifeAlerts(Alert.t)) => Items(Waiting') \cap LifeAlerts(Alert.t) = {}
           /\ Tracked(AlertKey) /\ Alone(Alert.t, Alert.form) =>
                 /\ Settles(Alert.t, lt[Alert.t].form, m_torrents[AlertKey]) /\ Remembers(Alert.t, lt[Alert.t].form, m_torrents[AlertKey])
                 /\ m_torrents[AlertKey].state = "Adding"
           /\ work'[Alert.t] # None
           /\ work'[Alert.t].form = IF work[Alert.t] = None THEN lt[Alert.t].form ELSE work[Alert.t].form
           /\ Publish("added", Alert.t, Alert.id)
<1> DEFINE S == {"Adding"}
           a == Alert
<1>1. /\ HandlesAdd(S) /\ m_torrents' = Promoted
      /\ work' = InsertRow(work, a.t, AddHash[2], None, lt[a.t].pos, a.info)
      /\ calls' = Append(calls, Save(a.t, a.id, TRUE, TRUE))
      /\ Publish("added", a.t, a.id)
  BY DEF OnAddNew
<1>2. QueuesAre /\ TableIs(work) /\ EventsAre(events) /\ S \in SUBSET {"Adding", "Loading", "Current"} /\ LtIs(lt)
  BY DEF TypeInv
<1>3. Handles("add") /\ lt[a.t] # None
  BY <1>1 DEF HandlesAdd, Valid, Live
<1>4. a \in AlertMsgs /\ a.type = "add"
  BY <1>3, HandlesIs
<1>5. a.t \in Torrents /\ a.id \in Ids /\ a.info \in Maybe(Forms) /\ AddHash[2] = lt[a.t].form
  BY <1>3, <1>4, LookupIs
<1>6. lt[a.t].form \in Forms /\ lt[a.t].pos \in 0..MaxChanges
  BY <1>2, <1>3, <1>5, LtFields
<1>7. NewCalls(SaveCalls)
  BY <1>1, <1>2, <1>5, SavePosted
<1>8. EventsAre(events') /\ \A t \in Torrents \ {a.t} : EventsSame(t)
  <2>1. "added" \in EventNames
    BY DEF EventNames
  <2> QED BY <1>1, <1>2, <1>5, <2>1, NewsOf
<1>9. /\ TableIs(work') /\ \A u \in Torrents \ {a.t} : work'[u] = work[u]
      /\ work'[a.t] # None /\ work'[a.t].form = IF work[a.t] = None THEN lt[a.t].form ELSE work[a.t].form
  <2> DEFINE f == lt[a.t].form
             n == lt[a.t].pos
             i == a.info
             u == a.t
             w == work
             x == InsertRow(w, u, f, None, n, i)
  <2>1. f \in Forms /\ n \in 0..MaxChanges /\ i \in Maybe(Forms) /\ u \in Torrents /\ TableIs(w) /\ None \in Maybe(0..MaxChanges)
    BY <1>2, <1>5, <1>6 DEF Maybe
  <2>2. work' = x
    BY <1>1, <1>5
  <2> HIDE DEF f, n, i, u, w
  <2>3. TableIs(x) /\ (\A v \in Torrents \ {u} : x[v] = w[v]) /\ x[u] # None
    BY ONLY <2>1, InsertIs
  <2>4. x[u].form = IF w[u] = None THEN f ELSE w[u].form
    BY ONLY <2>1, InsertIs
  <2> HIDE DEF x
  <2> QED BY <2>2, <2>3, <2>4 DEF u, w, f
<1>10. \A t \in Torrents \ {a.t} : RowSame(t)
  BY <1>9 DEF RowSame
<1> HIDE DEF S
<1>11. /\ TypeInv' /\ Commits /\ NewAlerts({}) /\ HandlerSame /\ pc = "alerts" /\ Items(batch') \subseteq Items(batch)
       /\ Alert \in AlertMsgs /\ Alert.type = "add" /\ Alert \in Items(Waiting) /\ Alert.t \in Torrents /\ Alert.id \in Ids
       /\ Alert.form \in Forms /\ lt[Alert.t] # None /\ lt[Alert.t].id = Alert.id /\ lt[Alert.t].form \in Forms
       /\ \A t \in Torrents : LtSame(t) /\ AskSame(t) /\ QueuesSame(t)
       /\ \A t \in Torrents \ {Alert.t} : MapSame(t)
       /\ Once(Waiting, LifeAlerts(Alert.t)) => Items(Waiting') \cap LifeAlerts(Alert.t) = {}
       /\ Tracked(AlertKey) /\ Alone(Alert.t, Alert.form) =>
             /\ Settles(Alert.t, lt[Alert.t].form, m_torrents[AlertKey]) /\ Remembers(Alert.t, lt[Alert.t].form, m_torrents[AlertKey])
             /\ m_torrents[AlertKey].state \in S
  BY <1>1, <1>2, <1>7, <1>8, <1>9, HandlesAddIs
<1>12. \A t \in Torrents \ {Alert.t} : Same(t)
  <2> SUFFICES ASSUME NEW t \in Torrents \ {Alert.t} PROVE Same(t)
    OBVIOUS
  <2>1. RowSame(t) /\ EventsSame(t)
    BY <1>8, <1>10
  <2>2. LtSame(t) /\ AskSame(t) /\ QueuesSame(t) /\ MapSame(t)
    BY <1>11
  <2> QED BY ONLY <2>1, <2>2 DEF Same
<1>13. Publish("added", Alert.t, Alert.id)
  BY <1>1
<1>14. \A x : x \in S => x = "Adding"
  BY DEF S
<1>15. work'[Alert.t] # None /\ work'[Alert.t].form = IF work[Alert.t] = None THEN lt[Alert.t].form ELSE work[Alert.t].form
  BY <1>9
<1>16. Tracked(AlertKey) /\ Alone(Alert.t, Alert.form) =>
            /\ Settles(Alert.t, lt[Alert.t].form, m_torrents[AlertKey]) /\ Remembers(Alert.t, lt[Alert.t].form, m_torrents[AlertKey])
            /\ m_torrents[AlertKey].state = "Adding"
  BY <1>11, <1>14
<1> HIDE DEF a
<1> QED BY ONLY <1>7, <1>11, <1>12, <1>13, <1>15, <1>16

-----------------------------------------------------------------------------
(* The invariant, one torrent at a time                                      *)

\* No removal of t was asked for.
Calm(t) == \A id \in Ids : <<t, id>> \notin removing

\* The SaveState job untracks a torrent whose removal alert is still waiting.  What
\* is said below holds of a torrent to which this does not happen, or that was not
\* added again since.
Settled(t) == "saveState" \notin Ops \/ Calm(t)
Safe(t) == Settled(t) \/ adds[t] <= 1

\* An entry whose torrent libtorrent has not answered for yet.
Fresh(t, f) == Tracked(<<t, f>>) /\ ~Current(<<t, f>>)

\* The one entry of t is of its last add; it outlives the torrent, and a current
\* entry without its torrent is one whose removal was asked for.
EntryOf(t) ==
    /\ \A f, g \in Forms : Tracked(<<t, f>>) /\ Tracked(<<t, g>>) => f = g
    /\ \A f \in Forms : Tracked(<<t, f>>) => /\ m_torrents[<<t, f>>].id = adds[t]
                                             /\ m_torrents[<<t, f>>].handle => Current(<<t, f>>)
    /\ Live(t) => /\ lt[t].id = adds[t]
                  /\ \E f \in Forms : Tracked(<<t, f>>) /\ (f = "half" \/ lt[t].form = "full")
    /\ <<t, adds[t]>> \in removing => \A f \in Forms : ~Fresh(t, f)
    /\ ~Live(t) => \A f \in Forms : Current(<<t, f>>) => <<t, adds[t]>> \in removing
    /\ \A id \in Ids : <<t, id>> \in removing => id <= adds[t]

\* An add on its way is the first thing libtorrent hears of t.
CallsOf(t) ==
    /\ Once(calls, AddCalls(t))
    /\ \A c \in Items(calls) \cap AddCalls(t) :
          /\ ~Live(t) /\ c.id = adds[t] /\ Fresh(t, c.form)
          /\ Items(Waiting) \cap LifeAlerts(t) = {}

\* The alert of the beginning or of the end of t that waits is of its last add.
AlertsOf(t) ==
    /\ Once(Waiting, LifeAlerts(t))
    /\ \A a \in Items(Waiting) \cap LifeAlerts(t) :
          /\ a.id = adds[t]
          /\ a.type = "add" => Live(t) /\ Fresh(t, a.form)
          /\ a.type = "addFailed" => ~Live(t) /\ Fresh(t, a.form)
          /\ a.type = "removed" => ~Live(t) /\ <<t, adds[t]>> \in removing

\* Nothing is said any more of a torrent without an entry.
UntrackedOf(t) ==
    Settled(t) /\ (\A f \in Forms : ~Tracked(<<t, f>>)) => Items(Waiting) \cap LifeAlerts(t) = {}

LifeOf(t) == EntryOf(t) /\ CallsOf(t) /\ AlertsOf(t) /\ UntrackedOf(t)

\* The row of an entry that was loaded or announced; a full row is of a full entry.
StoredOf(t) ==
    /\ \A f \in Forms : Tracked(<<t, f>>) /\ m_torrents[<<t, f>>].state # "Adding" /\ <<t, adds[t]>> \notin removing
          => Matches(work[t], f)
    /\ work[t] # None /\ work[t].form = "full" => Current(<<t, "full">>)

\* The events of the adds of t, and of its entry.
EventsOf(t) ==
    /\ \A id \in Ids : id > adds[t] => /\ events[<<"added", t, id>>] = 0 /\ events[<<"removed", t, id>>] = 0
                                       /\ <<t, id>> \notin loadedIds
    /\ \A id \in Ids : /\ events[<<"added", t, id>>] <= IF <<t, id>> \in loadedIds THEN 0 ELSE 1
                       /\ events[<<"removed", t, id>>] <=
                              IF <<t, id>> \in removing /\ (<<t, id>> \in loadedIds \/ events[<<"added", t, id>>] = 1)
                              THEN 1 ELSE 0
    /\ \A f \in Forms : Tracked(<<t, f>>) =>
          /\ events[<<"removed", t, adds[t]>>] = 0
          /\ m_torrents[<<t, f>>].state = "Adding" => events[<<"added", t, adds[t]>>] = 0 /\ <<t, adds[t]>> \notin loadedIds
          /\ m_torrents[<<t, f>>].state = "Loading" => <<t, adds[t]>> \in loadedIds
          /\ Current(<<t, f>>) => <<t, adds[t]>> \in loadedIds \/ events[<<"added", t, adds[t]>>] = 1

Good(t) == LifeOf(t) /\ EventsOf(t) /\ ("full" \notin StoredForms => StoredOf(t))

\* A step keeps the row of a torrent whose removal was not asked for.
KeepsRow(t) == Calm(t) /\ work[t] # None => work'[t] # None

-----------------------------------------------------------------------------
(* What may happen to one torrent                                            *)

\* An entry that stays is tracked as before.
LEMMA EntrySame ==
    ASSUME NEW t \in Torrents, MapSame(t), NEW f \in Forms
    PROVE  /\ Tracked(<<t, f>>)' <=> Tracked(<<t, f>>)
           /\ Current(<<t, f>>)' <=> Current(<<t, f>>)
           /\ Fresh(t, f)' <=> Fresh(t, f)
           /\ Tracked(<<t, f>>) => /\ m_torrents'[<<t, f>>].id = m_torrents[<<t, f>>].id
                                   /\ m_torrents'[<<t, f>>].state = m_torrents[<<t, f>>].state
                                   /\ m_torrents'[<<t, f>>].handle = m_torrents[<<t, f>>].handle
<1>1. SameEntry(m_torrents[<<t, f>>], m_torrents'[<<t, f>>])
  BY DEF MapSame
<1> QED BY <1>1 DEF SameEntry, Tracked, Current, Fresh

\* What was asked for stays asked for.
LEMMA AskKept ==
    ASSUME NEW t \in Torrents, AskSame(t)
    PROVE  /\ Calm(t)' <=> Calm(t)
           /\ Settled(t)' <=> Settled(t)
           /\ Safe(t)' <=> Safe(t)
           /\ <<t, adds'[t]>> \in removing' <=> <<t, adds[t]>> \in removing
<1>1. adds'[t] = adds[t] /\ \A id : <<t, id>> \in removing' <=> <<t, id>> \in removing
  BY DEF AskSame
<1>2. Calm(t)' <=> Calm(t)
  BY <1>1 DEF Calm
<1>3. Settled(t)' <=> Settled(t)
  BY <1>2 DEF Settled
<1>4. Safe(t)' <=> Safe(t)
  BY <1>1, <1>3 DEF Safe
<1>5. <<t, adds'[t]>> \in removing' <=> <<t, adds[t]>> \in removing
  BY <1>1
<1> QED BY <1>2, <1>3, <1>4, <1>5

\* Nothing happens to it, but for its hash, its configuration and its row's contents.
LEMMA LifeSame ==
    ASSUME NEW t \in Torrents, LtSame(t), MapSame(t), AskSame(t), QueuesSame(t), LifeOf(t)
    PROVE  LifeOf(t)'
<1>1. /\ adds'[t] = adds[t] /\ (Settled(t)' <=> Settled(t))
      /\ \A id : <<t, id>> \in removing' <=> <<t, id>> \in removing
  <2>1. Settled(t)' <=> Settled(t)
    BY AskKept
  <2> QED BY <2>1 DEF AskSame
<1>2. ASSUME NEW f \in Forms
      PROVE  /\ Tracked(<<t, f>>)' <=> Tracked(<<t, f>>)
             /\ Current(<<t, f>>)' <=> Current(<<t, f>>)
             /\ Fresh(t, f)' <=> Fresh(t, f)
             /\ Tracked(<<t, f>>) => /\ m_torrents'[<<t, f>>].id = m_torrents[<<t, f>>].id
                                     /\ m_torrents'[<<t, f>>].handle = m_torrents[<<t, f>>].handle
  BY EntrySame
<1>3. (Live(t)' <=> Live(t)) /\ (Live(t) => lt'[t].id = lt[t].id /\ lt'[t].form \in {lt[t].form, "full"})
  BY DEF LtSame, Live
<1>4. EntryOf(t) /\ CallsOf(t) /\ AlertsOf(t) /\ UntrackedOf(t)
  BY DEF LifeOf
<1>5. EntryOf(t)'
  BY <1>1, <1>2, <1>3, <1>4 DEF EntryOf
<1>6. /\ \A c \in Items(calls') \cap AddCalls(t) : c \in Items(calls) /\ c \in AddCalls(t)
      /\ \A c \in Items(Waiting') \cap LifeAlerts(t) : c \in Items(Waiting) /\ c \in LifeAlerts(t)
      /\ Once(calls', AddCalls(t)) /\ Once(Waiting', LifeAlerts(t))
  BY <1>4 DEF QueuesSame, CallsOf, AlertsOf
<1>7. \A c \in AddCalls(t) : c.form \in Forms
  BY CallFields DEF AddCalls
<1>8. \A a \in LifeAlerts(t) : a.form \in Forms
  BY AlertFields DEF LifeAlerts
<1>9. CallsOf(t)'
  BY <1>1, <1>2, <1>3, <1>4, <1>6, <1>7 DEF CallsOf
<1>10. AlertsOf(t)'
  BY <1>1, <1>2, <1>3, <1>4, <1>6, <1>8 DEF AlertsOf
<1>11. UntrackedOf(t)'
  BY <1>1, <1>2, <1>4, <1>6 DEF UntrackedOf
<1> QED BY <1>5, <1>9, <1>10, <1>11 DEF LifeOf

\* A row that stays matches as before.
LEMMA StoredSame ==
    ASSUME NEW t \in Torrents, MapSame(t), AskSame(t), RowSame(t), StoredOf(t)
    PROVE  StoredOf(t)'
<1>1. /\ adds'[t] = adds[t] /\ \A id : <<t, id>> \in removing' <=> <<t, id>> \in removing
  BY DEF AskSame
<1>2. ASSUME NEW f \in Forms
      PROVE  /\ Tracked(<<t, f>>)' <=> Tracked(<<t, f>>)
             /\ Current(<<t, f>>)' <=> Current(<<t, f>>)
             /\ Tracked(<<t, f>>) => m_torrents'[<<t, f>>].state = m_torrents[<<t, f>>].state
  BY EntrySame
<1>3. \A f \in Forms : Matches(work[t], f) => Matches(work'[t], f)
  BY DEF RowSame, Matches
<1> QED BY <1>1, <1>2, <1>3, FormsAre DEF StoredOf, RowSame

\* Events that were not published stay matched.
LEMMA EventsOfSame ==
    ASSUME NEW t \in Torrents, MapSame(t), AskSame(t), EventsSame(t), EventsOf(t), EntryOf(t), TypeInv
    PROVE  EventsOf(t)'
<1>1. /\ adds'[t] = adds[t] /\ \A id : /\ <<t, id>> \in removing' <=> <<t, id>> \in removing
                                       /\ <<t, id>> \in loadedIds' <=> <<t, id>> \in loadedIds
  BY DEF AskSame
<1>2. ASSUME NEW f \in Forms
      PROVE  /\ Tracked(<<t, f>>)' <=> Tracked(<<t, f>>)
             /\ Current(<<t, f>>)' <=> Current(<<t, f>>)
             /\ Tracked(<<t, f>>) => m_torrents'[<<t, f>>].state = m_torrents[<<t, f>>].state
  BY EntrySame
<1>3. \A f \in Forms : Tracked(<<t, f>>) => adds[t] \in Ids
  <2> SUFFICES ASSUME NEW f \in Forms, Tracked(<<t, f>>) PROVE adds[t] \in Ids
    OBVIOUS
  <2>1. m_torrents[<<t, f>>].id \in Ids
    BY EntryFields, KeyParts DEF TypeInv, Tracked
  <2> QED BY <2>1 DEF EntryOf
<1>4. \A id \in Ids : /\ events'[<<"added", t, id>>] = events[<<"added", t, id>>]
                      /\ events'[<<"removed", t, id>>] = events[<<"removed", t, id>>]
  BY DEF EventsSame
<1> QED BY <1>1, <1>2, <1>3, <1>4 DEF EventsOf

\* Nothing happens to it.
LEMMA GoodSame ==
    ASSUME TypeInv, NEW t \in Torrents, Same(t), Good(t)
    PROVE  Good(t)' /\ KeepsRow(t)
<1>1. LifeOf(t)'
  BY LifeSame DEF Same, Good
<1>2. EventsOf(t)'
  BY EventsOfSame DEF Same, Good, LifeOf
<1>3. "full" \notin StoredForms => StoredOf(t)'
  BY StoredSame DEF Same, Good
<1>4. KeepsRow(t)
  BY DEF Same, RowSame, KeepsRow
<1> QED BY <1>1, <1>2, <1>3, <1>4 DEF Good

-----------------------------------------------------------------------------
\* One event of the last add of t.
News(t, name) ==
    \A id \in Ids : /\ events'[<<"added", t, id>>] = events[<<"added", t, id>>] + (IF name = "added" /\ id = adds[t] THEN 1 ELSE 0)
                    /\ events'[<<"removed", t, id>>] = events[<<"removed", t, id>>] + (IF name = "removed" /\ id = adds[t] THEN 1 ELSE 0)

\* The row is inserted if there is none.
Inserted(t) ==
    /\ work'[t] # None
    /\ work'[t].form = IF work[t] = None THEN lt[t].form ELSE work[t].form

\* The entry of a torrent libtorrent has becomes current, under the hash it has now.
Settling(t) ==
    /\ AskSame(t) /\ QueuesSame(t) /\ lt[t] # None /\ lt'[t] = lt[t]
    /\ Items(Waiting') \cap LifeAlerts(t) = {}
    /\ \E f \in Forms :
          /\ Tracked(<<t, f>>) /\ Settles(t, lt[t].form, m_torrents[<<t, f>>])
          /\ \/ m_torrents[<<t, f>>].state # "Adding" /\ RowSame(t) /\ EventsSame(t)
             \/ m_torrents[<<t, f>>].state = "Adding" /\ Inserted(t) /\ News(t, "added")

\* An add alert, or a reconcile, makes the entry current.
LEMMA GoodSettling ==
    ASSUME TypeInv, NEW t \in Torrents, Settling(t), Good(t)
    PROVE  Good(t)' /\ KeepsRow(t)
<1>1. PICK f \in Forms :
          /\ Tracked(<<t, f>>) /\ Settles(t, lt[t].form, m_torrents[<<t, f>>])
          /\ \/ m_torrents[<<t, f>>].state # "Adding" /\ RowSame(t) /\ EventsSame(t)
             \/ m_torrents[<<t, f>>].state = "Adding" /\ Inserted(t) /\ News(t, "added")
  BY DEF Settling
<1>2. /\ AskSame(t) /\ QueuesSame(t) /\ lt[t] # None /\ lt'[t] = lt[t]
      /\ Items(Waiting') \cap LifeAlerts(t) = {}
  BY DEF Settling
<1>3. EntryOf(t) /\ CallsOf(t) /\ AlertsOf(t) /\ UntrackedOf(t) /\ EventsOf(t)
  BY DEF Good, LifeOf
<1>4. /\ adds'[t] = adds[t]
      /\ \A id : /\ <<t, id>> \in removing' <=> <<t, id>> \in removing
                 /\ <<t, id>> \in loadedIds' <=> <<t, id>> \in loadedIds
  BY <1>2 DEF AskSame
<1>5. PICK h \in Forms : h = lt[t].form
  BY <1>2, LtFields DEF TypeInv
<1>6. m_torrents[<<t, f>>].id = adds[t] /\ adds[t] \in Ids /\ (f = "half" \/ h = "full") /\ lt[t].id = adds[t]
  <2>1. m_torrents[<<t, f>>].id \in Ids
    BY <1>1, EntryFields, KeyParts DEF TypeInv, Tracked
  <2> QED BY <1>1, <1>2, <1>3, <1>5, <2>1 DEF EntryOf, Live
<1>7. /\ Tracked(<<t, h>>)' /\ Current(<<t, h>>)' /\ m_torrents'[<<t, h>>].id = adds[t] /\ m_torrents'[<<t, h>>].state = "Current"
      /\ \A g \in Forms \ {h} : ~Tracked(<<t, g>>)'
  BY <1>1, <1>5, <1>6 DEF Settles, Tracked, Current
<1>8. EntryOf(t)'
  <2>1. \A g \in Forms : Tracked(<<t, g>>)' => g = h
    BY <1>7
  <2>2. Live(t)' /\ Live(t)
    BY <1>2 DEF Live
  <2>3. \A g \in Forms : ~Fresh(t, g)'
    BY <1>7, <2>1 DEF Fresh
  <2>4. lt'[t].id = adds'[t] /\ \E g \in Forms : Tracked(<<t, g>>)' /\ (g = "half" \/ lt'[t].form = "full")
    <3>1. h = "half" \/ lt'[t].form = "full"
      BY <1>2, <1>5, FormsAre
    <3> QED BY <1>2, <1>4, <1>5, <1>6, <1>7, <3>1
  <2>5. \A id \in Ids : <<t, id>> \in removing' => id <= adds'[t]
    BY <1>3, <1>4 DEF EntryOf
  <2> QED BY <1>4, <1>5, <1>7, <2>1, <2>2, <2>3, <2>4, <2>5 DEF EntryOf
<1>9. CallsOf(t)'
  BY <1>2, <1>3 DEF CallsOf, QueuesSame, Live
<1>10. AlertsOf(t)'
  BY <1>2, <1>3 DEF AlertsOf, QueuesSame
<1>11. UntrackedOf(t)'
  BY <1>2 DEF UntrackedOf
<1>12. EventsOf(t)'
  <2>1. \A g \in Forms : Tracked(<<t, g>>)' => g = h
    BY <1>7
  <2>2. \A id \in Ids : events[<<"added", t, id>>] \in Nat /\ events[<<"removed", t, id>>] \in Nat
    BY DEF TypeInv, EventsAre, EventNames
  <2>3. adds[t] \in Nat
    BY <1>6, IdsAre
  <2>4. CASE m_torrents[<<t, f>>].state # "Adding" /\ RowSame(t) /\ EventsSame(t)
    <3>1. \A id \in Ids : /\ events'[<<"added", t, id>>] = events[<<"added", t, id>>]
                          /\ events'[<<"removed", t, id>>] = events[<<"removed", t, id>>]
      BY <2>4 DEF EventsSame
    <3>2. events[<<"removed", t, adds[t]>>] = 0 /\ (<<t, adds[t]>> \in loadedIds \/ events[<<"added", t, adds[t]>>] = 1)
      <4>1. m_torrents[<<t, f>>].state \in {"Loading", "Current"}
        BY <1>1, <2>4, EntryFields, KeyParts DEF TypeInv, Tracked
      <4> QED BY <1>1, <1>3, <4>1 DEF EventsOf, Current
    <3> QED BY <1>3, <1>4, <1>6, <1>7, <2>1, <3>1, <3>2 DEF EventsOf
  <2>5. CASE m_torrents[<<t, f>>].state = "Adding" /\ Inserted(t) /\ News(t, "added")
    <3>1. events[<<"removed", t, adds[t]>>] = 0 /\ <<t, adds[t]>> \notin loadedIds /\ events[<<"added", t, adds[t]>>] = 0
      BY <1>1, <1>3, <2>5 DEF EventsOf
    <3>2. \A id \in Ids : /\ events'[<<"removed", t, id>>] = events[<<"removed", t, id>>]
                          /\ id # adds[t] => events'[<<"added", t, id>>] = events[<<"added", t, id>>]
      BY <2>2, <2>5 DEF News
    <3>3. events'[<<"added", t, adds[t]>>] = 1
      BY <1>6, <2>5, <3>1 DEF News
    <3>4. \A id \in Ids : id > adds[t] => id # adds[t]
      BY <2>3, IdsAre
    <3>5. \A id \in Ids : id > adds'[t] => /\ events'[<<"added", t, id>>] = 0 /\ events'[<<"removed", t, id>>] = 0
                                          /\ <<t, id>> \notin loadedIds'
      BY <1>3, <1>4, <3>2, <3>4 DEF EventsOf
    <3>6. \A id \in Ids : /\ events'[<<"added", t, id>>] <= IF <<t, id>> \in loadedIds' THEN 0 ELSE 1
                          /\ events'[<<"removed", t, id>>] <=
                              IF <<t, id>> \in removing' /\ (<<t, id>> \in loadedIds' \/ events'[<<"added", t, id>>] = 1)
                              THEN 1 ELSE 0
      BY <1>3, <1>4, <3>1, <3>2, <3>3 DEF EventsOf
    <3> QED BY <1>4, <1>7, <2>1, <3>1, <3>2, <3>3, <3>5, <3>6, <1>6 DEF EventsOf
  <2> QED BY <1>1, <2>4, <2>5
<1>13. "full" \notin StoredForms => StoredOf(t)'
  <2> SUFFICES ASSUME "full" \notin StoredForms PROVE StoredOf(t)'
    OBVIOUS
  <2>1. StoredOf(t)
    BY DEF Good
  <2>2. \A g \in Forms : Tracked(<<t, g>>) => g = f
    BY <1>1, <1>3 DEF EntryOf
  <2>3. \A g \in Forms : Tracked(<<t, g>>)' => g = h
    BY <1>7
  <2>4. work[t] # None /\ work[t].form = "full" => h = "full"
    <3> SUFFICES ASSUME work[t] # None, work[t].form = "full" PROVE h = "full"
      OBVIOUS
    <3>1. Tracked(<<t, "full">>)
      BY <2>1 DEF StoredOf, Current
    <3> QED BY <1>6, <2>2, <3>1, FormsAre
  <2>5. work[t] # None => work[t].form \in Forms
    BY RowFields DEF TypeInv
  <2>6. CASE m_torrents[<<t, f>>].state # "Adding" /\ RowSame(t)
    <3>1. <<t, adds[t]>> \notin removing => Matches(work[t], f)
      BY <1>1, <2>1, <2>6 DEF StoredOf
    <3>2. <<t, adds'[t]>> \notin removing' => Matches(work'[t], h)
      BY <1>4, <2>4, <2>5, <2>6, <3>1, FormsAre DEF RowSame, Matches
    <3>3. work'[t] # None /\ work'[t].form = "full" => Current(<<t, "full">>)'
      BY <1>7, <2>4, <2>6 DEF RowSame
    <3> QED BY <2>3, <3>2, <3>3 DEF StoredOf
  <2>7. CASE Inserted(t)
    <3>1. Matches(work'[t], h)
      BY <1>5, <2>4, <2>5, <2>7, FormsAre DEF Inserted, Matches
    <3>2. work'[t].form = "full" => h = "full"
      BY <1>5, <2>4, <2>7 DEF Inserted
    <3>3. work'[t] # None /\ work'[t].form = "full" => Current(<<t, "full">>)'
      BY <1>7, <3>2
    <3> QED BY <2>3, <3>1, <3>3 DEF StoredOf
  <2> QED BY <1>1, <2>6, <2>7
<1>14. KeepsRow(t)
  BY <1>1 DEF KeepsRow, RowSame, Inserted
<1> QED BY <1>8, <1>9, <1>10, <1>11, <1>12, <1>13, <1>14 DEF Good, LifeOf

\* The entry of a torrent that libtorrent does not have goes, or stays.
Fewer(t) ==
    /\ AskSame(t) /\ QueuesSame(t) /\ lt[t] = None /\ lt'[t] = None
    /\ Items(calls') \cap AddCalls(t) = {}
    /\ \A a \in Items(Waiting') \cap LifeAlerts(t) : a.type = "removed"
    /\ Settled(t) => Items(Waiting') \cap LifeAlerts(t) = {}
    /\ \A f \in Forms : m_torrents'[<<t, f>>] = None \/ m_torrents'[<<t, f>>] = m_torrents[<<t, f>>]
    /\ RowSame(t) \/ (adds[t] \in Ids /\ <<t, adds[t]>> \in removing /\ work'[t] = None)
    /\ work'[t] # None /\ work[t] # None /\ work[t].form = "full" /\ Current(<<t, "full">>) => m_torrents'[<<t, "full">>] # None
    /\ \/ EventsSame(t)
       \/ /\ News(t, "removed") /\ <<t, adds[t]>> \in removing
          /\ \E f \in Forms : Current(<<t, f>>) /\ m_torrents'[<<t, f>>] = None

\* UntrackTorrent drops the entry of a torrent that is gone.
LEMMA GoodFewer ==
    ASSUME TypeInv, NEW t \in Torrents, Fewer(t), Good(t)
    PROVE  Good(t)' /\ KeepsRow(t)
<1>1. /\ AskSame(t) /\ QueuesSame(t) /\ lt[t] = None /\ lt'[t] = None
      /\ Items(calls') \cap AddCalls(t) = {}
      /\ \A a \in Items(Waiting') \cap LifeAlerts(t) : a.type = "removed"
      /\ Settled(t) => Items(Waiting') \cap LifeAlerts(t) = {}
  BY DEF Fewer
<1>2. \A f \in Forms : m_torrents'[<<t, f>>] = None \/ m_torrents'[<<t, f>>] = m_torrents[<<t, f>>]
  BY DEF Fewer
<1>3. EntryOf(t) /\ CallsOf(t) /\ AlertsOf(t) /\ UntrackedOf(t) /\ EventsOf(t)
  BY DEF Good, LifeOf
<1>4. /\ adds'[t] = adds[t]
      /\ \A id : /\ <<t, id>> \in removing' <=> <<t, id>> \in removing
                 /\ <<t, id>> \in loadedIds' <=> <<t, id>> \in loadedIds
  BY <1>1 DEF AskSame
<1>5. Settled(t)' <=> Settled(t)
  BY <1>1, AskKept
<1>6. \A f \in Forms : Tracked(<<t, f>>)' => Tracked(<<t, f>>) /\ m_torrents'[<<t, f>>] = m_torrents[<<t, f>>]
  BY <1>2 DEF Tracked
<1>7. \A f \in Forms : Tracked(<<t, f>>)' => (Current(<<t, f>>)' <=> Current(<<t, f>>))
  BY <1>6 DEF Current
<1>8. \A f \in Forms : Tracked(<<t, f>>) => adds[t] \in Ids
  <2> SUFFICES ASSUME NEW f \in Forms, Tracked(<<t, f>>) PROVE adds[t] \in Ids
    OBVIOUS
  <2>1. m_torrents[<<t, f>>].id \in Ids
    BY EntryFields, KeyParts DEF TypeInv, Tracked
  <2> QED BY <1>3, <2>1 DEF EntryOf
<1>9. EntryOf(t)'
  <2>1. ~Live(t)' /\ ~Live(t)
    BY <1>1 DEF Live
  <2>2. \A f, g \in Forms : Tracked(<<t, f>>)' /\ Tracked(<<t, g>>)' => f = g
    BY <1>3, <1>6 DEF EntryOf
  <2>3. \A f \in Forms : Tracked(<<t, f>>)' => /\ m_torrents'[<<t, f>>].id = adds'[t]
                                               /\ m_torrents'[<<t, f>>].handle => Current(<<t, f>>)'
    BY <1>3, <1>4, <1>6, <1>7 DEF EntryOf
  <2>4. <<t, adds'[t]>> \in removing' => \A f \in Forms : ~Fresh(t, f)'
    BY <1>3, <1>4, <1>6, <1>7 DEF EntryOf, Fresh
  <2>5. \A f \in Forms : Current(<<t, f>>)' => <<t, adds'[t]>> \in removing'
    <3> SUFFICES ASSUME NEW f \in Forms, Current(<<t, f>>)' PROVE <<t, adds'[t]>> \in removing'
      OBVIOUS
    <3>1. Tracked(<<t, f>>)'
      BY DEF Current
    <3> QED BY <1>3, <1>4, <1>7, <2>1, <3>1 DEF EntryOf
  <2>6. \A id \in Ids : <<t, id>> \in removing' => id <= adds'[t]
    BY <1>3, <1>4 DEF EntryOf
  <2> QED BY <2>1, <2>2, <2>3, <2>4, <2>5, <2>6 DEF EntryOf
<1>10. CallsOf(t)'
  BY <1>1, <1>3 DEF CallsOf, QueuesSame
<1>11. AlertsOf(t)'
  <2>1. Once(Waiting', LifeAlerts(t))
    BY <1>1, <1>3 DEF AlertsOf, QueuesSame
  <2>2. ASSUME NEW a \in Items(Waiting') \cap LifeAlerts(t)
        PROVE  a.type = "removed" /\ a.id = adds[t] /\ <<t, adds[t]>> \in removing
    BY <1>1, <1>3 DEF AlertsOf, QueuesSame
  <2> QED BY <1>1, <1>4, <2>1, <2>2 DEF AlertsOf, Live
<1>12. UntrackedOf(t)'
  BY <1>1, <1>5 DEF UntrackedOf
<1>13. EventsOf(t)'
  <2>1. \A id \in Ids : events[<<"added", t, id>>] \in Nat /\ events[<<"removed", t, id>>] \in Nat
    BY DEF TypeInv, EventsAre, EventNames
  <2>2. CASE EventsSame(t)
    <3>1. \A id \in Ids : /\ events'[<<"added", t, id>>] = events[<<"added", t, id>>]
                          /\ events'[<<"removed", t, id>>] = events[<<"removed", t, id>>]
      BY <2>2 DEF EventsSame
    <3> QED BY <1>3, <1>4, <1>6, <1>7, <1>8, <3>1 DEF EventsOf
  <2>3. CASE /\ News(t, "removed") /\ <<t, adds[t]>> \in removing
             /\ \E f \in Forms : Current(<<t, f>>) /\ m_torrents'[<<t, f>>] = None
    <3>1. PICK f \in Forms : Current(<<t, f>>) /\ m_torrents'[<<t, f>>] = None
      BY <2>3
    <3>2. Tracked(<<t, f>>) /\ ~Tracked(<<t, f>>)' /\ adds[t] \in Ids
      BY <1>8, <3>1 DEF Current, Tracked
    <3>3. \A g \in Forms : ~Tracked(<<t, g>>)'
      BY <1>3, <1>6, <3>2 DEF EntryOf
    <3>4. \A id \in Ids : /\ events'[<<"added", t, id>>] = events[<<"added", t, id>>]
                          /\ id # adds[t] => events'[<<"removed", t, id>>] = events[<<"removed", t, id>>]
      BY <2>1, <2>3 DEF News
    <3>5. /\ events[<<"removed", t, adds[t]>>] = 0
          /\ <<t, adds[t]>> \in loadedIds \/ events[<<"added", t, adds[t]>>] = 1
      BY <1>3, <3>1, <3>2 DEF EventsOf
    <3>6. events'[<<"removed", t, adds[t]>>] = 1
      BY <2>3, <3>2, <3>5 DEF News
    <3>7. \A id \in Ids : id > adds[t] => id # adds[t]
      BY <3>2, IdsAre
    <3>8. \A id \in Ids : id > adds'[t] => /\ events'[<<"added", t, id>>] = 0 /\ events'[<<"removed", t, id>>] = 0
                                          /\ <<t, id>> \notin loadedIds'
      BY <1>3, <1>4, <3>4, <3>7 DEF EventsOf
    <3>9. \A id \in Ids : /\ events'[<<"added", t, id>>] <= IF <<t, id>> \in loadedIds' THEN 0 ELSE 1
                          /\ events'[<<"removed", t, id>>] <=
                              IF <<t, id>> \in removing' /\ (<<t, id>> \in loadedIds' \/ events'[<<"added", t, id>>] = 1)
                              THEN 1 ELSE 0
      BY <1>3, <1>4, <2>3, <3>4, <3>5, <3>6 DEF EventsOf
    <3> QED BY <3>3, <3>8, <3>9 DEF EventsOf
  <2> QED BY <2>2, <2>3 DEF Fewer
<1>14. RowSame(t) \/ (adds[t] \in Ids /\ <<t, adds[t]>> \in removing /\ work'[t] = None)
  BY DEF Fewer
<1>15. "full" \notin StoredForms => StoredOf(t)'
  <2> SUFFICES ASSUME "full" \notin StoredForms PROVE StoredOf(t)'
    OBVIOUS
  <2>1. StoredOf(t)
    BY DEF Good
  <2>2. work'[t] # None /\ work[t] # None /\ work[t].form = "full" /\ Current(<<t, "full">>) => m_torrents'[<<t, "full">>] # None
    BY DEF Fewer
  <2>3. CASE RowSame(t)
    <3>1. ASSUME work'[t] # None, work'[t].form = "full" PROVE Current(<<t, "full">>)'
      <4>1. work[t] # None /\ work[t].form = "full"
        BY <2>3, <3>1 DEF RowSame
      <4>2. Current(<<t, "full">>) /\ Tracked(<<t, "full">>)'
        BY <2>1, <2>2, <3>1, <4>1 DEF StoredOf, Tracked
      <4> QED BY <1>7, <4>2, FormsAre
    <3>2. \A f \in Forms : Matches(work[t], f) => Matches(work'[t], f)
      BY <2>3 DEF RowSame, Matches
    <3> QED BY <1>4, <1>6, <2>1, <3>1, <3>2 DEF StoredOf
  <2>4. CASE <<t, adds[t]>> \in removing /\ work'[t] = None
    BY <1>4, <2>4 DEF StoredOf
  <2> QED BY <1>14, <2>3, <2>4
<1>16. KeepsRow(t)
  <2>1. Calm(t) => <<t, adds[t]>> \notin removing \/ adds[t] \notin Ids
    BY DEF Calm
  <2> QED BY <1>14, <2>1 DEF KeepsRow, RowSame
<1> QED BY <1>9, <1>10, <1>11, <1>12, <1>13, <1>15, <1>16 DEF Good, LifeOf

\* What happens to the torrent in libtorrent alone.
LEMMA GoodBeside ==
    ASSUME TypeInv, NEW t \in Torrents, Good(t), LifeOf(t)', MapSame(t), AskSame(t), RowSame(t), EventsSame(t)
    PROVE  Good(t)' /\ KeepsRow(t)
<1>2. EventsOf(t)'
  BY EventsOfSame DEF Good, LifeOf
<1>3. "full" \notin StoredForms => StoredOf(t)'
  BY StoredSame DEF Good
<1>4. KeepsRow(t)
  BY DEF RowSame, KeepsRow
<1> QED BY <1>2, <1>3, <1>4 DEF Good

\* What is known of the entry of t after a step that leaves its entry and the requests alone.
LEMMA EntryKept ==
    ASSUME NEW t \in Torrents, MapSame(t), AskSame(t), LifeOf(t),
           Live(t)' => /\ lt'[t].id = adds[t]
                       /\ \E f \in Forms : Tracked(<<t, f>>) /\ (f = "half" \/ lt'[t].form = "full"),
           ~Live(t)' => \A f \in Forms : Current(<<t, f>>) => <<t, adds[t]>> \in removing
    PROVE  EntryOf(t)'
<1>1. /\ adds'[t] = adds[t]
      /\ \A id : <<t, id>> \in removing' <=> <<t, id>> \in removing
  BY DEF AskSame
<1>2. ASSUME NEW f \in Forms
      PROVE  /\ Tracked(<<t, f>>)' <=> Tracked(<<t, f>>)
             /\ Current(<<t, f>>)' <=> Current(<<t, f>>)
             /\ Fresh(t, f)' <=> Fresh(t, f)
             /\ Tracked(<<t, f>>) => /\ m_torrents'[<<t, f>>].id = m_torrents[<<t, f>>].id
                                     /\ m_torrents'[<<t, f>>].handle = m_torrents[<<t, f>>].handle
  BY EntrySame
<1>3. EntryOf(t)
  BY DEF LifeOf
<1> QED BY <1>1, <1>2, <1>3 DEF EntryOf

\* libtorrent takes an add, or refuses it.
LEMMA GoodAnswered ==
    ASSUME TypeInv, NEW t \in Torrents, Good(t), MapSame(t), AskSame(t), RowSame(t), EventsSame(t),
           NEW c \in Items(calls) \cap AddCalls(t), NEW a \in LifeAlerts(t), a.id = c.id, a.form = c.form,
           \/ a.type = "add" /\ lt'[t] # None /\ lt'[t].id = c.id /\ lt'[t].form = c.form
           \/ a.type = "addFailed" /\ lt'[t] = lt[t],
           NewAlerts({a}), Items(calls') \cap AddCalls(t) = {},
           Items(Waiting) \cap LifeAlerts(t) = {} => Once(Waiting', LifeAlerts(t))
    PROVE  Good(t)' /\ KeepsRow(t)
<1>1. /\ adds'[t] = adds[t]
      /\ \A id : <<t, id>> \in removing' <=> <<t, id>> \in removing
  BY DEF AskSame
<1>2. LifeOf(t) /\ EntryOf(t) /\ CallsOf(t) /\ AlertsOf(t)
  BY DEF Good, LifeOf
<1>3. /\ ~Live(t) /\ c.id = adds[t] /\ Fresh(t, c.form) /\ c.form \in Forms
      /\ Items(Waiting) \cap LifeAlerts(t) = {}
  BY <1>2, CallFields DEF CallsOf, AddCalls
<1>4. /\ Fresh(t, c.form)' /\ Tracked(<<t, c.form>>)' /\ Tracked(<<t, c.form>>)
  BY <1>3, EntrySame DEF Fresh
<1>5. EntryOf(t)'
  <2>1. Live(t)' => /\ lt'[t].id = adds[t]
                    /\ \E f \in Forms : Tracked(<<t, f>>) /\ (f = "half" \/ lt'[t].form = "full")
    <3> SUFFICES ASSUME Live(t)' PROVE lt'[t].id = c.id /\ (c.form = "half" \/ lt'[t].form = "full")
      BY <1>3, <1>4
    <3> QED BY <1>3, FormsAre DEF Live
  <2>2. \A f \in Forms : Current(<<t, f>>) => <<t, adds[t]>> \in removing
    BY <1>2, <1>3 DEF EntryOf
  <2> QED BY <1>2, <2>1, <2>2, EntryKept
<1>6. Items(Waiting') \cap LifeAlerts(t) \subseteq {a} /\ Once(Waiting', LifeAlerts(t))
  BY <1>3 DEF NewAlerts
<1>7. CallsOf(t)'
  <2>1. Once(calls', AddCalls(t))
    BY OnceNone
  <2> QED BY <2>1 DEF CallsOf
<1>8. AlertsOf(t)'
  <2>2. a.id = adds'[t] /\ a.type \in {"add", "addFailed"} /\ Fresh(t, a.form)'
    BY <1>1, <1>3, <1>4
  <2>3. ASSUME NEW x \in Items(Waiting') \cap LifeAlerts(t) PROVE x = a
    BY <1>6
  <2>4. (a.type = "add" => Live(t)') /\ (a.type = "addFailed" => ~Live(t)')
    BY <1>3 DEF Live
  <2> QED BY <1>6, <2>2, <2>3, <2>4 DEF AlertsOf
<1>9. UntrackedOf(t)'
  BY <1>3, <1>4 DEF UntrackedOf
<1>10. LifeOf(t)'
  BY <1>5, <1>7, <1>8, <1>9 DEF LifeOf
<1> QED BY <1>10, GoodBeside

\* libtorrent removes the torrent.
LEMMA GoodLeaves ==
    ASSUME TypeInv, NEW t \in Torrents, Good(t), MapSame(t), AskSame(t), RowSame(t), EventsSame(t),
           lt[t] # None, lt'[t] = None, NEW a \in LifeAlerts(t), a.type = "removed", a.id = lt[t].id,
           <<t, lt[t].id>> \in removing, NewAlerts({a}), NewCalls({}),
           Items(Waiting) \cap LifeAlerts(t) = {} => Once(Waiting', LifeAlerts(t))
    PROVE  Good(t)' /\ KeepsRow(t)
<1>1. /\ adds'[t] = adds[t]
      /\ \A id : <<t, id>> \in removing' <=> <<t, id>> \in removing
  BY DEF AskSame
<1>2. LifeOf(t) /\ EntryOf(t) /\ CallsOf(t) /\ AlertsOf(t) /\ UntrackedOf(t)
  BY DEF Good, LifeOf
<1>3. Live(t) /\ ~Live(t)' /\ lt[t].id = adds[t] /\ <<t, adds[t]>> \in removing
  BY <1>2 DEF EntryOf, Live
<1>4. \A f \in Forms : ~Fresh(t, f)
  BY <1>2, <1>3 DEF EntryOf
<1>5. Items(Waiting) \cap LifeAlerts(t) = {}
  <2> SUFFICES ASSUME NEW x \in Items(Waiting) \cap LifeAlerts(t) PROVE FALSE
    OBVIOUS
  <2>1. x.type \in {"add", "addFailed", "removed"} /\ x.form \in Forms
    BY AlertFields DEF LifeAlerts
  <2> QED BY <1>2, <1>3, <1>4, <2>1 DEF AlertsOf
<1>6. EntryOf(t)'
  BY <1>2, <1>3, EntryKept
<1>7. CallsOf(t)'
  <2>1. Items(calls') \cap AddCalls(t) = {}
    BY <1>2, <1>3 DEF CallsOf, NewCalls
  <2>2. Once(calls', AddCalls(t))
    BY <2>1, OnceNone
  <2> QED BY <2>1, <2>2 DEF CallsOf
<1>8. Items(Waiting') \cap LifeAlerts(t) \subseteq {a} /\ Once(Waiting', LifeAlerts(t))
  BY <1>5 DEF NewAlerts
<1>9. AlertsOf(t)'
  BY <1>1, <1>3, <1>8 DEF AlertsOf
<1>10. UntrackedOf(t)'
  <2>1. PICK f \in Forms : Tracked(<<t, f>>)
    BY <1>2, <1>3 DEF EntryOf
  <2>2. Tracked(<<t, f>>)'
    BY <2>1, EntrySame
  <2> QED BY <2>1, <2>2 DEF UntrackedOf
<1>11. LifeOf(t)'
  BY <1>6, <1>7, <1>9, <1>10 DEF LifeOf
<1> QED BY <1>11, GoodBeside

\* An add is accepted: t has no entry, and gets one for its next add.
Asks(t, f, state) ==
    /\ \A g \in Forms : ~Tracked(<<t, g>>)
    /\ adds'[t] = adds[t] + 1 /\ adds[t] + 1 \in Ids
    /\ m_torrents'[<<t, f>>] # None /\ m_torrents'[<<t, f>>].id = adds[t] + 1
    /\ m_torrents'[<<t, f>>].state = state /\ m_torrents'[<<t, f>>].handle = FALSE
    /\ \A g \in Forms \ {f} : m_torrents'[<<t, g>>] = None
    /\ \A id : /\ <<t, id>> \in removing' <=> <<t, id>> \in removing
               /\ <<t, id>> \in loadedIds' <=> <<t, id>> \in loadedIds \/ (state = "Loading" /\ id = adds[t] + 1)

\* Session::Add makes an entry and posts the add.
LEMMA GoodAsked ==
    ASSUME TypeInv, NEW t \in Torrents, Safe(t)', Good(t), NEW f \in Forms, NEW state \in {"Adding", "Loading"},
           Asks(t, f, state), LtSame(t), RowSame(t), EventsSame(t),
           NEW c \in AddCalls(t), c.id = adds[t] + 1, c.form = f, NewCalls({c}), NewAlerts({}),
           Items(calls) \cap AddCalls(t) = {} => Once(calls', AddCalls(t)),
           state = "Loading" => work[t] # None
    PROVE  Good(t)' /\ KeepsRow(t)
<1>1. EntryOf(t) /\ CallsOf(t) /\ AlertsOf(t) /\ UntrackedOf(t) /\ EventsOf(t)
  BY DEF Good, LifeOf
<1>2. /\ \A g \in Forms : ~Tracked(<<t, g>>)
      /\ adds'[t] = adds[t] + 1 /\ adds[t] + 1 \in Ids
      /\ \A id : /\ <<t, id>> \in removing' <=> <<t, id>> \in removing
                 /\ <<t, id>> \in loadedIds' <=> <<t, id>> \in loadedIds \/ (state = "Loading" /\ id = adds[t] + 1)
  BY DEF Asks
<1>3. adds[t] \in Nat
  BY IdsAre DEF TypeInv, CountIs
<1>4. ~Live(t) /\ ~Live(t)'
  BY <1>1, <1>2 DEF EntryOf, LtSame, Live
<1>5. /\ Tracked(<<t, f>>)' /\ ~Current(<<t, f>>)' /\ Fresh(t, f)' /\ m_torrents'[<<t, f>>].id = adds'[t]
      /\ m_torrents'[<<t, f>>].state = state /\ m_torrents'[<<t, f>>].handle = FALSE
      /\ \A g \in Forms : Tracked(<<t, g>>)' => g = f
  BY <1>2 DEF Asks, Tracked, Current, Fresh
<1>6. Items(Waiting) \cap LifeAlerts(t) = {}
  <2> SUFFICES ASSUME NEW x \in Items(Waiting) \cap LifeAlerts(t) PROVE FALSE
    OBVIOUS
  <2>1. x.type \in {"add", "addFailed", "removed"} /\ x.form \in Forms /\ x.id \in Ids
    BY AlertFields DEF LifeAlerts
  <2>2. x.type = "removed" /\ adds[t] \in Ids
    BY <1>1, <1>2, <2>1 DEF AlertsOf, Fresh
  <2>3. Settled(t)
    <3>1. ~(adds[t] + 1 <= 1)
      BY <1>3, <2>2, IdsAre
    <3>2. Settled(t)'
      BY <1>2, <3>1 DEF Safe
    <3> QED BY <1>2, <3>2 DEF Settled, Calm
  <2> QED BY <1>1, <1>2, <2>3 DEF UntrackedOf
<1>7. Items(Waiting') \cap LifeAlerts(t) = {}
  BY <1>6 DEF NewAlerts
<1>8. Items(calls) \cap AddCalls(t) = {}
  <2> SUFFICES ASSUME NEW x \in Items(calls) \cap AddCalls(t) PROVE FALSE
    OBVIOUS
  <2>1. x.form \in Forms
    BY CallFields DEF AddCalls
  <2> QED BY <1>1, <1>2, <2>1 DEF CallsOf, Fresh
<1>9. EntryOf(t)'
  <2>1. \A id \in Ids : <<t, id>> \in removing' => id <= adds[t]
    BY <1>1, <1>2 DEF EntryOf
  <2>2. <<t, adds'[t]>> \notin removing' /\ \A id \in Ids : <<t, id>> \in removing' => id <= adds'[t]
    BY <1>2, <1>3, <2>1, IdsAre
  <2>3. \A g \in Forms : ~Current(<<t, g>>)'
    BY <1>5 DEF Current
  <2> QED BY <1>4, <1>5, <2>2, <2>3 DEF EntryOf
<1>10. CallsOf(t)'
  <2>1. Items(calls') \cap AddCalls(t) \subseteq {c}
    BY <1>8 DEF NewCalls
  <2> QED BY <1>2, <1>4, <1>5, <1>7, <1>8, <2>1 DEF CallsOf
<1>11. AlertsOf(t)'
  BY <1>7, OnceNone DEF AlertsOf
<1>12. UntrackedOf(t)'
  BY <1>7 DEF UntrackedOf
<1>13. EventsOf(t)'
  <2>1. \A id \in Ids : id > adds[t] + 1 => id > adds[t] /\ id # adds[t] + 1
    BY <1>3, IdsAre
  <2>2. \A id \in Ids : /\ events'[<<"added", t, id>>] = events[<<"added", t, id>>]
                        /\ events'[<<"removed", t, id>>] = events[<<"removed", t, id>>]
    BY DEF EventsSame
  <2>3. /\ events[<<"added", t, adds[t] + 1>>] = 0 /\ events[<<"removed", t, adds[t] + 1>>] = 0
        /\ <<t, adds[t] + 1>> \notin loadedIds
    BY <1>1, <1>2, <1>3 DEF EventsOf
  <2>4. \A id \in Ids : id > adds'[t] => /\ events'[<<"added", t, id>>] = 0 /\ events'[<<"removed", t, id>>] = 0
                                         /\ <<t, id>> \notin loadedIds'
    BY <1>1, <1>2, <2>1, <2>2 DEF EventsOf
  <2>5. \A id \in Ids : /\ events'[<<"added", t, id>>] <= IF <<t, id>> \in loadedIds' THEN 0 ELSE 1
                        /\ events'[<<"removed", t, id>>] <=
                            IF <<t, id>> \in removing' /\ (<<t, id>> \in loadedIds' \/ events'[<<"added", t, id>>] = 1)
                            THEN 1 ELSE 0
    BY <1>1, <1>2, <2>2, <2>3 DEF EventsOf
  <2>6. \A g \in Forms : Tracked(<<t, g>>)' =>
          /\ events'[<<"removed", t, adds'[t]>>] = 0
          /\ m_torrents'[<<t, g>>].state = "Adding" => events'[<<"added", t, adds'[t]>>] = 0 /\ <<t, adds'[t]>> \notin loadedIds'
          /\ m_torrents'[<<t, g>>].state = "Loading" => <<t, adds'[t]>> \in loadedIds'
          /\ ~Current(<<t, g>>)'
    BY <1>2, <1>5, <2>2, <2>3
  <2> QED BY <2>4, <2>5, <2>6 DEF EventsOf
<1>14. "full" \notin StoredForms => StoredOf(t)'
  <2> SUFFICES ASSUME "full" \notin StoredForms PROVE StoredOf(t)'
    OBVIOUS
  <2>1. work[t] # None => work[t].form = "half"
    <3>1. work[t] # None => work[t].form \in Forms
      BY RowFields DEF TypeInv
    <3> QED BY <1>2, <3>1, FormsAre DEF Good, StoredOf, Current
  <2>2. work'[t] # None => work'[t].form = "half"
    BY <2>1 DEF RowSame
  <2>3. state = "Loading" => Matches(work'[t], f)
    BY <2>2 DEF RowSame, Matches
  <2> QED BY <1>5, <2>2, <2>3 DEF StoredOf
<1>15. KeepsRow(t)
  BY DEF KeepsRow, RowSame
<1> QED BY <1>9, <1>10, <1>11, <1>12, <1>13, <1>14, <1>15 DEF Good, LifeOf

\* A removal of a current torrent is asked for.
LEMMA GoodDismissed ==
    ASSUME TypeInv, NEW t \in Torrents, Good(t), LtSame(t), MapSame(t), QueuesSame(t), RowSame(t), EventsSame(t),
           NEW f \in Forms, Current(<<t, f>>), adds'[t] = adds[t],
           \A id : /\ <<t, id>> \in removing' <=> <<t, id>> \in removing \/ id = m_torrents[<<t, f>>].id
                   /\ <<t, id>> \in loadedIds' <=> <<t, id>> \in loadedIds
    PROVE  Good(t)' /\ KeepsRow(t)
<1>1. EntryOf(t) /\ CallsOf(t) /\ AlertsOf(t) /\ UntrackedOf(t) /\ EventsOf(t)
  BY DEF Good, LifeOf
<1>2. ASSUME NEW g \in Forms
      PROVE  /\ Tracked(<<t, g>>)' <=> Tracked(<<t, g>>)
             /\ Current(<<t, g>>)' <=> Current(<<t, g>>)
             /\ Fresh(t, g)' <=> Fresh(t, g)
             /\ Tracked(<<t, g>>) => /\ m_torrents'[<<t, g>>].id = m_torrents[<<t, g>>].id
                                     /\ m_torrents'[<<t, g>>].state = m_torrents[<<t, g>>].state
                                     /\ m_torrents'[<<t, g>>].handle = m_torrents[<<t, g>>].handle
  BY EntrySame
<1>3. Tracked(<<t, f>>) /\ m_torrents[<<t, f>>].id = adds[t] /\ adds[t] \in Ids
  <2>1. Tracked(<<t, f>>)
    BY DEF Current
  <2>2. m_torrents[<<t, f>>].id \in Ids
    BY <2>1, EntryFields, KeyParts DEF TypeInv, Tracked
  <2> QED BY <1>1, <2>1, <2>2 DEF EntryOf
<1>4. \A g \in Forms : Tracked(<<t, g>>) => g = f
  BY <1>1, <1>3 DEF EntryOf
<1>5. \A g \in Forms : ~Fresh(t, g)
  BY <1>4 DEF Fresh
<1>6. (Live(t)' <=> Live(t)) /\ (Live(t) => lt'[t].id = lt[t].id /\ lt'[t].form \in {lt[t].form, "full"})
  BY DEF LtSame, Live
<1>7. EntryOf(t)'
  <2>1. \A id \in Ids : <<t, id>> \in removing' => id <= adds'[t]
    BY <1>1, <1>3, IdsAre DEF EntryOf
  <2>2. \A g \in Forms : ~Fresh(t, g)'
    BY <1>2, <1>5
  <2>3. <<t, adds'[t]>> \in removing'
    BY <1>3
  <2> QED BY <1>1, <1>2, <1>6, <2>1, <2>2, <2>3 DEF EntryOf
<1>8. CallsOf(t)'
  <2>1. \A c \in AddCalls(t) : c.form \in Forms
    BY CallFields DEF AddCalls
  <2>2. Items(calls') \cap AddCalls(t) = {}
    BY <1>1, <1>5, <2>1 DEF CallsOf, QueuesSame
  <2> QED BY <2>2, OnceNone DEF CallsOf
<1>9. AlertsOf(t)'
  <2>1. \A a \in LifeAlerts(t) : a.form \in Forms
    BY AlertFields DEF LifeAlerts
  <2>2. Once(Waiting', LifeAlerts(t)) /\ Items(Waiting') \cap LifeAlerts(t) \subseteq Items(Waiting) \cap LifeAlerts(t)
    BY <1>1 DEF AlertsOf, QueuesSame
  <2> QED BY <1>1, <1>2, <1>3, <1>6, <2>1, <2>2 DEF AlertsOf
<1>10. UntrackedOf(t)'
  BY <1>2, <1>3 DEF UntrackedOf
<1>11. EventsOf(t)'
  <2>1. \A id \in Ids : /\ events'[<<"added", t, id>>] = events[<<"added", t, id>>]
                        /\ events'[<<"removed", t, id>>] = events[<<"removed", t, id>>]
    BY DEF EventsSame
  <2>2. \A id \in Ids : <<t, id>> \in removing => <<t, id>> \in removing'
    OBVIOUS
  <2>3. \A id \in Ids : events'[<<"added", t, id>>] \in Nat /\ events'[<<"removed", t, id>>] \in Nat
    BY <2>1 DEF TypeInv, EventsAre, EventNames
  <2>4. \A id \in Ids : events'[<<"removed", t, id>>] <=
                            IF <<t, id>> \in removing' /\ (<<t, id>> \in loadedIds' \/ events'[<<"added", t, id>>] = 1)
                            THEN 1 ELSE 0
    BY <1>1, <2>1, <2>2, <2>3 DEF EventsOf
  <2>5. \A id \in Ids : events'[<<"added", t, id>>] <= IF <<t, id>> \in loadedIds' THEN 0 ELSE 1
    BY <1>1, <2>1 DEF EventsOf
  <2> QED BY <1>1, <1>2, <1>3, <2>1, <2>4, <2>5 DEF EventsOf
<1>12. "full" \notin StoredForms => StoredOf(t)'
  <2> SUFFICES ASSUME "full" \notin StoredForms PROVE StoredOf(t)'
    OBVIOUS
  <2>1. StoredOf(t)
    BY DEF Good
  <2>2. <<t, adds'[t]>> \in removing'
    BY <1>3
  <2>3. work'[t] # None /\ work'[t].form = "full" => Current(<<t, "full">>)'
    BY <1>2, <2>1, FormsAre DEF StoredOf, RowSame
  <2> QED BY <2>2, <2>3 DEF StoredOf
<1>13. KeepsRow(t)
  BY DEF KeepsRow, RowSame
<1> QED BY <1>7, <1>8, <1>9, <1>10, <1>11, <1>12, <1>13 DEF Good, LifeOf

-----------------------------------------------------------------------------
(* The inductive invariant                                                   *)

Reconciling == pc = "reconcile" \/ (pc = "alerts" /\ after \in {"job", "loadEnd", "stop"})

\* From the listing of the torrents to the end of a reconcile, and during Stop,
\* libtorrent is only asked for resume data.
Quiet == Reconciling \/ pc \in {"stopStatus", "stopSave", "stopWait", "down"}

QuietAlerts == {a \in AlertMsgs : a.type \in {"saved", "notSaved", "metadata"}}

QuietOK ==
    /\ Quiet => Items(calls) \subseteq SaveCalls /\ Items(alerts) \subseteq QuietAlerts
    /\ pc = "stopWait" => Items(batch) \subseteq QuietAlerts \cup DropAlerts

RemovalsOK == \A c \in Items(calls) : c.op = "remove" => <<c.t, c.id>> \in removing

\* A listed handle is valid; a torrent that is not listed any more was seen under the
\* hash it is tracked by.
HandlesOK ==
    Reconciling =>
        /\ \A t \in Torrents : \A id : <<t, id>> \in handles => lt[t] # None /\ lt[t].id = id
        /\ \A t \in Torrents : lt[t] # None /\ <<t, lt[t].id>> \notin handles =>
              /\ pc = "reconcile"
              /\ Safe(t) => \A f \in Forms : Tracked(<<t, f>>) => <<t, f>> \in seen

\* Outside a transaction its rows are the committed ones.
WorkOK == pc \notin {"alerts", "reconcile"} /\ (pc = "stopWait" => batch = <<>>) => work = rows

\* The transaction has not deleted the row of a torrent whose removal was not asked for.
RowsOK == \A t \in Torrents : Calm(t) /\ rows[t] # None => work[t] # None

Core == \A t \in Torrents : Safe(t) => Good(t)

IInv == TypeInv /\ QuietOK /\ RemovalsOK /\ HandlesOK /\ WorkOK /\ RowsOK /\ Core

\* What every step is shown to do.
StepOK == \A t \in Torrents : (Safe(t)' => Safe(t) /\ Good(t)') /\ (Safe(t) => KeepsRow(t))

\* A step is right if every torrent stays, settles or goes.
LEMMA StepIs ==
    ASSUME TypeInv, Core, \A t \in Torrents : AskSame(t),
           \A t \in Torrents : Safe(t) /\ Good(t) => Same(t) \/ Settling(t) \/ Fewer(t)
    PROVE  StepOK
<1> SUFFICES ASSUME NEW t \in Torrents PROVE (Safe(t)' => Safe(t) /\ Good(t)') /\ (Safe(t) => KeepsRow(t))
  BY DEF StepOK
<1>1. Safe(t)' <=> Safe(t)
  BY AskKept
<1>2. ASSUME Safe(t) PROVE Good(t)' /\ KeepsRow(t)
  <2>1. Good(t)
    BY <1>2 DEF Core
  <2>2. CASE Same(t)
    BY <2>1, <2>2, GoodSame
  <2>3. CASE Settling(t)
    BY <2>1, <2>3, GoodSettling
  <2>4. CASE Fewer(t)
    BY <2>1, <2>4, GoodFewer
  <2> QED BY <1>2, <2>1, <2>2, <2>3, <2>4
<1> QED BY <1>1, <1>2

\* A step that changes no torrent is right.
LEMMA AllSame ==
    ASSUME TypeInv, Core, \A t \in Torrents : Same(t)
    PROVE  StepOK
  BY StepIs DEF Same

\* The rest of the invariant when the io thread stays where it is.
LEMMA QuietKept ==
    ASSUME QuietOK, UNCHANGED <<pc, after>>, NEW N, NEW M, NewCalls(N), NewAlerts(M),
           Quiet => N \subseteq SaveCalls /\ M \subseteq QuietAlerts,
           pc = "stopWait" => Items(batch') \subseteq Items(batch)
    PROVE  QuietOK'
  BY DEF QuietOK, Quiet, Reconciling, NewCalls, NewAlerts

\* No removal is posted that was not asked for.
LEMMA RemovalsKept ==
    ASSUME RemovalsOK, NEW N, NewCalls(N), \A c \in N : c.op # "remove", removing \subseteq removing'
    PROVE  RemovalsOK'
  BY DEF RemovalsOK, NewCalls

\* The listed handles stay valid.
LEMMA HandlesKept ==
    ASSUME HandlesOK, UNCHANGED <<pc, after, handles, seen>>, \A t \in Torrents : LtSame(t) /\ AskSame(t),
           pc = "reconcile" => \A t \in Torrents : MapSame(t)
    PROVE  HandlesOK'
<1>1. Reconciling' <=> Reconciling
  BY DEF Reconciling
<1> SUFFICES ASSUME Reconciling PROVE HandlesOK'
  BY <1>1 DEF HandlesOK
<1>2. /\ \A t \in Torrents : \A id : <<t, id>> \in handles => lt[t] # None /\ lt[t].id = id
      /\ \A t \in Torrents : lt[t] # None /\ <<t, lt[t].id>> \notin handles =>
              /\ pc = "reconcile"
              /\ Safe(t) => \A f \in Forms : Tracked(<<t, f>>) => <<t, f>> \in seen
  BY DEF HandlesOK
<1>3. \A t \in Torrents : (lt'[t] = None <=> lt[t] = None) /\ (lt[t] # None => lt'[t].id = lt[t].id)
  BY DEF LtSame
<1>4. \A t \in Torrents : Safe(t)' => Safe(t)
  BY AskKept
<1>5. pc = "reconcile" => \A t \in Torrents, f \in Forms : Tracked(<<t, f>>)' => Tracked(<<t, f>>)
  BY EntrySame
<1> QED BY <1>2, <1>3, <1>4, <1>5 DEF HandlesOK

-----------------------------------------------------------------------------
(* The network thread keeps it                                               *)

Rest == QuietOK' /\ RemovalsOK' /\ HandlesOK' /\ WorkOK'

\* A step of the network thread keeps the rest of the invariant.
LEMMA IoRest ==
    ASSUME IInv, IoSame, \A t \in Torrents : LtSame(t) /\ AskSame(t) /\ MapSame(t), NewCalls({}), NEW M, NewAlerts(M),
           Quiet => M \subseteq QuietAlerts
    PROVE  Rest
<1>1. UNCHANGED <<pc, after, batch, handles, seen, rows, work, removing>>
  BY DEF IoSame, ioVars, dbVars
<1>2. QuietOK'
  BY <1>1, QuietKept DEF IInv
<1>3. RemovalsOK'
  BY <1>1, RemovalsKept DEF IInv
<1>4. HandlesOK'
  BY <1>1, HandlesKept DEF IInv
<1>5. WorkOK'
  BY <1>1 DEF IInv, WorkOK
<1> QED BY <1>2, <1>3, <1>4, <1>5 DEF Rest

\* A call other than a save was not posted while the session is quiet.
LEMMA NotQuiet ==
    ASSUME IInv, NEW c \in Items(calls), c.op # "save"
    PROVE  ~Quiet
  BY DEF IInv, QuietOK, SaveCalls

\* So does one outside a reconcile and before Stop.
LEMMA IoRestLoud ==
    ASSUME IInv, IoSame, ~Quiet, NewCalls({}), NEW M, NewAlerts(M)
    PROVE  Rest
<1>1. UNCHANGED <<pc, after, batch, handles, seen, rows, work, removing>>
  BY DEF IoSame, ioVars, dbVars
<1>2. QuietOK'
  BY <1>1, QuietKept DEF IInv, Quiet
<1>3. RemovalsOK'
  BY <1>1, RemovalsKept DEF IInv
<1>4. HandlesOK'
  BY <1>1 DEF Quiet, HandlesOK, Reconciling
<1>5. WorkOK'
  BY <1>1 DEF IInv, WorkOK
<1> QED BY <1>2, <1>3, <1>4, <1>5 DEF Rest

Keeps == TypeInv' /\ Commits /\ StepOK /\ Rest

\* LtAdd keeps the invariant.
LEMMA LtAddKeeps == IInv /\ LtAdd => Keeps
<1> SUFFICES ASSUME IInv, LtAdd PROVE Keeps
  OBVIOUS
<1>1. TypeInv /\ Core /\ Takes("add")
  BY DEF IInv, LtAdd
<1>2. /\ TypeInv' /\ Commits /\ \A t \in Torrents \ {Call.t} : Same(t)
      /\ Call \in CallMsgs /\ Call.op = "add" /\ Call \in Items(calls) /\ Call.t \in Torrents
      /\ NewAlerts({AddAlertOf(Call)}) /\ AddAlertOf(Call) \in AlertMsgs
      /\ \A t \in Torrents : MapSame(t) /\ AskSame(t) /\ RowSame(t) /\ EventsSame(t)
      /\ lt[Call.t] = None /\ lt'[Call.t] # None /\ lt'[Call.t].id = Call.id /\ lt'[Call.t].form = Call.form
      /\ Items(Waiting) \cap LifeAlerts(Call.t) = {} => Once(Waiting', LifeAlerts(Call.t))
      /\ Once(calls, AddCalls(Call.t)) => Items(calls') \cap AddCalls(Call.t) = {}
  BY <1>1, LtAddEffect
<1>3. IoSame /\ NewCalls({})
  BY <1>1, TakesIs
<1>4. Rest
  BY <1>2, <1>3, NotQuiet, IoRestLoud
<1>5. ASSUME NEW t \in Torrents, Safe(t) PROVE Good(t)' /\ KeepsRow(t)
  <2>1. Good(t)
    BY <1>1, <1>5 DEF Core
  <2>2. CASE t # Call.t
    BY <1>1, <1>2, <2>1, <2>2, GoodSame
  <2>3. CASE t = Call.t
    <3> DEFINE c == Call
               a == AddAlertOf(c)
    <3>1. a.type = "add" /\ a.t = c.t /\ a.id = c.id /\ a.form = c.form
      BY DEF AddAlertOf
    <3>2. a \in LifeAlerts(t) /\ c \in Items(calls) \cap AddCalls(t)
      BY <1>2, <2>3, <3>1 DEF LifeAlerts, AddCalls
    <3>3. Once(calls, AddCalls(t))
      BY <2>1 DEF Good, LifeOf, CallsOf
    <3>4. Items(calls') \cap AddCalls(t) = {}
      BY <1>2, <2>3, <3>3
    <3>5. lt'[t] # None /\ lt'[t].id = c.id /\ lt'[t].form = c.form /\ NewAlerts({a})
      BY <1>2, <2>3
    <3>6. Items(Waiting) \cap LifeAlerts(t) = {} => Once(Waiting', LifeAlerts(t))
      BY <1>2, <2>3
    <3>7. MapSame(t) /\ AskSame(t) /\ RowSame(t) /\ EventsSame(t)
      BY <1>2
    <3> HIDE DEF a, c
    <3> QED BY ONLY <1>1, <2>1, <3>1, <3>2, <3>4, <3>5, <3>6, <3>7, GoodAnswered, t \in Torrents
  <2> QED BY <2>2, <2>3
<1>6. \A t \in Torrents : Safe(t)' => Safe(t)
  BY <1>2, AskKept
<1> QED BY <1>2, <1>4, <1>5, <1>6 DEF Keeps, StepOK

\* LtAddFails keeps the invariant.
LEMMA LtAddFailsKeeps == IInv /\ LtAddFails => Keeps
<1> SUFFICES ASSUME IInv, LtAddFails PROVE Keeps
  OBVIOUS
<1>1. TypeInv /\ Core /\ Takes("add")
  BY DEF IInv, LtAddFails
<1>2. /\ TypeInv' /\ Commits /\ \A t \in Torrents \ {Call.t} : Same(t)
      /\ Call \in CallMsgs /\ Call.op = "add" /\ Call \in Items(calls) /\ Call.t \in Torrents
      /\ NewAlerts({FailedAlertOf(Call)}) /\ FailedAlertOf(Call) \in AlertMsgs
      /\ \A t \in Torrents : MapSame(t) /\ AskSame(t) /\ RowSame(t) /\ EventsSame(t)
      /\ UNCHANGED lt
      /\ Items(Waiting) \cap LifeAlerts(Call.t) = {} => Once(Waiting', LifeAlerts(Call.t))
      /\ Once(calls, AddCalls(Call.t)) => Items(calls') \cap AddCalls(Call.t) = {}
  BY <1>1, LtAddFailsEffect
<1>3. IoSame /\ NewCalls({})
  BY <1>1, TakesIs
<1>4. Rest
  BY <1>2, <1>3, NotQuiet, IoRestLoud
<1>5. ASSUME NEW t \in Torrents, Safe(t) PROVE Good(t)' /\ KeepsRow(t)
  <2>1. Good(t)
    BY <1>1, <1>5 DEF Core
  <2>2. CASE t # Call.t
    BY <1>1, <1>2, <2>1, <2>2, GoodSame
  <2>3. CASE t = Call.t
    <3> DEFINE c == Call
               a == FailedAlertOf(c)
    <3>1. a.type = "addFailed" /\ a.t = c.t /\ a.id = c.id /\ a.form = c.form
      BY DEF FailedAlertOf
    <3>2. a \in LifeAlerts(t) /\ c \in Items(calls) \cap AddCalls(t)
      BY <1>2, <2>3, <3>1 DEF LifeAlerts, AddCalls
    <3>3. Once(calls, AddCalls(t))
      BY <2>1 DEF Good, LifeOf, CallsOf
    <3>4. Items(calls') \cap AddCalls(t) = {}
      BY <1>2, <2>3, <3>3
    <3>5. lt'[t] = lt[t] /\ NewAlerts({a})
      BY <1>2, <2>3
    <3>6. Items(Waiting) \cap LifeAlerts(t) = {} => Once(Waiting', LifeAlerts(t))
      BY <1>2, <2>3
    <3>7. MapSame(t) /\ AskSame(t) /\ RowSame(t) /\ EventsSame(t)
      BY <1>2
    <3> HIDE DEF a, c
    <3> QED BY ONLY <1>1, <2>1, <3>1, <3>2, <3>4, <3>5, <3>6, <3>7, GoodAnswered, t \in Torrents
  <2> QED BY <2>2, <2>3
<1>6. \A t \in Torrents : Safe(t)' => Safe(t)
  BY <1>2, AskKept
<1> QED BY <1>2, <1>4, <1>5, <1>6 DEF Keeps, StepOK

\* LtRemove keeps the invariant.
LEMMA LtRemoveKeeps == IInv /\ LtRemove => Keeps
<1> SUFFICES ASSUME IInv, LtRemove PROVE Keeps
  OBVIOUS
<1>1. TypeInv /\ Core /\ RemovalsOK
  BY DEF IInv
<1>2. /\ TypeInv' /\ Commits /\ \A t \in Torrents \ {Call.t} : Same(t)
      /\ NewCalls({}) /\ IoSame /\ Call.op = "remove" /\ Call \in CallMsgs /\ Call \in Items(calls)
      /\ Call.t \in Torrents /\ Call.id \in Ids
      /\ \A t \in Torrents : MapSame(t) /\ AskSame(t) /\ RowSame(t) /\ EventsSame(t)
      /\ \/ Same(Call.t) /\ NewAlerts({})
         \/ /\ lt[Call.t] # None /\ lt[Call.t].id = Call.id /\ lt'[Call.t] = None
            /\ RemovedAlertOf(Call) \in AlertMsgs /\ NewAlerts({RemovedAlertOf(Call)})
            /\ Items(Waiting) \cap LifeAlerts(Call.t) = {} => Once(Waiting', LifeAlerts(Call.t))
  BY <1>1, LtRemoveEffect
<1>3. ~Quiet
  BY <1>2, NotQuiet
<1>4. Rest
  BY <1>2, <1>3, IoRestLoud
<1>5. ASSUME NEW t \in Torrents, Safe(t) PROVE Good(t)' /\ KeepsRow(t)
  <2>1. Good(t)
    BY <1>1, <1>5 DEF Core
  <2>2. CASE Same(t)
    BY <1>1, <2>1, <2>2, GoodSame
  <2>3. CASE ~Same(t)
    <3> DEFINE c == Call
               a == RemovedAlertOf(c)
    <3>0. t = Call.t
      BY <1>2, <2>3
    <3>1. a.type = "removed" /\ a.t = c.t /\ a.id = c.id
      BY DEF RemovedAlertOf
    <3>2. /\ lt[t] # None /\ lt[t].id = c.id /\ lt'[t] = None
          /\ a \in AlertMsgs /\ NewAlerts({a})
          /\ Items(Waiting) \cap LifeAlerts(t) = {} => Once(Waiting', LifeAlerts(t))
      BY <1>2, <2>3, <3>0
    <3>3. a \in LifeAlerts(t) /\ NewCalls({})
      BY <1>2, <3>0, <3>1, <3>2 DEF LifeAlerts
    <3>4. <<t, lt[t].id>> \in removing
      BY <1>1, <1>2, <3>0, <3>2 DEF RemovalsOK
    <3>7. MapSame(t) /\ AskSame(t) /\ RowSame(t) /\ EventsSame(t)
      BY <1>2
    <3> HIDE DEF a, c
    <3> QED BY ONLY <1>1, <2>1, <3>1, <3>2, <3>3, <3>4, <3>7, GoodLeaves, t \in Torrents
  <2> QED BY <2>2, <2>3
<1>6. \A t \in Torrents : Safe(t)' => Safe(t)
  BY <1>2, AskKept
<1> QED BY <1>2, <1>4, <1>5, <1>6 DEF Keeps, StepOK

\* The other calls of the network thread, and metadata, keep it.
LEMMA LtOtherKeeps ==
    ASSUME IInv, LtSave \/ LtConfigure \/ LtMoveQueue \/ LtPostUpdates \/ \E t \in Torrents : LtMetadata(t)
    PROVE  Keeps
<1>1. TypeInv /\ Core
  BY DEF IInv
<1>2. ASSUME TypeInv', Commits, \A t \in Torrents : Same(t), IoSame, NewCalls({}), NEW M, NewAlerts(M),
             Quiet => M \subseteq QuietAlerts
      PROVE  Keeps
  <2>1. StepOK
    BY <1>1, <1>2, AllSame
  <2>2. \A t \in Torrents : LtSame(t) /\ AskSame(t) /\ MapSame(t)
    BY <1>2 DEF Same
  <2>3. Rest
    BY <1>2, <2>2, IoRest
  <2> QED BY <1>2, <2>1, <2>3 DEF Keeps
<1>3. CASE LtSave
  <2>1. /\ TypeInv' /\ Commits /\ \A t \in Torrents : Same(t)
        /\ NewCalls({}) /\ \E M \in SUBSET {a \in AlertMsgs : a.type \in {"saved", "notSaved"}} : NewAlerts(M)
        /\ IoSame
    BY <1>1, <1>3, LtSaveEffect
  <2>2. PICK M \in SUBSET {a \in AlertMsgs : a.type \in {"saved", "notSaved"}} : NewAlerts(M)
    BY <2>1
  <2>3. M \subseteq QuietAlerts
    BY DEF QuietAlerts
  <2> QED BY <1>2, <2>1, <2>2, <2>3
<1>4. CASE LtConfigure \/ LtMoveQueue
  <2>1. /\ TypeInv' /\ Commits /\ \A t \in Torrents : Same(t)
        /\ NewCalls({}) /\ NewAlerts({}) /\ IoSame
    BY <1>1, <1>4, LtConfigureEffect
  <2> QED BY <1>2, <2>1
<1>5. CASE LtPostUpdates
  <2>1. /\ TypeInv' /\ Commits /\ \A t \in Torrents : Same(t)
        /\ NewCalls({}) /\ IoSame
        /\ Call.op = "updates" /\ Call \in Items(calls)
        /\ \E a \in AlertMsgs : a.type = "update" /\ NewAlerts({a})
    BY <1>1, <1>5, LtPostUpdatesEffect
  <2>2. ~Quiet
    BY <2>1, NotQuiet
  <2> QED BY <1>2, <2>1, <2>2
<1>6. ASSUME NEW t \in Torrents, LtMetadata(t) PROVE Keeps
  <2> DEFINE a == [type |-> "metadata", t |-> t, id |-> lt[t].id]
  <2>1. /\ TypeInv' /\ Commits /\ \A u \in Torrents : Same(u)
        /\ NewCalls({}) /\ IoSame
        /\ a \in AlertMsgs /\ NewAlerts({a})
    BY <1>1, <1>6, LtMetadataEffect
  <2>2. {a} \subseteq QuietAlerts
    BY <2>1 DEF QuietAlerts
  <2> HIDE DEF a
  <2> QED BY <1>2, <2>1, <2>2
<1> QED BY <1>3, <1>4, <1>5, <1>6

-----------------------------------------------------------------------------
(* The alert handlers keep it                                                *)

\* A handler keeps the rest of the invariant.
LEMMA HandlerRest ==
    ASSUME IInv, HandlerSame, pc = "alerts", NewCalls(SaveCalls)
    PROVE  Rest
<1>1. UNCHANGED <<lt, alerts, pc, after, handles, seen, adds, loadedIds, removing>>
  BY DEF HandlerSame
<1>2. QuietOK'
  BY <1>1 DEF IInv, QuietOK, Quiet, Reconciling, NewCalls
<1>3. RemovalsOK'
  <2>1. \A c \in SaveCalls : c.op # "remove"
    BY DEF SaveCalls
  <2> QED BY <1>1, <2>1, RemovalsKept DEF IInv
<1>4. HandlesOK'
  BY <1>1, HandlesKept, LtBeside, AskBeside DEF IInv
<1>5. WorkOK'
  BY <1>1 DEF WorkOK
<1> QED BY <1>2, <1>3, <1>4, <1>5 DEF Rest

\* A step that posts nothing posts nothing but saves.
LEMMA NoCallsPosted == NewCalls({}) => NewCalls(SaveCalls)
<1> SUFFICES ASSUME NewCalls({}) PROVE NewCalls(SaveCalls)
  OBVIOUS
<1> QED BY DEF NewCalls

\* An event of the last add.
LEMMA NewsIs ==
    ASSUME EventsAre(events), NEW name \in {"added", "removed"}, NEW t \in Torrents, NEW id \in Ids, id = adds[t],
           Publish(name, t, id)
    PROVE  News(t, name)
<1>1. name \in EventNames /\ "added" \in EventNames /\ "removed" \in EventNames
  BY DEF EventNames
<1>2. /\ events'[<<name, t, id>>] = events[<<name, t, id>>] + 1
      /\ \A e \in EventNames \X Torrents \X Ids : e # <<name, t, id>> => events'[e] = events[e]
  BY <1>1, PublishIs
<1> SUFFICES ASSUME NEW i \in Ids, NEW n \in {"added", "removed"}
             PROVE  events'[<<n, t, i>>] = events[<<n, t, i>>] + (IF name = n /\ i = adds[t] THEN 1 ELSE 0)
  BY DEF News
<1>3. <<n, t, i>> \in EventNames \X Torrents \X Ids /\ events[<<n, t, i>>] \in Nat
  BY <1>1 DEF EventsAre
<1>4. CASE name = n /\ i = id
  BY <1>2, <1>4
<1>5. CASE ~(name = n /\ i = id)
  <2>1. <<n, t, i>> # <<name, t, id>>
    BY <1>5
  <2> QED BY <1>2, <1>3, <1>5, <2>1
<1> QED BY <1>4, <1>5

\* OnAddFailed keeps the invariant.
LEMMA OnAddFailedKeeps == IInv /\ OnAddFailed => Keeps
<1> SUFFICES ASSUME IInv, OnAddFailed PROVE Keeps
  OBVIOUS
<1>1. TypeInv /\ Core
  BY DEF IInv
<1>2. /\ TypeInv' /\ Commits /\ \A t \in Torrents \ {Alert.t} : Same(t)
      /\ Alert \in AlertMsgs /\ Alert.type = "addFailed" /\ Alert \in Items(Waiting) /\ Alert.t \in Torrents
      /\ HandlerSame /\ pc = "alerts" /\ NewCalls({})
      /\ \A t \in Torrents : LtSame(t) /\ AskSame(t) /\ QueuesSame(t) /\ RowSame(t) /\ EventsSame(t)
      /\ Once(Waiting, LifeAlerts(Alert.t)) => Items(Waiting') \cap LifeAlerts(Alert.t) = {}
      /\ \A k \in Keys : m_torrents'[k] = IF k = AlertKey /\ ~Current(k) THEN None ELSE m_torrents[k]
  BY <1>1, OnAddFailedEffect
<1>3. Rest
  BY <1>2, NoCallsPosted, HandlerRest
<1>4. ASSUME NEW t \in Torrents, Good(t), t = Alert.t PROVE Fewer(t)
  <2>1. EntryOf(t) /\ CallsOf(t) /\ AlertsOf(t)
    BY <1>4 DEF Good, LifeOf
  <2>2. Alert \in LifeAlerts(t) /\ Alert \in Items(Waiting)
    BY <1>2, <1>4 DEF LifeAlerts
  <2>3. ~Live(t)
    BY <1>2, <2>1, <2>2 DEF AlertsOf
  <2>4. lt[t] = None /\ lt'[t] = None
    BY <1>2, <2>3 DEF Live, HandlerSame
  <2>5. Items(calls') \cap AddCalls(t) = {}
    BY <1>2, <2>1, <2>2 DEF CallsOf, NewCalls
  <2>6. Items(Waiting') \cap LifeAlerts(t) = {}
    BY <1>2, <1>4, <2>1 DEF AlertsOf
  <2>7. \A f \in Forms : /\ m_torrents'[<<t, f>>] = None \/ m_torrents'[<<t, f>>] = m_torrents[<<t, f>>]
                         /\ Current(<<t, f>>) => m_torrents'[<<t, f>>] # None
    <3> SUFFICES ASSUME NEW f \in Forms
                 PROVE  /\ m_torrents'[<<t, f>>] = None \/ m_torrents'[<<t, f>>] = m_torrents[<<t, f>>]
                        /\ Current(<<t, f>>) => m_torrents'[<<t, f>>] # None
      OBVIOUS
    <3>1. <<t, f>> \in Keys
      BY KeyParts
    <3> QED BY <1>2, <3>1 DEF Current, Tracked
  <2> QED BY <1>2, <2>4, <2>5, <2>6, <2>7, FormsAre DEF Fewer
<1>5. StepOK
  <2>1. \A t \in Torrents : Safe(t) /\ Good(t) => Same(t) \/ Settling(t) \/ Fewer(t)
    BY <1>2, <1>4
  <2> QED BY <1>1, <1>2, <2>1, StepIs
<1> QED BY <1>2, <1>3, <1>5 DEF Keeps

\* An add alert of a torrent whose entry it settles.
LEMMA AddSettles ==
    ASSUME TypeInv, NEW t \in Torrents, Good(t), Alert \in AlertMsgs, Alert.type = "add", Alert \in Items(Waiting), Alert.t = t,
           Alert.form \in Forms
    PROVE  /\ Tracked(AlertKey) /\ AlertKey = <<t, Alert.form>> /\ Alone(t, Alert.form) /\ Once(Waiting, LifeAlerts(t))
           /\ Alert.id = adds[t] /\ m_torrents[AlertKey].state # "Current" /\ Items(calls) \cap AddCalls(t) = {}
<1>1. EntryOf(t) /\ CallsOf(t) /\ AlertsOf(t)
  BY DEF Good, LifeOf
<1>2. Alert \in LifeAlerts(t) /\ AlertKey = <<t, Alert.form>>
  BY DEF LifeAlerts, AlertKey
<1>3. Fresh(t, Alert.form) /\ Live(t) /\ Once(Waiting, LifeAlerts(t)) /\ Alert.id = adds[t]
  BY <1>1, <1>2 DEF AlertsOf
<1>4. Items(calls) \cap AddCalls(t) = {}
  BY <1>1, <1>3 DEF CallsOf
<1>5. Alone(t, Alert.form)
  BY <1>1, <1>3 DEF Alone, EntryOf, Fresh, Tracked
<1> QED BY <1>2, <1>3, <1>4, <1>5 DEF Fresh, Current

\* OnAddKnown keeps the invariant.
LEMMA OnAddKnownKeeps == IInv /\ OnAddKnown => Keeps
<1> SUFFICES ASSUME IInv, OnAddKnown PROVE Keeps
  OBVIOUS
<1>1. TypeInv /\ Core
  BY DEF IInv
<1>2. /\ TypeInv' /\ Commits /\ NewCalls(SaveCalls) /\ HandlerSame /\ pc = "alerts"
      /\ Alert \in AlertMsgs /\ Alert.type = "add" /\ Alert \in Items(Waiting) /\ Alert.t \in Torrents
      /\ Alert.form \in Forms /\ lt[Alert.t] # None
      /\ \A t \in Torrents : LtSame(t) /\ AskSame(t) /\ QueuesSame(t) /\ RowSame(t) /\ EventsSame(t)
      /\ \A t \in Torrents \ {Alert.t} : Same(t)
      /\ Once(Waiting, LifeAlerts(Alert.t)) => Items(Waiting') \cap LifeAlerts(Alert.t) = {}
      /\ Tracked(AlertKey) /\ Alone(Alert.t, Alert.form) =>
            /\ Settles(Alert.t, lt[Alert.t].form, m_torrents[AlertKey])
            /\ m_torrents[AlertKey].state \in {"Loading", "Current"}
  BY <1>1, OnAddKnownEffect
<1>3. Rest
  BY <1>2, HandlerRest
<1>4. ASSUME NEW t \in Torrents, Good(t), t = Alert.t PROVE Settling(t)
  <2>1. Tracked(AlertKey) /\ AlertKey = <<t, Alert.form>> /\ Alone(t, Alert.form) /\ Once(Waiting, LifeAlerts(t))
    BY <1>1, <1>2, <1>4, AddSettles
  <2>2. Items(Waiting') \cap LifeAlerts(t) = {}
    BY <1>2, <1>4, <2>1
  <2>3. PICK f \in Forms : f = Alert.form
    BY <1>2
  <2>4. /\ Tracked(<<t, f>>) /\ Settles(t, lt[t].form, m_torrents[<<t, f>>]) /\ m_torrents[<<t, f>>].state # "Adding"
    BY <1>2, <1>4, <2>1, <2>3
  <2>5. lt[t] # None /\ lt'[t] = lt[t]
    BY <1>2, <1>4 DEF HandlerSame
  <2> QED BY <1>2, <2>2, <2>4, <2>5 DEF Settling
<1>5. StepOK
  <2>1. \A t \in Torrents : Safe(t) /\ Good(t) => Same(t) \/ Settling(t) \/ Fewer(t)
    BY <1>2, <1>4
  <2> QED BY <1>1, <1>2, <2>1, StepIs
<1> QED BY <1>2, <1>3, <1>5 DEF Keeps

\* OnAddNew keeps the invariant.
LEMMA OnAddNewKeeps == IInv /\ OnAddNew => Keeps
<1> SUFFICES ASSUME IInv, OnAddNew PROVE Keeps
  OBVIOUS
<1>1. TypeInv /\ Core
  BY DEF IInv
<1>2. /\ TypeInv' /\ Commits /\ NewCalls(SaveCalls) /\ HandlerSame /\ pc = "alerts"
      /\ Alert \in AlertMsgs /\ Alert.type = "add" /\ Alert \in Items(Waiting) /\ Alert.t \in Torrents /\ Alert.id \in Ids
      /\ Alert.form \in Forms /\ lt[Alert.t] # None
      /\ \A t \in Torrents : LtSame(t) /\ AskSame(t) /\ QueuesSame(t)
      /\ \A t \in Torrents \ {Alert.t} : Same(t)
      /\ Once(Waiting, LifeAlerts(Alert.t)) => Items(Waiting') \cap LifeAlerts(Alert.t) = {}
      /\ Tracked(AlertKey) /\ Alone(Alert.t, Alert.form) =>
            /\ Settles(Alert.t, lt[Alert.t].form, m_torrents[AlertKey])
            /\ m_torrents[AlertKey].state = "Adding"
      /\ work'[Alert.t] # None
      /\ work'[Alert.t].form = IF work[Alert.t] = None THEN lt[Alert.t].form ELSE work[Alert.t].form
      /\ Publish("added", Alert.t, Alert.id)
  BY <1>1, OnAddNewEffect
<1>3. Rest
  BY <1>2, HandlerRest
<1>4. ASSUME NEW t \in Torrents, Good(t), t = Alert.t PROVE Settling(t)
  <2>1. /\ Tracked(AlertKey) /\ AlertKey = <<t, Alert.form>> /\ Alone(t, Alert.form) /\ Once(Waiting, LifeAlerts(t))
        /\ Alert.id = adds[t]
    BY <1>1, <1>2, <1>4, AddSettles
  <2>2. Items(Waiting') \cap LifeAlerts(t) = {}
    BY <1>2, <1>4, <2>1
  <2>3. PICK f \in Forms : f = Alert.form
    BY <1>2
  <2>4. /\ Tracked(<<t, f>>) /\ Settles(t, lt[t].form, m_torrents[<<t, f>>]) /\ m_torrents[<<t, f>>].state = "Adding"
    BY <1>2, <1>4, <2>1, <2>3
  <2>5. lt[t] # None /\ lt'[t] = lt[t]
    BY <1>2, <1>4 DEF HandlerSame
  <2>6. Inserted(t)
    BY <1>2, <1>4 DEF Inserted
  <2>7. News(t, "added")
    <3>1. PICK id \in Ids : id = Alert.id
      BY <1>2
    <3>2. EventsAre(events) /\ Publish("added", t, id) /\ id = adds[t] /\ "added" \in {"added", "removed"}
      BY <1>1, <1>2, <1>4, <2>1, <3>1 DEF TypeInv, Publish
    <3> QED BY <3>2, NewsIs
  <2> QED BY <1>2, <2>2, <2>4, <2>5, <2>6, <2>7 DEF Settling
<1>5. StepOK
  <2>1. \A t \in Torrents : Safe(t) /\ Good(t) => Same(t) \/ Settling(t) \/ Fewer(t)
    BY <1>2, <1>4
  <2>2. \A t \in Torrents : AskSame(t)
    BY <1>2
  <2> QED BY <1>1, <2>1, <2>2, StepIs
<1> QED BY <1>2, <1>3, <1>5 DEF Keeps

\* UntrackTorrent drops one entry and the row it matches.
LEMMA UntrackIs ==
    ASSUME TypeInv, NEW k \in Keys, UntrackTorrent(k)
    PROVE  /\ MapIs(m_torrents') /\ \A q \in Keys : m_torrents'[q] = IF q = k THEN None ELSE m_torrents[q]
           /\ EventsAre(events') /\ \A u \in Torrents \ {k[1]} : EventsSame(u)
           /\ TableIs(work') /\ \A u \in Torrents \ {k[1]} : work'[u] = work[u]
           /\ work'[k[1]] = IF Matches(work[k[1]], k[2]) THEN None ELSE work[k[1]]
           /\ Current(k) => Publish("removed", k[1], m_torrents[k].id) /\ m_torrents[k].id \in Ids
           /\ ~Current(k) => UNCHANGED events
<1>1. /\ m_torrents' = [m_torrents EXCEPT ![k] = None]
      /\ Current(k) => Publish("removed", k[1], m_torrents[k].id)
      /\ ~Current(k) => UNCHANGED events
      /\ work' = DeleteRow(work, k[1], k[2])
  BY DEF UntrackTorrent
<1>2. MapIs(m_torrents) /\ EventsAre(events) /\ TableIs(work) /\ k[1] \in Torrents /\ k[2] \in Forms /\ None \in Maybe(Entries)
  BY KeyParts DEF TypeInv, Maybe
<1>3. MapIs(m_torrents') /\ \A q \in Keys : m_torrents'[q] = IF q = k THEN None ELSE m_torrents[q]
  <2> DEFINE m == [m_torrents EXCEPT ![k] = None]
  <2>1. MapIs(m) /\ m[k] = None /\ \A q \in Keys \ {k} : m[q] = m_torrents[q]
    BY ONLY <1>2, k \in Keys, MapSet
  <2>2. m_torrents' = m
    BY <1>1
  <2> HIDE DEF m
  <2> QED BY <2>1, <2>2
<1>4. /\ TableIs(work') /\ \A u \in Torrents \ {k[1]} : work'[u] = work[u]
      /\ work'[k[1]] = IF Matches(work[k[1]], k[2]) THEN None ELSE work[k[1]]
  <2> DEFINE w == work
             t == k[1]
             f == k[2]
             d == DeleteRow(w, t, f)
  <2>1. TableIs(w) /\ t \in Torrents /\ f \in Forms
    BY <1>2
  <2>2. work' = d
    BY <1>1
  <2> HIDE DEF w, t, f
  <2>3. TableIs(d) /\ \A u \in Torrents \ {t} : d[u] = w[u]
    BY ONLY <2>1, DeleteIs
  <2>4. d[t] = IF Matches(w[t], f) THEN None ELSE w[t]
    BY ONLY <2>1, DeleteIs
  <2> HIDE DEF d
  <2> QED BY <2>2, <2>3, <2>4 DEF w, t, f
<1>5. CASE Current(k)
  <2>1. m_torrents[k].id \in Ids
    BY <1>2, <1>5, EntryFields DEF Current, Tracked
  <2>2. PICK id \in Ids : id = m_torrents[k].id
    BY <2>1
  <2>3. PICK t \in Torrents : t = k[1]
    BY <1>2
  <2>4. Publish("removed", t, id) /\ "removed" \in EventNames
    BY <1>1, <1>5, <2>2, <2>3 DEF EventNames
  <2>5. EventsAre(events') /\ \A u \in Torrents \ {t} : EventsSame(u)
    BY <1>2, <2>4, NewsOf
  <2> QED BY <1>1, <1>3, <1>4, <1>5, <2>1, <2>3, <2>5
<1>6. CASE ~Current(k)
  <2>1. UNCHANGED events
    BY <1>1, <1>6
  <2>2. EventsAre(events') /\ \A u \in Torrents : EventsSame(u)
    BY <1>2, <2>1, NoNews
  <2> QED BY <1>1, <1>3, <1>4, <1>6, <2>2
<1> QED BY <1>5, <1>6

\* OnRemoved keeps the invariant.
LEMMA OnRemovedKeeps == IInv /\ OnRemoved => Keeps
<1> SUFFICES ASSUME IInv, OnRemoved PROVE Keeps
  OBVIOUS
<1>1. TypeInv /\ Core
  BY DEF IInv
<1>2. Handles("removed") /\ UntrackTorrent(AlertKey) /\ calls' = calls /\ m_dirty' = m_dirty
  BY DEF OnRemoved
<1>3. /\ NewAlerts({}) /\ Alert \in AlertMsgs /\ Alert \in Items(Waiting) /\ Alert.type = "removed" /\ HandlerSame /\ pc = "alerts"
      /\ \A t \in Torrents : Once(Waiting, LifeAlerts(t)) /\ Alert \in LifeAlerts(t) => Items(Waiting') \cap LifeAlerts(t) = {}
  BY <1>1, <1>2, HandlesIs
<1>4. PICK t \in Torrents, f \in Forms : t = Alert.t /\ f = Alert.form
  BY <1>3, AlertFields
<1>5. Alert \in LifeAlerts(t) /\ <<t, f>> \in Keys /\ AlertKey = <<t, f>> /\ UntrackTorrent(<<t, f>>)
  BY <1>2, <1>3, <1>4, KeyParts DEF LifeAlerts, AlertKey
<1>6. /\ MapIs(m_torrents') /\ \A q \in Keys : m_torrents'[q] = IF q = <<t, f>> THEN None ELSE m_torrents[q]
      /\ EventsAre(events') /\ \A u \in Torrents \ {t} : EventsSame(u)
      /\ TableIs(work') /\ \A u \in Torrents \ {t} : work'[u] = work[u]
      /\ work'[t] = IF Matches(work[t], f) THEN None ELSE work[t]
      /\ Current(<<t, f>>) => Publish("removed", t, m_torrents[<<t, f>>].id) /\ m_torrents[<<t, f>>].id \in Ids
      /\ ~Current(<<t, f>>) => UNCHANGED events
  BY <1>1, <1>5, UntrackIs
<1>7. QueuesAre /\ DirtyIs(m_dirty) /\ EventsAre(events)
  BY <1>1 DEF TypeInv
<1>8. NewCalls({}) /\ calls' \in Seq(CallMsgs) /\ DirtyIs(m_dirty')
  BY <1>2, <1>7, CallsKept DEF NewCalls
<1>9. TypeInv' /\ Commits /\ \A u \in Torrents : LtSame(u) /\ AskSame(u)
  BY <1>1, <1>3, <1>6, <1>8, HandlerBeside
<1>10. \A u \in Torrents : QueuesSame(u)
  BY <1>3, <1>8, NothingNew, PlainQueues
<1>11. \A u \in Torrents \ {t} : Same(u)
  <2>1. \A q \in Keys : q[1] # t => m_torrents'[q] = m_torrents[q]
    BY <1>6
  <2>2. \A u \in Torrents \ {t} : MapSame(u)
    BY <2>1, MapOf
  <2>3. \A u \in Torrents \ {t} : RowSame(u) /\ EventsSame(u)
    BY <1>6 DEF RowSame
  <2> QED BY <1>9, <1>10, <2>2, <2>3 DEF Same
<1>12. Rest
  BY <1>3, <1>8, NoCallsPosted, HandlerRest
<1>13. ASSUME Good(t) PROVE Fewer(t)
  <2>1. EntryOf(t) /\ CallsOf(t) /\ AlertsOf(t)
    BY <1>13 DEF Good, LifeOf
  <2>2. ~Live(t) /\ <<t, adds[t]>> \in removing /\ Alert.id = adds[t] /\ Alert.id \in Ids
    BY <1>3, <1>5, <2>1, AlertFields DEF AlertsOf
  <2>3. lt[t] = None /\ lt'[t] = None
    BY <1>3, <2>2 DEF Live, HandlerSame
  <2>4. Items(calls') \cap AddCalls(t) = {}
    BY <1>3, <1>5, <1>8, <2>1 DEF CallsOf, NewCalls
  <2>5. Items(Waiting') \cap LifeAlerts(t) = {}
    BY <1>3, <1>5, <2>1 DEF AlertsOf
  <2>6. \A g \in Forms : m_torrents'[<<t, g>>] = None \/ m_torrents'[<<t, g>>] = m_torrents[<<t, g>>]
    BY <1>6, KeyParts
  <2>7. RowSame(t) \/ (adds[t] \in Ids /\ <<t, adds[t]>> \in removing /\ work'[t] = None)
    BY <1>6, <2>2 DEF RowSame
  <2>8. work'[t] # None /\ work[t] # None /\ work[t].form = "full" /\ Current(<<t, "full">>) => m_torrents'[<<t, "full">>] # None
    <3> SUFFICES ASSUME work'[t] # None, work[t] # None, work[t].form = "full", Current(<<t, "full">>)
                 PROVE  m_torrents'[<<t, "full">>] # None
      OBVIOUS
    <3>1. f # "full" /\ <<t, "full">> \in Keys
      BY <1>6, KeyParts, FormsAre DEF Matches
    <3> QED BY <1>6, <3>1 DEF Current, Tracked
  <2>9. EventsSame(t) \/ /\ News(t, "removed") /\ <<t, adds[t]>> \in removing
                         /\ \E g \in Forms : Current(<<t, g>>) /\ m_torrents'[<<t, g>>] = None
    <3>1. CASE Current(<<t, f>>)
      <4>1. m_torrents[<<t, f>>].id = adds[t]
        BY <2>1, <3>1 DEF EntryOf, Current
      <4>2. PICK id \in Ids : id = m_torrents[<<t, f>>].id
        BY <1>6, <3>1
      <4>3. Publish("removed", t, id) /\ id = adds[t] /\ "removed" \in {"added", "removed"}
        BY <1>6, <3>1, <4>1, <4>2 DEF Publish
      <4>4. News(t, "removed")
        BY <1>7, <4>3, NewsIs
      <4>5. m_torrents'[<<t, f>>] = None
        BY <1>5, <1>6
      <4> QED BY <2>2, <3>1, <4>4, <4>5
    <3>2. CASE ~Current(<<t, f>>)
      BY <1>6, <3>2, EventsBeside
    <3> QED BY <3>1, <3>2
  <2>10. AskSame(t) /\ QueuesSame(t)
    BY <1>9, <1>10
  <2> QED BY <2>3, <2>4, <2>5, <2>6, <2>7, <2>8, <2>9, <2>10 DEF Fewer
<1>14. StepOK
  <2>1. \A u \in Torrents : Safe(u) /\ Good(u) => Same(u) \/ Settling(u) \/ Fewer(u)
    BY <1>11, <1>13
  <2>2. \A u \in Torrents : AskSame(u)
    BY <1>9
  <2> QED BY <1>1, <2>1, <2>2, StepIs
<1> QED BY <1>9, <1>12, <1>14 DEF Keeps

-----------------------------------------------------------------------------
\* What is published of metadata.
LEMMA MetadataIs ==
    ASSUME QueuesAre, EventsAre(events), NEW map, MapIs(map), NEW k \in Keys, NEW t \in Torrents, NEW id \in Ids,
           MetadataReceived(map, k, t, id)
    PROVE  /\ NewCalls(SaveCalls) /\ EventsAre(events') /\ \A u \in Torrents : EventsSame(u)
           /\ MapIs(m_torrents') /\ \A q \in Keys \ {k} : m_torrents'[q] = map[q]
           /\ SameEntry(map[k], m_torrents'[k])
           /\ map[k] # None => m_torrents'[k].announced = TRUE
<1>1. /\ calls' = IF map[k] = None \/ ~map[k].saved THEN Append(calls, Save(t, id, TRUE, TRUE)) ELSE calls
      /\ m_torrents' = IF map[k] = None THEN map ELSE Announce(map, k)
      /\ UNCHANGED events \/ Publish("metadata", t, id)
  BY DEF MetadataReceived, Announce
<1>2. NewCalls(SaveCalls)
  <2>1. CASE calls' = Append(calls, Save(t, id, TRUE, TRUE))
    BY <2>1, SavePosted
  <2>2. CASE calls' = calls
    BY <2>2, SavesKept
  <2> QED BY <1>1, <2>1, <2>2
<1>3. EventsAre(events') /\ \A u \in Torrents : EventsSame(u)
  <2>1. CASE UNCHANGED events
    BY <2>1, NoNews
  <2>2. CASE Publish("metadata", t, id)
    BY <2>2, OtherNews
  <2> QED BY <1>1, <2>1, <2>2
<1>4. CASE map[k] = None
  <2>1. m_torrents' = map
    BY <1>1, <1>4
  <2> QED BY <1>2, <1>3, <1>4, <2>1 DEF SameEntry
<1>5. CASE map[k] # None
  <2> DEFINE p == Announce(map, k)
  <2>2. m_torrents' = p
    BY <1>1, <1>5
  <2>3a. MapIs(p)
    BY ONLY <1>5, MapIs(map), k \in Keys, AnnounceIs
  <2>3. ASSUME NEW q \in Keys \ {k} PROVE p[q] = map[q]
    BY ONLY <1>5, MapIs(map), k \in Keys, q \in Keys \ {k}, AnnounceIs
  <2>4. p[k] # None /\ p[k].id = map[k].id /\ p[k].state = map[k].state
    BY ONLY <1>5, MapIs(map), k \in Keys, AnnounceIs
  <2>5. p[k].handle = map[k].handle /\ p[k].announced = TRUE
    BY ONLY <1>5, MapIs(map), k \in Keys, AnnounceIs
  <2> HIDE DEF p
  <2> QED BY <1>2, <1>3, <1>5, <2>2, <2>3, <2>3a, <2>4, <2>5 DEF SameEntry
<1> QED BY <1>4, <1>5

\* A handler that leaves the entries what they are.
LEMMA PlainHandler ==
    ASSUME IInv, HandlerSame, pc = "alerts", NEW M \in SUBSET PlainAlerts, NewAlerts(M), NewCalls(SaveCalls),
           MapIs(m_torrents'), DirtyIs(m_dirty'), TableIs(work'), EventsAre(events'),
           \A t \in Torrents : MapSame(t) /\ RowSame(t) /\ EventsSame(t)
    PROVE  Keeps
<1>1. TypeInv /\ Core /\ calls' \in Seq(CallMsgs)
  BY DEF IInv, NewCalls
<1>2. TypeInv' /\ Commits /\ \A t \in Torrents : LtSame(t) /\ AskSame(t)
  BY <1>1, HandlerBeside
<1>3. \A t \in Torrents : QueuesSame(t)
  BY NothingNew, PlainQueues
<1>4. StepOK
  BY <1>1, <1>2, <1>3, AllSame DEF Same
<1>5. Rest
  BY HandlerRest
<1> QED BY <1>2, <1>4, <1>5 DEF Keeps

\* A change of one entry leaves other torrents alone.
LEMMA MapOfKey ==
    ASSUME NEW k \in Keys, \A q \in Keys \ {k} : m_torrents'[q] = m_torrents[q], SameEntry(m_torrents[k], m_torrents'[k])
    PROVE  \A t \in Torrents : MapSame(t)
<1> SUFFICES ASSUME NEW t \in Torrents, NEW f \in Forms PROVE SameEntry(m_torrents[<<t, f>>], m_torrents'[<<t, f>>])
  BY DEF MapSame
<1>1. <<t, f>> \in Keys
  BY KeyParts
<1> QED BY <1>1 DEF SameEntry

\* A handler that changes no entry, row or event keeps the invariant.
LEMMA NothingChanges ==
    ASSUME IInv, NEW type, Handles(type), UNCHANGED <<calls, m_torrents, m_dirty, events, work>>
    PROVE  Keeps
<1>1. TypeInv
  BY DEF IInv
<1>2. NewAlerts({}) /\ HandlerSame /\ pc = "alerts"
  BY <1>1, HandlesIs
<1>3. QueuesAre /\ MapIs(m_torrents) /\ DirtyIs(m_dirty) /\ TableIs(work) /\ EventsAre(events)
  BY <1>1 DEF TypeInv
<1>4. NewCalls(SaveCalls)
  BY <1>3, SavesKept
<1>5. \A t \in Torrents : MapSame(t) /\ RowSame(t) /\ EventsSame(t)
  BY MapBeside, RowBeside, EventsBeside
<1>6. MapIs(m_torrents') /\ DirtyIs(m_dirty') /\ TableIs(work') /\ EventsAre(events')
  BY <1>3
<1> QED BY <1>2, <1>4, <1>5, <1>6, NothingNew, PlainHandler

\* OnNotSaved and OnDropped keep the invariant.
LEMMA OnNotSavedKeeps == IInv /\ (OnNotSaved \/ OnDropped) => Keeps
  BY NothingChanges DEF OnNotSaved, OnDropped

\* The entries that OnMetadata finds by the handle of the alert.
Olds == {k \in Keys : Tracked(k) /\ k[1] = Alert.t /\ m_torrents[k].handle /\ m_torrents[k].id = Alert.id}

\* The metadata alert of a torrent that is tracked under its hash, or not at all.
LEMMA OnMetadataPlain ==
    ASSUME IInv, Handles("metadata"), Valid(Alert.t, Alert.id), UNCHANGED <<m_dirty, work>>,
           MetadataReceived(m_torrents, <<Alert.t, lt[Alert.t].form>>, Alert.t, Alert.id)
    PROVE  Keeps
<1>1. TypeInv
  BY DEF IInv
<1>2. NewAlerts({}) /\ HandlerSame /\ pc = "alerts" /\ Alert \in AlertMsgs /\ Alert.type = "metadata"
  BY <1>1, HandlesIs
<1>3. QueuesAre /\ MapIs(m_torrents) /\ DirtyIs(m_dirty) /\ TableIs(work) /\ EventsAre(events) /\ LtIs(lt)
  BY <1>1 DEF TypeInv
<1>4. PICK t \in Torrents, id \in Ids : t = Alert.t /\ id = Alert.id
  BY <1>2, AlertFields
<1>5. PICK f \in Forms : f = lt[t].form
  BY <1>3, <1>4, LtFields DEF Valid, Live
<1>6. <<t, f>> \in Keys /\ MetadataReceived(m_torrents, <<t, f>>, t, id)
  BY <1>4, <1>5, KeyParts
<1>7. /\ NewCalls(SaveCalls) /\ EventsAre(events') /\ \A u \in Torrents : EventsSame(u)
      /\ MapIs(m_torrents') /\ \A q \in Keys \ {<<t, f>>} : m_torrents'[q] = m_torrents[q]
      /\ SameEntry(m_torrents[<<t, f>>], m_torrents'[<<t, f>>])
  BY <1>3, <1>6, MetadataIs
<1>8. \A u \in Torrents : MapSame(u)
  BY <1>6, <1>7, MapOfKey
<1>9. DirtyIs(m_dirty') /\ TableIs(work') /\ \A u \in Torrents : RowSame(u)
  BY <1>3, RowBeside
<1> QED BY <1>2, <1>7, <1>8, <1>9, NothingNew, PlainHandler

\* The entry moves to the hash the torrent has now.
LEMMA OnMetadataMoves ==
    ASSUME IInv, Handles("metadata"), Valid(Alert.t, Alert.id), UNCHANGED work, NEW prev \in Olds,
           ~Tracked(<<Alert.t, lt[Alert.t].form>>),
           MetadataReceived(Rekey(m_torrents, prev, <<Alert.t, lt[Alert.t].form>>), <<Alert.t, lt[Alert.t].form>>, Alert.t, Alert.id),
           m_dirty' = MoveDirty(m_dirty, m_torrents, prev, <<Alert.t, lt[Alert.t].form>>)
    PROVE  Keeps
<1>1. TypeInv /\ Core
  BY DEF IInv
<1>2. NewAlerts({}) /\ HandlerSame /\ pc = "alerts" /\ Alert \in AlertMsgs /\ Alert.type = "metadata"
  BY <1>1, HandlesIs
<1>3. QueuesAre /\ MapIs(m_torrents) /\ DirtyIs(m_dirty) /\ TableIs(work) /\ EventsAre(events) /\ LtIs(lt)
  BY <1>1 DEF TypeInv
<1>4. PICK t \in Torrents, id \in Ids : t = Alert.t /\ id = Alert.id
  BY <1>2, AlertFields
<1>5. PICK f \in Forms : f = lt[t].form
  BY <1>3, <1>4, LtFields DEF Valid, Live
<1>6. PICK g \in Forms : prev = <<t, g>>
  BY <1>4, KeyParts DEF Olds
<1>7. /\ Tracked(<<t, g>>) /\ m_torrents[<<t, g>>].handle /\ m_torrents[<<t, g>>] # None
      /\ ~Tracked(<<t, f>>) /\ m_torrents[<<t, f>>] = None /\ g # f
  BY <1>4, <1>5, <1>6 DEF Olds, Tracked
<1> DEFINE m == Rekey(m_torrents, <<t, g>>, <<t, f>>)
<1>8. <<t, f>> \in Keys /\ <<t, g>> \in Keys /\ <<t, g>> # <<t, f>> /\ MetadataReceived(m, <<t, f>>, t, id)
  BY <1>4, <1>5, <1>6, <1>7, KeyParts
<1>9. /\ MapIs(m) /\ m[<<t, f>>] = m_torrents[<<t, g>>] /\ m[<<t, g>>] = None
      /\ \A q \in Keys \ {<<t, f>>, <<t, g>>} : m[q] = m_torrents[q]
  <2> DEFINE p == <<t, g>>
             c == <<t, f>>
             x == m_torrents
  <2>1. MapIs(x) /\ p \in Keys /\ c \in Keys /\ p # c /\ x[p] # None /\ x[c] = None
    BY <1>3, <1>7, <1>8
  <2> HIDE DEF p, c, x
  <2>2. MapIs(Rekey(x, p, c))
    BY ONLY <2>1, RekeyIs
  <2>3. Rekey(x, p, c)[c] = x[p] /\ Rekey(x, p, c)[p] = None
    BY ONLY <2>1, RekeyIs
  <2>4. \A q \in Keys \ {p, c} : Rekey(x, p, c)[q] = x[q]
    BY ONLY <2>1, RekeyIs
  <2> QED BY <2>2, <2>3, <2>4 DEF p, c, x
<1> HIDE DEF m
<1>10. /\ NewCalls(SaveCalls) /\ EventsAre(events') /\ \A u \in Torrents : EventsSame(u)
       /\ MapIs(m_torrents') /\ \A q \in Keys \ {<<t, f>>} : m_torrents'[q] = m[q]
       /\ SameEntry(m[<<t, f>>], m_torrents'[<<t, f>>])
  BY <1>3, <1>8, <1>9, MetadataIs
<1>11. /\ DirtyIs(m_dirty') /\ TableIs(work') /\ calls' \in Seq(CallMsgs) /\ \A u \in Torrents : RowSame(u)
  <2>1. m_dirty' = MoveDirty(m_dirty, m_torrents, <<t, g>>, <<t, f>>)
    BY <1>4, <1>5, <1>6
  <2>2. DirtyIs(m_dirty')
    BY <1>3, <1>8, <2>1, MovedDirtyIs
  <2> QED BY <1>3, <1>10, <2>2, RowBeside DEF NewCalls
<1>12. TypeInv' /\ Commits /\ \A u \in Torrents : LtSame(u) /\ AskSame(u)
  BY <1>1, <1>2, <1>10, <1>11, HandlerBeside
<1>13. \A u \in Torrents : QueuesSame(u)
  BY <1>2, <1>10, NothingNew, PlainQueues
<1>14. \A u \in Torrents \ {t} : Same(u)
  <2>1. \A q \in Keys : q[1] # t => m_torrents'[q] = m_torrents[q]
    BY <1>9, <1>10
  <2>2. \A u \in Torrents \ {t} : MapSame(u)
    BY <2>1, MapOf
  <2> QED BY <1>10, <1>11, <1>12, <1>13, <2>2 DEF Same
<1>15. ASSUME Good(t) PROVE Settling(t)
  <2>1. EntryOf(t) /\ AlertsOf(t)
    BY <1>15 DEF Good, LifeOf
  <2>2. lt[t] # None /\ lt'[t] = lt[t]
    BY <1>2, <1>4 DEF Valid, Live, HandlerSame
  <2>3. Current(<<t, g>>) /\ m_torrents[<<t, g>>].state = "Current"
    BY <1>7, <2>1 DEF EntryOf, Current
  <2>4. Items(Waiting') \cap LifeAlerts(t) = {}
    <3> SUFFICES ASSUME NEW x \in Items(Waiting) \cap LifeAlerts(t) PROVE FALSE
      BY <1>2 DEF NewAlerts
    <3>1. x.type \in {"add", "addFailed", "removed"} /\ x.form \in Forms
      BY AlertFields DEF LifeAlerts
    <3>2. Fresh(t, x.form)
      BY <2>1, <2>2, <3>1 DEF AlertsOf, Live
    <3> QED BY <1>7, <2>1, <2>3, <3>1, <3>2 DEF EntryOf, Fresh
  <2>5. Settles(t, lt[t].form, m_torrents[<<t, g>>])
    <3>1. m_torrents[<<t, g>>].handle \in BOOLEAN
      BY <1>3, <1>7, <1>8, EntryFields
    <3>2. m_torrents[<<t, g>>].handle = TRUE
      BY <1>7, <3>1
    <3>3. /\ m_torrents'[<<t, f>>] # None /\ m_torrents'[<<t, f>>].id = m_torrents[<<t, g>>].id
          /\ m_torrents'[<<t, f>>].state = "Current" /\ m_torrents'[<<t, f>>].handle = TRUE
      BY <1>7, <1>9, <1>10, <2>3, <3>2 DEF SameEntry
    <3>4. \A x \in Forms \ {f} : x = g
      BY <1>7, FormsAre
    <3>5. m_torrents'[<<t, g>>] = None
      BY <1>8, <1>9, <1>10
    <3> QED BY <1>5, <3>3, <3>4, <3>5 DEF Settles
  <2> QED BY <1>7, <1>10, <1>11, <1>12, <1>13, <2>2, <2>3, <2>4, <2>5 DEF Settling
<1>16. StepOK
  <2>1. \A u \in Torrents : Safe(u) /\ Good(u) => Same(u) \/ Settling(u) \/ Fewer(u)
    BY <1>14, <1>15
  <2>2. \A u \in Torrents : AskSame(u)
    BY <1>12
  <2> QED BY <1>1, <2>1, <2>2, StepIs
<1>17. Rest
  BY <1>2, <1>10, HandlerRest
<1> QED BY <1>12, <1>16, <1>17 DEF Keeps

\* OnMetadata keeps the invariant.
LEMMA OnMetadataKeeps == IInv /\ OnMetadata => Keeps
<1> SUFFICES ASSUME IInv, OnMetadata PROVE Keeps
  OBVIOUS
<1> DEFINE t == Alert.t
           hash == <<t, lt[t].form>>
<1>1. Handles("metadata") /\ UNCHANGED work
  BY DEF OnMetadata
<1>2. IF ~Valid(t, Alert.id)
      THEN UNCHANGED <<calls, m_torrents, m_dirty, events>>
      ELSE IF ~Tracked(hash) /\ Olds # {}
      THEN \E prev \in Olds : /\ MetadataReceived(Rekey(m_torrents, prev, hash), hash, t, Alert.id)
                              /\ m_dirty' = MoveDirty(m_dirty, m_torrents, prev, hash)
      ELSE /\ MetadataReceived(m_torrents, hash, t, Alert.id)
           /\ UNCHANGED m_dirty
  BY DEF OnMetadata, Olds
<1>3. CASE ~Valid(t, Alert.id)
  BY <1>1, <1>2, <1>3, NothingChanges
<1>4. CASE Valid(t, Alert.id) /\ ~Tracked(hash) /\ Olds # {}
  <2>1. PICK prev \in Olds : /\ MetadataReceived(Rekey(m_torrents, prev, hash), hash, t, Alert.id)
                             /\ m_dirty' = MoveDirty(m_dirty, m_torrents, prev, hash)
    BY <1>2, <1>4
  <2> QED BY <1>1, <1>4, <2>1, OnMetadataMoves
<1>5. CASE Valid(t, Alert.id) /\ ~(~Tracked(hash) /\ Olds # {})
  <2>1. MetadataReceived(m_torrents, hash, t, Alert.id) /\ UNCHANGED <<m_dirty, work>>
    BY <1>1, <1>2, <1>5
  <2> QED BY <1>1, <1>5, <2>1, OnMetadataPlain
<1> QED BY <1>3, <1>4, <1>5

\* What StoreResumeData does to the tables: the row of the torrent is updated in place.
LEMMA StoreIs ==
    ASSUME TypeInv, Alert \in AlertMsgs, Alert.type = "saved", StoreResumeData
    PROVE  /\ TableIs(work') /\ MapIs(m_torrents')
           /\ \A u \in Torrents : RowSame(u) /\ MapSame(u)
<1>1. MapIs(m_torrents) /\ TableIs(work) /\ LtIs(lt)
  BY DEF TypeInv
<1>2. CASE ~Valid(Alert.t, Alert.id)
  <2>1. UNCHANGED <<work, m_torrents>>
    BY <1>2 DEF StoreResumeData
  <2> QED BY <1>1, <2>1, RowBeside, MapBeside
<1>3. CASE Valid(Alert.t, Alert.id)
  <2>1. PICK t \in Torrents, g \in Forms : t = Alert.t /\ g = Alert.form
    BY AlertFields
  <2>2. PICK cfg \in Maybe(0..MaxChanges), info \in Maybe(Forms) : cfg = Alert.cfg /\ info = Alert.info
    BY AlertFields
  <2>3. lt[t] # None
    BY <1>3, <2>1 DEF Valid, Live
  <2>4. PICK f \in Forms, pos \in 0..MaxChanges : f = lt[t].form /\ pos = lt[t].pos
    BY <1>1, <2>3, LtFields
  <2> DEFINE w == work
             x == UpdateRow(w, t, f, g, cfg, pos, info)
             k == <<t, f>>
             y == MarkSaved(m_torrents, k, TRUE)
  <2>5. /\ work' = x /\ k \in Keys
        /\ (m_torrents' = y /\ m_torrents[k] # None) \/ m_torrents' = m_torrents
    BY <1>3, <2>1, <2>2, <2>4, KeyParts DEF StoreResumeData, Tracked, MarkSaved
  <2>6. TableIs(w)
    BY <1>1
  <2> HIDE DEF w
  <2>7. TableIs(x) /\ \A u \in Torrents \ {t} : x[u] = w[u]
    BY ONLY <2>6, UpdateIs, t \in Torrents, f \in Forms, g \in Forms, cfg \in Maybe(0..MaxChanges), info \in Maybe(Forms), pos \in 0..MaxChanges
  <2>8. (x[t] = None <=> w[t] = None) /\ (w[t] # None => x[t].form = w[t].form)
    BY ONLY <2>6, UpdateIs, t \in Torrents, f \in Forms, g \in Forms, cfg \in Maybe(0..MaxChanges), info \in Maybe(Forms), pos \in 0..MaxChanges
  <2> HIDE DEF x
  <2>9. TableIs(work') /\ \A u \in Torrents : RowSame(u)
    BY <2>5, <2>7, <2>8 DEF RowSame, w
  <2> HIDE DEF k
  <2>10. ASSUME m_torrents' = y, m_torrents[k] # None
         PROVE  MapIs(m_torrents') /\ \A u \in Torrents : MapSame(u)
    <3>1. MapIs(y)
      BY ONLY <1>1, <2>5, <2>10, MarkSavedIs
    <3>2. \A q \in Keys \ {k} : y[q] = m_torrents[q]
      BY ONLY <1>1, <2>5, <2>10, MarkSavedIs
    <3>3. y[k] # None /\ y[k].id = m_torrents[k].id /\ y[k].state = m_torrents[k].state /\ y[k].handle = m_torrents[k].handle
      BY ONLY <1>1, <2>5, <2>10, MarkSavedIs
    <3> HIDE DEF y
    <3>4. SameEntry(m_torrents[k], m_torrents'[k])
      BY <2>10, <3>3 DEF SameEntry
    <3>5. \A q \in Keys \ {k} : m_torrents'[q] = m_torrents[q]
      BY <2>10, <3>2
    <3> QED BY <2>5, <2>10, <3>1, <3>4, <3>5, MapOfKey
  <2>11. MapIs(m_torrents') /\ \A u \in Torrents : MapSame(u)
    BY <1>1, <2>5, <2>10, MapBeside
  <2> QED BY <2>9, <2>11
<1> QED BY <1>2, <1>3

\* OnSaved keeps the invariant.
LEMMA OnSavedKeeps == IInv /\ OnSaved => Keeps
<1> SUFFICES ASSUME IInv, OnSaved PROVE Keeps
  OBVIOUS
<1>1. TypeInv /\ Handles("saved") /\ StoreResumeData /\ UNCHANGED <<calls, m_dirty, reconcile, events>>
  BY DEF IInv, OnSaved
<1>2. NewAlerts({}) /\ HandlerSame /\ pc = "alerts" /\ Alert \in AlertMsgs /\ Alert.type = "saved"
  BY <1>1, HandlesIs
<1>3. TableIs(work') /\ MapIs(m_torrents') /\ \A u \in Torrents : RowSame(u) /\ MapSame(u)
  BY <1>1, <1>2, StoreIs
<1>4. QueuesAre /\ DirtyIs(m_dirty) /\ EventsAre(events)
  BY <1>1 DEF TypeInv
<1>5. NewCalls(SaveCalls) /\ DirtyIs(m_dirty') /\ EventsAre(events') /\ \A u \in Torrents : EventsSame(u)
  BY <1>1, <1>4, SavesKept, NoNews
<1> QED BY <1>2, <1>3, <1>5, NothingNew, PlainHandler

\* One status of a state update.
LEMMA OnUpdateKeeps == IInv /\ OnUpdate => Keeps
<1> SUFFICES ASSUME IInv, OnUpdate PROVE Keeps
  OBVIOUS
<1>1. TypeInv
  BY DEF IInv
<1>2. /\ pc = "alerts" /\ batch # <<>> /\ Alert.type = "update"
      /\ UNCHANGED <<lt, alerts, dropped, pc, after, handles, seen, toSave, awaited, m_dirty,
                   dirtyTimer, toLoad, dbVars, adds, loadedIds, removing, lost, changes>>
  BY DEF OnUpdate
<1>3. HandlerSame /\ UNCHANGED <<m_dirty, work, alerts, dropped>>
  BY <1>2 DEF HandlerSame, dbVars
<1>4. QueuesAre /\ MapIs(m_torrents) /\ DirtyIs(m_dirty) /\ TableIs(work) /\ EventsAre(events) /\ LtIs(lt)
  BY <1>1 DEF TypeInv
<1>5. DirtyIs(m_dirty') /\ TableIs(work') /\ \A u \in Torrents : RowSame(u)
  BY <1>3, <1>4, RowBeside
<1>6. Alert \in AlertMsgs
  BY <1>2, <1>4, HeadTailProperties DEF QueuesAre, Alert
<1>7. ASSUME UNCHANGED <<calls, m_torrents, events>>, NEW M \in SUBSET PlainAlerts, NewAlerts(M) PROVE Keeps
  <2>1. MapIs(m_torrents') /\ EventsAre(events') /\ \A u \in Torrents : MapSame(u) /\ EventsSame(u)
    BY <1>4, <1>7, MapBeside, EventsBeside
  <2>2. NewCalls(SaveCalls)
    BY <1>4, <1>7, SavesKept
  <2> QED BY <1>2, <1>3, <1>5, <1>7, <2>1, <2>2, PlainHandler
<1>8. CASE Alert.status = {}
  <2>1. batch' = Tail(batch) /\ UNCHANGED <<calls, m_torrents, events>>
    BY <1>8 DEF OnUpdate
  <2>2. NewAlerts({})
    BY <1>2, <1>3, <1>4, <2>1, AlertTaken
  <2> QED BY <1>7, <2>1, <2>2, NothingNew
<1>9. CASE Alert.status # {}
  <2> DEFINE x(s) == [Alert EXCEPT !.status = @ \ {s}]
  <2>1. PICK s \in Alert.status :
            /\ batch' = Tail(batch) \/ batch' = <<x(s)>> \o Tail(batch)
            /\ MetadataReceived(m_torrents, <<s.t, s.form>>, s.t, s.id) \/ UNCHANGED <<calls, m_torrents, events>>
    <3> DEFINE s == CHOOSE s \in Alert.status : TRUE
    <3>1. s \in Alert.status
      BY <1>9
    <3>2. batch' = Tail(batch) \/ batch' = <<x(s)>> \o Tail(batch)
      BY <1>9 DEF OnUpdate
    <3>3. MetadataReceived(m_torrents, <<s.t, s.form>>, s.t, s.id) \/ UNCHANGED <<calls, m_torrents, events>>
      BY <1>9 DEF OnUpdate
    <3> HIDE DEF s, x
    <3> QED BY <3>1, <3>2, <3>3
  <2>2. Alert.status \subseteq Statuses /\ Alert = [type |-> "update", status |-> Alert.status]
    BY <1>2, <1>6, AlertFields
  <2>3. s \in Statuses
    BY <2>2
  <2>4. PICK t \in Torrents, f \in Forms, id \in Ids : t = s.t /\ f = s.form /\ id = s.id
    BY <2>3 DEF Statuses
  <2>5. x(s) = [type |-> "update", status |-> Alert.status \ {s}]
    BY <2>2
  <2>6. x(s) \in AlertMsgs /\ x(s).type = "update"
    <3>1. Alert.status \ {s} \in SUBSET Statuses
      BY <2>2
    <3> QED BY <2>5, <3>1, SetAlerts
  <2>7. PICK M \in SUBSET PlainAlerts : NewAlerts(M)
    <3>1. CASE batch' = Tail(batch)
      <4>1. NewAlerts({})
        BY <1>2, <1>3, <1>4, <3>1, AlertTaken
      <4> QED BY <4>1, NothingNew
    <3>2. CASE batch' = <<x(s)>> \o Tail(batch)
      <4> DEFINE y == x(s)
      <4>1. y \in AlertMsgs /\ y.type = "update" /\ batch' = <<y>> \o Tail(batch)
        BY <2>6, <3>2
      <4> HIDE DEF y
      <4>2. NewAlerts({y})
        BY <1>2, <1>3, <1>4, <4>1, AlertReplaced
      <4>3. {y} \in SUBSET PlainAlerts
        BY <4>1 DEF PlainAlerts
      <4> QED BY <4>2, <4>3
    <3> QED BY <2>1, <3>1, <3>2
  <2>8. CASE UNCHANGED <<calls, m_torrents, events>>
    BY <1>7, <2>7, <2>8
  <2>9. CASE MetadataReceived(m_torrents, <<s.t, s.form>>, s.t, s.id)
    <3>1. <<t, f>> \in Keys /\ MetadataReceived(m_torrents, <<t, f>>, t, id)
      BY <2>4, <2>9, KeyParts
    <3>2. /\ NewCalls(SaveCalls) /\ EventsAre(events') /\ \A u \in Torrents : EventsSame(u)
          /\ MapIs(m_torrents') /\ \A q \in Keys \ {<<t, f>>} : m_torrents'[q] = m_torrents[q]
          /\ SameEntry(m_torrents[<<t, f>>], m_torrents'[<<t, f>>])
      BY <1>4, <3>1, MetadataIs
    <3>3. \A u \in Torrents : MapSame(u)
      BY <3>1, <3>2, MapOfKey
    <3> QED BY <1>2, <1>3, <1>5, <2>7, <3>2, <3>3, PlainHandler
  <2> QED BY <2>1, <2>8, <2>9
<1> QED BY <1>8, <1>9

-----------------------------------------------------------------------------
(* The jobs that leave the entries, the rows and libtorrent what they are    *)

Untouched == UNCHANGED <<lt, m_torrents, adds, loadedIds, events, removing, work>>

\* A step that touches no torrent is right.
LEMMA UntouchedIs ==
    ASSUME TypeInv, Core, Untouched, NEW N \in SUBSET PlainCalls, NEW M \in SUBSET PlainAlerts, NewCalls(N), NewAlerts(M)
    PROVE  StepOK /\ \A t \in Torrents : LtSame(t) /\ AskSame(t) /\ MapSame(t)
<1>1. UNCHANGED lt /\ UNCHANGED m_torrents /\ UNCHANGED <<adds, removing, loadedIds>> /\ UNCHANGED work /\ UNCHANGED events
  BY DEF Untouched
<1>2. \A t \in Torrents : QueuesSame(t)
  BY PlainQueues
<1>3. \A t \in Torrents : LtSame(t) /\ AskSame(t) /\ MapSame(t) /\ RowSame(t) /\ EventsSame(t)
  BY <1>1, LtBeside, MapBeside, AskBeside, RowBeside, EventsBeside
<1>4. StepOK
  BY <1>2, <1>3, AllSame DEF Same
<1> QED BY <1>3, <1>4

\* It keeps the shape of the state.
LEMMA UntouchedType ==
    ASSUME TypeInv, Untouched, rows' = rows \/ rows' = work, NEW N, NEW M, NewCalls(N), NewAlerts(M),
           DirtyIs(m_dirty'), PlaceIs(pc', after'), toLoad' = toLoad \/ toLoad' = None \/ (toLoad # None /\ toLoad' \subseteq toLoad),
           pc' = "load" \/ (pc' = "alerts" /\ after' = "chunk") => toLoad' # None,
           changes' \in 0..MaxChanges, handles' \subseteq Torrents \X Ids, SavesAre(toSave'),
           pc' \notin {"alerts", "stopWait"} => batch' = <<>>
    PROVE  TypeInv' /\ Commits
<1>1. QueuesAre'
  BY DEF QueuesAre, NewCalls, NewAlerts
<1>2. LtIs(lt)' /\ MapIs(m_torrents)' /\ TableIs(rows)' /\ TableIs(work)' /\ EventsAre(events)'
  BY DEF TypeInv, Untouched
<1>3. toLoad' = None \/ toLoad' \subseteq Torrents
  BY DEF TypeInv
<1>4. CountIs(adds', toLoad')
  BY DEF TypeInv, Untouched, CountIs
<1>5. Commits
  BY DEF Commits, Untouched
<1> QED BY <1>1, <1>2, <1>3, <1>4, <1>5 DEF TypeInv

\* A step that ends outside a reconcile and before Stop.
LEMMA LoudRest ==
    ASSUME IInv, NEW N, NewCalls(N), \A c \in N : c.op # "remove", removing' = removing, WorkOK',
           ~Quiet'
    PROVE  Rest
<1>1. QuietOK'
  BY DEF QuietOK, Quiet
<1>2. RemovalsOK'
  BY RemovalsKept DEF IInv
<1>3. HandlesOK'
  BY DEF HandlesOK, Quiet
<1> QED BY <1>1, <1>2, <1>3 DEF Rest

\* A save is no removal, and a note of dropped alerts no news of one torrent.
LEMMA PlainParts ==
    /\ \A c \in SaveCalls : c.op # "remove"
    /\ SaveCalls \subseteq PlainCalls /\ {} \subseteq SaveCalls /\ DropAlerts \subseteq PlainAlerts
  BY DEF SaveCalls, PlainCalls, DropAlerts, PlainAlerts

\* ReadAlerts and LoadRun keep the invariant.
LEMMA ReadAlertsKeeps == IInv /\ (ReadAlerts \/ LoadRun) => Keeps
<1> SUFFICES ASSUME IInv, ReadAlerts \/ LoadRun PROVE Keeps
  OBVIOUS
<1>1. /\ pc = "idle" /\ PopAlerts /\ pc' = "alerts" /\ after' \in {"idle", "chunk"} /\ (after' = "chunk" => toLoad # None)
      /\ UNCHANGED <<lt, toSave, awaited, calls, handles, seen, sessVars, dbVars, histVars>>
  BY DEF ReadAlerts, LoadRun, BeginAlerts
<1>2. /\ Untouched /\ UNCHANGED <<calls, m_dirty, toLoad, rows, work, changes, handles, toSave, removing>>
  BY <1>1 DEF Untouched, sessVars, dbVars, histVars
<1>3. TypeInv /\ Core /\ QueuesAre /\ batch = <<>> /\ changes \in 0..MaxChanges /\ handles \subseteq Torrents \X Ids
      /\ SavesAre(toSave) /\ DirtyIs(m_dirty)
  BY <1>1 DEF IInv, TypeInv
<1>4. NewAlerts(DropAlerts) /\ NewCalls({})
  BY <1>1, <1>2, <1>3, AlertsPopped, CallsKept
<1>5. StepOK
  BY <1>2, <1>3, <1>4, NothingNew, UntouchedIs
<1>6. PlaceIs(pc', after')
  BY <1>1 DEF PlaceIs
<1>7. TypeInv' /\ Commits
  BY <1>1, <1>2, <1>3, <1>4, <1>6, UntouchedType
<1>8. WorkOK' /\ ~Quiet'
  BY <1>1 DEF WorkOK, Quiet, Reconciling
<1>9. Rest
  BY <1>2, <1>4, <1>8, LoudRest
<1> QED BY <1>5, <1>7, <1>9 DEF Keeps

\* CommitAlerts keeps the invariant.
LEMMA CommitAlertsKeeps == IInv /\ CommitAlerts => Keeps
<1> SUFFICES ASSUME IInv, CommitAlerts PROVE Keeps
  OBVIOUS
<1>1. /\ pc = "alerts" /\ batch = <<>> /\ rows' = work
      /\ pc' = CASE after = "idle" -> "idle" [] after = "chunk" -> "load" [] OTHER -> "reconcile"
      /\ UNCHANGED <<ltVars, after, batch, handles, seen, toSave, awaited, sessVars, work, histVars>>
  BY DEF CommitAlerts
<1>2. /\ Untouched /\ UNCHANGED <<calls, alerts, dropped, batch, m_dirty, toLoad, changes, handles, seen, toSave, removing, after, lt>>
  BY <1>1 DEF Untouched, sessVars, ltVars, histVars
<1>3. TypeInv /\ Core /\ QueuesAre /\ changes \in 0..MaxChanges /\ handles \subseteq Torrents \X Ids
      /\ SavesAre(toSave) /\ DirtyIs(m_dirty) /\ PlaceIs(pc, after) /\ QuietOK /\ HandlesOK
  BY <1>1 DEF IInv, TypeInv
<1>4. NewAlerts({}) /\ NewCalls({})
  BY <1>2, <1>3, AlertsKept, CallsKept
<1>5. StepOK /\ \A t \in Torrents : LtSame(t) /\ AskSame(t) /\ MapSame(t)
  BY <1>2, <1>3, <1>4, NothingNew, UntouchedIs
<1>6. after \in {"idle", "chunk", "job", "loadEnd", "stop"}
  BY <1>3 DEF PlaceIs
<1>7. /\ after = "idle" => pc' = "idle" 
      /\ after = "chunk" => pc' = "load"
      /\ after \in {"job", "loadEnd", "stop"} => pc' = "reconcile"
  BY <1>1, <1>6
<1>8. PlaceIs(pc', after')
  BY <1>2, <1>6, <1>7 DEF PlaceIs
<1>9. TypeInv' /\ Commits
  <2>1. pc' = "load" \/ (pc' = "alerts" /\ after' = "chunk") => toLoad' # None
    BY <1>1, <1>2, <1>3, <1>6, <1>7 DEF TypeInv
  <2> QED BY <1>1, <1>2, <1>3, <1>4, <1>8, <2>1, UntouchedType
<1>10. WorkOK'
  BY <1>1, <1>2 DEF WorkOK
<1>11. CASE after \in {"idle", "chunk"}
  <2>1. ~Quiet'
    BY <1>2, <1>7, <1>11 DEF Quiet, Reconciling
  <2> QED BY <1>2, <1>4, <1>5, <1>9, <1>10, <2>1, LoudRest DEF Keeps
<1>12. CASE after \in {"job", "loadEnd", "stop"}
  <2>1. Reconciling /\ Quiet /\ pc' = "reconcile"
    BY <1>1, <1>7, <1>12 DEF Quiet, Reconciling
  <2>2. QuietOK'
    BY <1>2, <1>3, <2>1 DEF QuietOK
  <2>3. RemovalsOK'
    BY <1>2 DEF IInv, RemovalsOK
  <2>4. HandlesOK'
    BY <1>1, <1>2, <1>3, <2>1 DEF HandlesOK
  <2> QED BY <1>5, <1>9, <1>10, <2>2, <2>3, <2>4 DEF Keeps, Rest
<1> QED BY <1>6, <1>11, <1>12

\* A reconcile begins: the torrents are listed, and all alerts are popped.
LEMMA BeginReconcileKeeps ==
    ASSUME IInv, pc \in {"idle", "load"}, NEW then \in {"job", "loadEnd", "stop"}, BeginReconcile(then),
           UNCHANGED <<m_torrents, m_dirty, toLoad, dbVars, histVars>>
    PROVE  Keeps
<1>1. /\ calls = <<>> /\ calls' = calls /\ PopAlerts /\ pc' = "alerts" /\ after' = then /\ UNCHANGED <<lt, toSave>>
      /\ handles' = {<<t, lt[t].id>> : t \in {u \in Torrents : Live(u)}}
  BY DEF BeginReconcile, BeginAlerts, Synced
<1>2. /\ Untouched /\ UNCHANGED <<m_dirty, toLoad, rows, work, changes, toSave, removing>>
  BY <1>1 DEF Untouched, dbVars, histVars
<1>3. TypeInv /\ Core /\ QueuesAre /\ batch = <<>> /\ changes \in 0..MaxChanges /\ LtIs(lt)
      /\ SavesAre(toSave) /\ DirtyIs(m_dirty)
  BY DEF IInv, TypeInv
<1>4. NewAlerts(DropAlerts) /\ NewCalls({}) /\ alerts' = <<>>
  BY <1>1, <1>3, AlertsPopped, CallsKept
<1>5. StepOK
  BY <1>2, <1>3, <1>4, NothingNew, UntouchedIs
<1>6. PlaceIs(pc', after')
  BY <1>1 DEF PlaceIs
<1>7. handles' \subseteq Torrents \X Ids
  <2>1. \A t \in Torrents : Live(t) => lt[t].id \in Ids
    BY <1>3, LtFields DEF Live
  <2> QED BY <1>1, <2>1
<1>8. TypeInv' /\ Commits
  BY <1>1, <1>2, <1>3, <1>4, <1>6, <1>7, UntouchedType
<1>9. WorkOK' /\ Reconciling'
  BY <1>1 DEF WorkOK, Reconciling
<1>10. QuietOK'
  BY <1>1, <1>4, NoItems DEF QuietOK
<1>11. RemovalsOK'
  BY <1>1, NoItems DEF RemovalsOK
<1>12. HandlesOK'
  <2>1. ASSUME NEW t \in Torrents, NEW id, <<t, id>> \in handles' PROVE lt'[t] # None /\ lt'[t].id = id
    BY <1>1, <2>1 DEF Live
  <2>2. ASSUME NEW t \in Torrents, lt'[t] # None PROVE <<t, lt'[t].id>> \in handles'
    BY <1>1, <2>2 DEF Live
  <2> QED BY <2>1, <2>2 DEF HandlesOK
<1> QED BY <1>5, <1>8, <1>9, <1>10, <1>11, <1>12 DEF Keeps, Rest

\* ReconcileJob, LoadFinish and Stop keep the invariant.
LEMMA ReconcileStartKeeps == IInv /\ (ReconcileJob \/ LoadFinish \/ Stop) => Keeps
<1> SUFFICES ASSUME IInv, ReconcileJob \/ LoadFinish \/ Stop PROVE Keeps
  OBVIOUS
<1>1. /\ pc \in {"idle", "load"} /\ UNCHANGED <<m_torrents, m_dirty, toLoad, dbVars, histVars>>
      /\ BeginReconcile("job") \/ BeginReconcile("loadEnd") \/ BeginReconcile("stop")
  BY DEF ReconcileJob, LoadFinish, Stop, sessVars
<1> QED BY <1>1, BeginReconcileKeeps

\* The io thread posts calls other than an add or a removal and is idle afterwards.
LEMMA PostsKeeps ==
    ASSUME IInv, pc \in {"idle", "load", "saveState"}, pc' = "idle", UNCHANGED <<after, handles, batch, alerts, dropped, toSave, rows>>,
           Untouched, NEW N \in SUBSET PlainCalls, NewCalls(N), \A c \in N : c.op # "remove", DirtyIs(m_dirty'),
           toLoad' = toLoad \/ toLoad' = None \/ (toLoad # None /\ toLoad' \subseteq toLoad), changes' \in 0..MaxChanges
    PROVE  Keeps
<1>3. TypeInv /\ Core /\ QueuesAre /\ batch = <<>> /\ handles \subseteq Torrents \X Ids
      /\ SavesAre(toSave) /\ PlaceIs(pc, after) /\ WorkOK
  BY DEF IInv, TypeInv
<1>4. NewAlerts({})
  BY <1>3, AlertsKept
<1>5. StepOK
  BY <1>3, <1>4, NothingNew, UntouchedIs
<1>6. PlaceIs(pc', after')
  BY <1>3 DEF PlaceIs
<1>7. TypeInv' /\ Commits
  BY <1>3, <1>4, <1>6, UntouchedType
<1>8. WorkOK' /\ ~Quiet' /\ removing' = removing
  BY <1>3 DEF WorkOK, Quiet, Reconciling, Untouched
<1>9. Rest
  BY <1>8, LoudRest
<1> QED BY <1>5, <1>7, <1>9 DEF Keeps

\* PostTorrentUpdates and LoadFinishEmpty keep the invariant.
LEMMA PostUpdatesKeeps == IInv /\ (PostTorrentUpdates \/ LoadFinishEmpty) => Keeps
<1> SUFFICES ASSUME IInv, PostTorrentUpdates \/ LoadFinishEmpty PROVE Keeps
  OBVIOUS
<1>1. /\ pc \in {"idle", "load"} /\ pc' = "idle" /\ UNCHANGED <<after, handles, batch, alerts, dropped, toSave, rows>> /\ Untouched
      /\ m_dirty' = m_dirty /\ (toLoad' = toLoad \/ toLoad' = None) /\ changes' = changes
      /\ calls' = Append(calls, [op |-> "updates"])
  BY DEF PostTorrentUpdates, LoadFinishEmpty, PostUpdates, Untouched, ioVars, sessVars, dbVars, histVars
<1>2. QueuesAre /\ DirtyIs(m_dirty) /\ changes \in 0..MaxChanges
  BY DEF IInv, TypeInv
<1> DEFINE c == [op |-> "updates"]
<1>3. c \in CallMsgs /\ c.op = "updates" /\ calls' = Append(calls, c)
  BY <1>1, UpdatesCall
<1> HIDE DEF c
<1>4. NewCalls({c})
  BY <1>2, <1>3, CallPosted
<1>5. {c} \in SUBSET PlainCalls /\ \A d \in {c} : d.op # "remove"
  BY <1>3 DEF PlainCalls
<1>6. DirtyIs(m_dirty') /\ changes' \in 0..MaxChanges
  BY <1>1, <1>2
<1> QED BY <1>1, <1>4, <1>5, <1>6, PostsKeeps

\* A save is a call.
LEMMA SavesAreCalls ==
    ASSUME NEW t \in Torrents, NEW id \in Ids, NEW b \in BOOLEAN, NEW i \in BOOLEAN
    PROVE  Save(t, id, b, i) \in SaveCalls
<1>1. Save(t, id, b, i) \in CallMsgs
  BY CallsMade
<1>2. Save(t, id, b, i).op = "save"
  BY DEF Save
<1> QED BY <1>1, <1>2 DEF SaveCalls

\* A set of saves is posted.
LEMMA SavesPosted ==
    ASSUME QueuesAre, NEW S \in SUBSET SaveCalls, IsFiniteSet(S), calls' = calls \o Listed(S)
    PROVE  NewCalls(SaveCalls)
<1>1. S \in SUBSET CallMsgs
  BY DEF SaveCalls
<1>2. NewCalls(S)
  BY <1>1, CallsListed
<1>3. \A t \in Torrents : S \cap AddCalls(t) = {}
  BY DEF SaveCalls, AddCalls
<1> QED BY <1>2, <1>3 DEF NewCalls

\* SaveDirty keeps the invariant.
LEMMA SaveDirtyKeeps == IInv /\ SaveDirty => Keeps /\ NewCalls(SaveCalls)
<1> SUFFICES ASSUME IInv, SaveDirty PROVE Keeps /\ NewCalls(SaveCalls)
  OBVIOUS
<1> DEFINE f == [k \in DirtyKeys |-> Save(k[1], m_torrents[k].id, m_dirty[k] = "force", FALSE)]
           S == {f[k] : k \in DirtyKeys}
<1>1. /\ pc = "idle" /\ pc' = "idle" /\ UNCHANGED <<after, handles, batch, alerts, dropped, toSave, rows>> /\ Untouched
      /\ m_dirty' = [k \in Keys |-> "no"] /\ toLoad' = toLoad /\ changes' = changes
      /\ calls' = calls \o Listed({Save(k[1], m_torrents[k].id, m_dirty[k] = "force", FALSE) : k \in DirtyKeys})
  BY DEF SaveDirty, Untouched, ioVars, dbVars, histVars
<1>2. {Save(k[1], m_torrents[k].id, m_dirty[k] = "force", FALSE) : k \in DirtyKeys} = S
  OBVIOUS
<1>3. QueuesAre /\ MapIs(m_torrents) /\ changes \in 0..MaxChanges
  BY DEF IInv, TypeInv
<1>4. ASSUME NEW k \in DirtyKeys PROVE f[k] \in SaveCalls
  <2>1. k \in Keys /\ m_torrents[k] # None
    BY DEF DirtyKeys, Tracked
  <2>2. k[1] \in Torrents /\ m_torrents[k].id \in Ids
    BY <1>3, <2>1, EntryFields, KeyParts
  <2>3. f[k] = Save(k[1], m_torrents[k].id, m_dirty[k] = "force", FALSE)
    OBVIOUS
  <2> QED BY <2>2, <2>3, SavesAreCalls
<1>5. IsFiniteSet(DirtyKeys)
  <2>1. DirtyKeys \subseteq Keys
    BY DEF DirtyKeys
  <2> QED BY <2>1, KeysFinite, FS_Subset
<1>6. f \in [DirtyKeys -> S]
  OBVIOUS
<1>7. S \in SUBSET SaveCalls
  BY <1>4
<1>8. calls' = calls \o Listed(S)
  BY <1>1, <1>2
<1> HIDE DEF f
<1>9. IsFiniteSet(S)
  BY <1>5, <1>6, ImageIsFinite
<1> HIDE DEF S
<1>10. NewCalls(SaveCalls)
  BY <1>3, <1>7, <1>8, <1>9, SavesPosted
<1>11. DirtyIs(m_dirty') /\ changes' \in 0..MaxChanges
  BY <1>1, <1>3 DEF DirtyIs
<1> QED BY <1>1, <1>10, <1>11, PlainParts, PostsKeeps

\* SaveStateSave keeps the invariant.
LEMMA SaveStateSaveKeeps == IInv /\ SaveStateSave => Keeps /\ NewCalls(SaveCalls)
<1> SUFFICES ASSUME IInv, SaveStateSave PROVE Keeps /\ NewCalls(SaveCalls)
  OBVIOUS
<1> DEFINE L == {u \in Torrents : Live(u) /\ lt[u].unsaved}
           f == [t \in L |-> Save(t, lt[t].id, FALSE, FALSE)]
           S == {f[t] : t \in L}
<1>1. /\ pc = "saveState" /\ pc' = "idle" /\ UNCHANGED <<after, handles, batch, alerts, dropped, toSave, rows>> /\ Untouched
      /\ m_dirty' = m_dirty /\ toLoad' = toLoad /\ changes' = changes /\ calls = <<>>
      /\ calls' = Listed({Save(t, lt[t].id, FALSE, FALSE) : t \in {u \in Torrents : Live(u) /\ lt[u].unsaved}})
  BY DEF SaveStateSave, Untouched, sessVars, dbVars, histVars, Synced
<1>2. {Save(t, lt[t].id, FALSE, FALSE) : t \in {u \in Torrents : Live(u) /\ lt[u].unsaved}} = S
  OBVIOUS
<1>3. QueuesAre /\ LtIs(lt) /\ DirtyIs(m_dirty) /\ changes \in 0..MaxChanges
  BY DEF IInv, TypeInv
<1>4. ASSUME NEW t \in L PROVE f[t] \in SaveCalls
  <2>2. t \in Torrents /\ lt[t].id \in Ids
    BY <1>3, LtFields DEF Live
  <2>3. f[t] = Save(t, lt[t].id, FALSE, FALSE)
    OBVIOUS
  <2> QED BY <2>2, <2>3, SavesAreCalls
<1>5. IsFiniteSet(L)
  BY SessionAssumption, FS_Subset
<1>6. f \in [L -> S]
  OBVIOUS
<1>7. S \in SUBSET SaveCalls
  BY <1>4
<1> HIDE DEF f, L
<1>9. IsFiniteSet(S)
  BY <1>5, <1>6, ImageIsFinite
<1>8. calls' = calls \o Listed(S)
  <2>1. Listed(S) \in Seq(S)
    BY <1>9, ListedItems
  <2>2. <<>> \o Listed(S) = Listed(S)
    BY <2>1, ConcatEmptySeq
  <2> QED BY <1>1, <1>2, <2>2
<1> HIDE DEF S
<1>10. NewCalls(SaveCalls)
  BY <1>3, <1>7, <1>8, <1>9, SavesPosted
<1>11. DirtyIs(m_dirty') /\ changes' \in 0..MaxChanges
  BY <1>1, <1>3 DEF DirtyIs
<1> QED BY <1>1, <1>10, <1>11, PlainParts, PostsKeeps

\* UserChange keeps the invariant.
LEMMA UserChangeKeeps ==
    ASSUME IInv, NEW k \in Keys, NEW op \in {"configure", "queue"}, UserChange(k, op)
    PROVE  Keeps
<1> DEFINE c == [op |-> op, t |-> k[1], id |-> m_torrents[k].id, cfg |-> changes', pos |-> changes']
<1>1. /\ pc = "idle" /\ pc' = "idle" /\ UNCHANGED <<after, handles, batch, alerts, dropped, toSave, rows>> /\ Untouched
      /\ toLoad' = toLoad /\ changes' = changes + 1 /\ changes < MaxChanges /\ Tracked(k)
      /\ calls' = Append(calls, c)
      /\ m_dirty' = [m_dirty EXCEPT ![k] = IF op = "queue" \/ @ = "force" THEN "force" ELSE "plain"]
  BY DEF UserChange, Untouched, ioVars, dbVars, MarkDirty, Current
<1>2. QueuesAre /\ MapIs(m_torrents) /\ DirtyIs(m_dirty) /\ changes \in 0..MaxChanges
  BY DEF IInv, TypeInv
<1>3. changes' \in 0..MaxChanges
  BY <1>1, <1>2, IdsAre
<1>4. k[1] \in Torrents /\ m_torrents[k].id \in Ids
  BY <1>1, <1>2, EntryFields, KeyParts DEF Tracked
<1>5. c \in CallMsgs /\ c.op = op
  BY <1>3, <1>4, CallsMade
<1> HIDE DEF c
<1>6. NewCalls({c})
  BY <1>1, <1>2, <1>5, CallPosted
<1>7. {c} \in SUBSET PlainCalls /\ \A d \in {c} : d.op # "remove"
  BY <1>5 DEF PlainCalls
<1>8. DirtyIs(m_dirty')
  BY <1>1, <1>2 DEF DirtyIs
<1> QED BY <1>1, <1>3, <1>6, <1>7, <1>8, PostsKeeps

-----------------------------------------------------------------------------
(* Stop                                                                      *)

\* A step of Stop that leaves the tables alone.
LEMMA StopsKeeps ==
    ASSUME IInv, pc \in {"stopStatus", "stopSave", "stopWait"}, batch = <<>>, pc' \in {"stopSave", "stopWait", "down"},
           UNCHANGED <<after, handles, toLoad, rows, changes>>, Untouched, NewCalls(SaveCalls), NEW M \in SUBSET DropAlerts, NewAlerts(M),
           Items(alerts') \subseteq Items(alerts), Items(batch') \subseteq Items(alerts) \cup DropAlerts, pc' # "stopWait" => batch' = <<>>,
           DirtyIs(m_dirty'), SavesAre(toSave')
    PROVE  Keeps
<1>3. TypeInv /\ Core /\ QueuesAre /\ handles \subseteq Torrents \X Ids
      /\ PlaceIs(pc, after) /\ WorkOK /\ changes \in 0..MaxChanges /\ QuietOK /\ RemovalsOK
  BY DEF IInv, TypeInv
<1>5. StepOK
  BY <1>3, NothingNew, PlainParts, UntouchedIs
<1>6. PlaceIs(pc', after')
  BY <1>3 DEF PlaceIs
<1>7. TypeInv' /\ Commits
  BY <1>3, <1>6, UntouchedType
<1>8. WorkOK' /\ Quiet /\ ~Reconciling' /\ removing' = removing
  BY <1>3 DEF WorkOK, Quiet, Reconciling, Untouched
<1>9. QuietOK'
  BY <1>3, <1>8 DEF QuietOK, NewCalls
<1>10. RemovalsOK'
  BY <1>3, <1>8, PlainParts, RemovalsKept
<1>11. HandlesOK'
  BY <1>8 DEF HandlesOK
<1> QED BY <1>5, <1>7, <1>8, <1>9, <1>10, <1>11 DEF Keeps, Rest

\* StopStatus keeps the invariant.
LEMMA StopStatusKeeps == IInv /\ StopStatus => Keeps
<1> SUFFICES ASSUME IInv, StopStatus PROVE Keeps
  OBVIOUS
<1> DEFINE f == [t \in NeedSave |-> [t |-> t, id |-> lt[t].id, unsaved |-> lt[t].unsaved]]
           S == {f[t] : t \in NeedSave}
<1>1. /\ pc = "stopStatus" /\ pc' = "stopSave" /\ Untouched
      /\ UNCHANGED <<calls, alerts, dropped, batch, after, handles, toLoad, rows, changes>>
      /\ m_dirty' = [k \in Keys |-> "no"]
      /\ toSave' = {[t |-> t, id |-> lt[t].id, unsaved |-> lt[t].unsaved] : t \in NeedSave}
  BY DEF StopStatus, Untouched, ltVars, dbVars, histVars
<1>2. toSave' = S
  BY <1>1
<1>3. QueuesAre /\ LtIs(lt) /\ batch = <<>>
  BY <1>1 DEF IInv, TypeInv
<1>4. NewCalls(SaveCalls) /\ NewAlerts({})
  BY <1>1, <1>3, SavesKept, AlertsKept
<1>5. NeedSave \subseteq Torrents /\ \A t \in NeedSave : Live(t)
  BY DEF NeedSave
<1>6. IsFiniteSet(NeedSave)
  BY <1>5, SessionAssumption, FS_Subset
<1>7. ASSUME NEW t \in NeedSave PROVE f[t] \in [t : Torrents, id : Ids, unsaved : BOOLEAN]
  <2>1. t \in Torrents /\ lt[t].id \in Ids /\ lt[t].unsaved \in BOOLEAN
    BY <1>3, <1>5, LtFields DEF Live
  <2> QED BY <2>1
<1>8. f \in [NeedSave -> S] /\ S \subseteq [t : Torrents, id : Ids, unsaved : BOOLEAN]
  BY <1>7
<1> HIDE DEF f
<1>9. IsFiniteSet(S)
  BY <1>6, <1>8, ImageIsFinite
<1> HIDE DEF S
<1>10. SavesAre(toSave') /\ DirtyIs(m_dirty')
  BY <1>1, <1>2, <1>8, <1>9 DEF SavesAre, DirtyIs
<1>11. Items(batch') \subseteq Items(alerts) \cup DropAlerts /\ batch' = <<>>
  BY <1>1, <1>3, NoItems
<1>12. Items(alerts') \subseteq Items(alerts) /\ {} \in SUBSET DropAlerts
  BY <1>1
<1> QED BY <1>1, <1>3, <1>4, <1>10, <1>11, <1>12, StopsKeeps

\* StopChunk keeps the invariant.
LEMMA StopChunkKeeps == IInv /\ StopChunk => Keeps /\ NewCalls(SaveCalls)
<1> SUFFICES ASSUME IInv, StopChunk PROVE Keeps /\ NewCalls(SaveCalls)
  OBVIOUS
<1>1. /\ pc = "stopSave" /\ pc' = "stopWait" /\ Untouched
      /\ UNCHANGED <<alerts, dropped, batch, after, handles, toLoad, rows, changes, m_dirty>>
  BY DEF StopChunk, Untouched, sessVars, dbVars, histVars
<1>2. PICK chunk \in SUBSET toSave :
          /\ calls' = calls \o Listed({Save(c.t, c.id, MissingTi(c.t) \/ ~c.unsaved, MissingTi(c.t)) : c \in chunk})
          /\ toSave' = toSave \ chunk
  BY DEF StopChunk
<1>3. QueuesAre /\ batch = <<>> /\ SavesAre(toSave) /\ DirtyIs(m_dirty)
  BY <1>1 DEF IInv, TypeInv
<1> DEFINE f == [c \in chunk |-> Save(c.t, c.id, MissingTi(c.t) \/ ~c.unsaved, MissingTi(c.t))]
           S == {f[c] : c \in chunk}
<1>4. IsFiniteSet(chunk) /\ IsFiniteSet(toSave \ chunk)
  BY <1>3, FS_Subset DEF SavesAre
<1>5. ASSUME NEW c \in chunk PROVE f[c] \in SaveCalls
  <2>1. c \in [t : Torrents, id : Ids, unsaved : BOOLEAN]
    BY <1>3 DEF SavesAre
  <2>2. c.t \in Torrents /\ c.id \in Ids
    BY <2>1
  <2>3. MissingTi(c.t) \in BOOLEAN
    BY DEF MissingTi
  <2>4. f[c] = Save(c.t, c.id, MissingTi(c.t) \/ ~c.unsaved, MissingTi(c.t))
    OBVIOUS
  <2> QED BY <2>2, <2>3, <2>4, SavesAreCalls
<1>6. f \in [chunk -> S] /\ S \in SUBSET SaveCalls /\ calls' = calls \o Listed(S)
  BY <1>2, <1>5
<1> HIDE DEF f
<1>7. IsFiniteSet(S)
  BY <1>4, <1>6, ImageIsFinite
<1> HIDE DEF S
<1>8. NewCalls(SaveCalls) /\ NewAlerts({})
  BY <1>1, <1>3, <1>6, <1>7, SavesPosted, AlertsKept
<1>10. SavesAre(toSave') /\ DirtyIs(m_dirty')
  BY <1>1, <1>2, <1>3, <1>4 DEF SavesAre, DirtyIs
<1>11. Items(batch') \subseteq Items(alerts) \cup DropAlerts /\ batch' = <<>>
  BY <1>1, <1>3, NoItems
<1>12. Items(alerts') \subseteq Items(alerts) /\ {} \in SUBSET DropAlerts
  BY <1>1
<1> QED BY <1>1, <1>3, <1>8, <1>10, <1>11, <1>12, StopsKeeps

\* StopRead and StopChunkDone keep the invariant.
LEMMA StopReadKeeps == IInv /\ (StopRead \/ StopChunkDone) => Keeps
<1> SUFFICES ASSUME IInv, StopRead \/ StopChunkDone PROVE Keeps
  OBVIOUS
<1>1. /\ pc = "stopWait" /\ pc' \in {"stopSave", "stopWait", "down"} /\ Untouched /\ batch = <<>>
      /\ UNCHANGED <<calls, after, handles, toLoad, rows, changes, m_dirty, toSave>>
      /\ \/ PopAlerts /\ pc' = "stopWait"
         \/ UNCHANGED <<alerts, dropped, batch>>
  BY DEF StopRead, StopChunkDone, Untouched, ltVars, sessVars, dbVars, histVars
<1>2. QueuesAre /\ SavesAre(toSave) /\ DirtyIs(m_dirty)
  BY <1>1 DEF IInv, TypeInv
<1>3. NewCalls(SaveCalls) /\ SavesAre(toSave') /\ DirtyIs(m_dirty')
  BY <1>1, <1>2, SavesKept
<1>4. CASE PopAlerts /\ pc' = "stopWait"
  <2>1. NewAlerts(DropAlerts) /\ alerts' = <<>> /\ Items(batch') \subseteq Items(alerts) \cup DropAlerts
    BY <1>1, <1>2, <1>4, AlertsPopped
  <2>2. Items(alerts') \subseteq Items(alerts)
    BY <2>1, NoItems
  <2> QED BY <1>1, <1>3, <1>4, <2>1, <2>2, StopsKeeps
<1>5. CASE UNCHANGED <<alerts, dropped, batch>>
  <2>1. NewAlerts({}) /\ Items(batch') \subseteq Items(alerts) \cup DropAlerts /\ batch' = <<>>
    BY <1>1, <1>2, <1>5, AlertsKept, NoItems
  <2>2. Items(alerts') \subseteq Items(alerts) /\ {} \in SUBSET DropAlerts
    BY <1>5
  <2> QED BY <1>1, <1>3, <2>1, <2>2, StopsKeeps
<1> QED BY <1>1, <1>4, <1>5

\* StopAlert keeps the invariant.
LEMMA StopAlertKeeps == IInv /\ StopAlert => Keeps
<1> SUFFICES ASSUME IInv, StopAlert PROVE Keeps
  OBVIOUS
<1>1. /\ pc = "stopWait" /\ batch # <<>> /\ batch' = Tail(batch) /\ rows' = IF batch' = <<>> THEN work' ELSE rows
      /\ UNCHANGED <<lt, calls, alerts, dropped, pc, after, handles, seen, toSave, m_dirty, toLoad,
                     adds, loadedIds, removing, changes>>
  BY DEF StopAlert, ltVars
<1>2. TypeInv /\ QueuesAre /\ Core /\ QuietOK /\ RemovalsOK /\ TableIs(rows)
  BY DEF IInv, TypeInv
<1>3. NewAlerts({}) /\ Alert \in AlertMsgs /\ Alert \in Items(batch) /\ Items(batch') \subseteq Items(batch)
  BY <1>1, <1>2, AlertTaken
<1>4. Alert.type # "removed"
  BY <1>1, <1>2, <1>3 DEF QuietOK, QuietAlerts, DropAlerts
<1>5. UNCHANGED events /\ ((Alert.type = "saved" /\ StoreResumeData) \/ UNCHANGED <<work, m_torrents>>)
  BY <1>4 DEF StopAlert
<1>6. TableIs(work') /\ MapIs(m_torrents') /\ \A u \in Torrents : RowSame(u) /\ MapSame(u)
  <2>1. CASE Alert.type = "saved" /\ StoreResumeData
    BY <1>2, <1>3, <2>1, StoreIs
  <2>2. CASE UNCHANGED <<work, m_torrents>>
    BY <1>2, <2>2, RowBeside, MapBeside DEF TypeInv
  <2> QED BY <1>5, <2>1, <2>2
<1>7. NewCalls({})
  BY <1>1, <1>2, CallsKept
<1>8. \A u \in Torrents : LtSame(u) /\ AskSame(u) /\ EventsSame(u) /\ QueuesSame(u)
  BY <1>1, <1>3, <1>5, <1>7, LtBeside, AskBeside, EventsBeside, NothingNew, PlainQueues
<1>9. StepOK
  BY <1>2, <1>6, <1>8, AllSame DEF Same
<1>10. Commits /\ TableIs(rows')
  BY <1>1, <1>2, <1>6 DEF Commits
<1>11. QueuesAre'
  BY <1>3, <1>7 DEF QueuesAre, NewCalls, NewAlerts
<1>12. TypeInv'
  BY <1>1, <1>2, <1>5, <1>6, <1>10, <1>11 DEF TypeInv
<1>13. QuietOK'
  BY <1>1, <1>2, <1>3 DEF QuietOK, Quiet, Reconciling
<1>14. RemovalsOK'
  BY <1>1, <1>2 DEF RemovalsOK
<1>15. HandlesOK' /\ WorkOK'
  BY <1>1 DEF HandlesOK, Reconciling, WorkOK
<1> QED BY <1>9, <1>10, <1>12, <1>13, <1>14, <1>15 DEF Keeps, Rest

\* Nothing at all happens.
LEMMA StutterKeeps == IInv /\ UNCHANGED vars => Keeps
<1> SUFFICES ASSUME IInv, UNCHANGED vars PROVE Keeps
  OBVIOUS
<1>1. /\ Untouched /\ UNCHANGED <<lt, calls, alerts, dropped, pc, after, batch, handles, seen, toSave, m_dirty, toLoad, rows, changes,
                                  m_torrents, work, adds, loadedIds, events, removing>>
  BY DEF vars, Untouched, ltVars, ioVars, sessVars, dbVars, histVars
<1>2. TypeInv /\ QueuesAre /\ Core /\ QuietOK /\ RemovalsOK /\ HandlesOK /\ WorkOK
  BY DEF IInv, TypeInv
<1>3. NewAlerts({}) /\ NewCalls({})
  BY <1>1, <1>2, AlertsKept, CallsKept
<1>4. StepOK /\ \A t \in Torrents : LtSame(t) /\ AskSame(t) /\ MapSame(t)
  BY <1>1, <1>2, <1>3, NothingNew, UntouchedIs
<1>5. TypeInv' /\ Commits
  <2>1. /\ DirtyIs(m_dirty') /\ PlaceIs(pc', after') /\ changes' \in 0..MaxChanges /\ handles' \subseteq Torrents \X Ids /\ SavesAre(toSave')
        /\ pc' \notin {"alerts", "stopWait"} => batch' = <<>>
        /\ pc' = "load" \/ (pc' = "alerts" /\ after' = "chunk") => toLoad' # None
    BY <1>1, <1>2 DEF TypeInv
  <2> QED BY <1>1, <1>2, <1>3, <2>1, UntouchedType
<1>6. QuietOK' /\ RemovalsOK'
  BY <1>1, <1>2 DEF QuietOK, Quiet, Reconciling, RemovalsOK
<1>7. HandlesOK'
  BY <1>1, <1>2, <1>4, HandlesKept
<1>8. WorkOK'
  BY <1>1, <1>2 DEF WorkOK
<1> QED BY <1>4, <1>5, <1>6, <1>7, <1>8 DEF Keeps, Rest

-----------------------------------------------------------------------------
(* Adds and removals                                                         *)

\* The entry and the call of an add of t under f.
AddedEntry(t, f, state, e) == e \in Entries /\ e.id = adds[t] + 1 /\ e.state = state /\ e.handle = FALSE
AddedCall(t, f, c) == c \in AddCalls(t) /\ c.id = adds[t] + 1 /\ c.form = f
Adds(t, f, e, c) ==
    /\ adds' = [adds EXCEPT ![t] = @ + 1] /\ m_torrents' = [m_torrents EXCEPT ![<<t, f>>] = e]
    /\ calls' = Append(calls, c)

\* What Session::Add does when the torrent is not tracked.
LEMMA AddIs ==
    ASSUME NEW t \in Torrents, NEW form \in Forms, NEW meta \in BOOLEAN, NEW cfg \in Maybe(0..MaxChanges),
           NEW pos \in 0..MaxChanges, NEW state \in {"Adding", "Loading"}, adds[t] + 1 \in Ids,
           \A f \in Forms : ~Tracked(<<t, f>>), Add(t, form, meta, cfg, pos, state)
    PROVE  \E e, c : AddedEntry(t, form, state, e) /\ AddedCall(t, form, c) /\ Adds(t, form, e, c)
<1> DEFINE e == Entry(state, adds[t] + 1, FALSE, meta, meta)
           c == [op |-> "add", t |-> t, id |-> adds[t] + 1, form |-> form, meta |-> meta, cfg |-> cfg, pos |-> pos]
<1>1. Adds(t, form, e, c)
  BY DEF Add, Adds
<1>2. AddedEntry(t, form, state, e)
  BY DEF Entry, Entries, AddedEntry
<1>3. c \in CallMsgs /\ c.op = "add" /\ c.t = t /\ c.id = adds[t] + 1 /\ c.form = form
  BY CallsMade
<1>4. AddedCall(t, form, c)
  BY <1>3 DEF AddedCall, AddCalls
<1> HIDE DEF e, c
<1> QED BY <1>1, <1>2, <1>4

\* An add, of a user or of the load job, keeps the invariant.
LEMMA AddKeeps ==
    ASSUME IInv, NEW t \in Torrents, NEW form \in Forms, NEW state \in {"Adding", "Loading"}, adds[t] + 1 \in Ids,
           \A f \in Forms : ~Tracked(<<t, f>>), NEW e, NEW c, AddedEntry(t, form, state, e), AddedCall(t, form, c), Adds(t, form, e, c),
           pc \in {"idle", "load"}, pc' = "idle",
           UNCHANGED <<lt, alerts, dropped, after, batch, handles, toSave, m_dirty, rows, work, events, removing, changes>>,
           toLoad' = None \/ (toLoad # None /\ toLoad' \subseteq toLoad /\ t \notin toLoad') \/ (toLoad' = toLoad /\ adds[t] < MaxAdds),
           loadedIds' = IF state = "Loading" THEN loadedIds \cup {<<t, adds[t] + 1>>} ELSE loadedIds,
           state = "Loading" => work[t] # None
    PROVE  Keeps
<1>1. /\ TypeInv /\ Core /\ QueuesAre /\ batch = <<>> /\ RemovalsOK /\ WorkOK
      /\ adds \in [Torrents -> 0..Top] /\ Top \in Nat /\ MaxAdds \in Nat
      /\ toLoad # None => toLoad \subseteq Torrents /\ \A u \in toLoad : adds[u] <= MaxAdds /\ StoredForms # {}
  BY IdsAre DEF IInv, TypeInv, CountIs
<1>2. /\ MapIs(m_torrents')
      /\ \A q \in Keys \ {<<t, form>>} : m_torrents'[q] = m_torrents[q]
      /\ m_torrents'[<<t, form>>] # None /\ m_torrents'[<<t, form>>].id = adds[t] + 1
      /\ m_torrents'[<<t, form>>].state = state /\ m_torrents'[<<t, form>>].handle = FALSE
      /\ adds' \in [Torrents -> 0..Top] /\ adds'[t] = adds[t] + 1 /\ \A u \in Torrents \ {t} : adds'[u] = adds[u]
  <2> DEFINE k == <<t, form>>
             m == m_torrents
             x == [m EXCEPT ![k] = e]
  <2>1. e \in Entries /\ e.id = adds[t] + 1 /\ e.state = state /\ e.handle = FALSE /\ m_torrents' = x /\ k \in Keys
    BY KeyParts DEF AddedEntry, Adds
  <2>2. e # None /\ e \in Maybe(Entries) /\ (e # None /\ e.state = "Current" => e.handle)
    BY <2>1, NoneAssumption DEF Maybe
  <2>3. MapIs(m)
    BY <1>1 DEF TypeInv
  <2>4. Ids = 1..Top
    BY IdsAre
  <2>5. adds' \in [Torrents -> 0..Top] /\ adds'[t] = adds[t] + 1 /\ \A u \in Torrents \ {t} : adds'[u] = adds[u]
    BY <1>1, <2>4 DEF Adds
  <2> HIDE DEF m, k
  <2>6. k \in Keys
    BY <2>1
  <2>7. MapIs(x) /\ x[k] = e /\ \A q \in Keys \ {k} : x[q] = m[q]
    BY ONLY <2>6, <2>2, <2>3, MapSet
  <2> HIDE DEF x
  <2> QED BY <2>1, <2>2, <2>5, <2>7 DEF m, k
<1>3. /\ c \in AddCalls(t) /\ c.id = adds[t] + 1 /\ c.form = form /\ NewCalls({c})
      /\ Items(calls) \cap AddCalls(t) = {} => Once(calls', AddCalls(t))
  <2>1. c \in AddCalls(t) /\ c.id = adds[t] + 1 /\ c.form = form /\ c \in CallMsgs /\ calls' = Append(calls, c)
    BY DEF AddedCall, Adds, AddCalls
  <2>2. NewCalls({c})
    BY <1>1, <2>1, CallPosted
  <2>3. Items(calls) \cap AddCalls(t) = {} => Once(calls', AddCalls(t))
    BY <1>1, <2>1, OnceNone, OnceAppend DEF QueuesAre
  <2> QED BY <2>1, <2>2, <2>3
<1>4. NewAlerts({})
  BY <1>1, AlertsKept
<1>5. CountIs(adds', toLoad') /\ (toLoad' = None \/ toLoad' \subseteq Torrents)
  <2>1. adds[t] < MaxAdds => adds'[t] <= MaxAdds
    BY <1>1, <1>2
  <2>2. ASSUME toLoad' # None, NEW u \in toLoad' PROVE u \in Torrents /\ adds'[u] <= MaxAdds /\ StoredForms # {}
    <3>1. toLoad # None /\ u \in toLoad /\ (u = t => adds[t] < MaxAdds)
      BY <1>1, <2>2
    <3> QED BY <1>1, <1>2, <2>1, <3>1
  <2> QED BY <1>2, <2>2 DEF CountIs
<1>6. TypeInv'
  <2>1. QueuesAre'
    BY <1>3, <1>4 DEF QueuesAre, NewCalls, NewAlerts
  <2>2. PlaceIs(pc', after')
    BY <1>1 DEF TypeInv, PlaceIs
  <2> QED BY <1>1, <1>2, <1>5, <2>1, <2>2 DEF TypeInv
<1>7. Commits
  BY DEF Commits
<1>8. /\ \A u \in Torrents : LtSame(u) /\ RowSame(u) /\ EventsSame(u)
  BY LtBeside, RowBeside, EventsBeside
<1>9. \A u \in Torrents \ {t} : Same(u)
  <2>1. \A q \in Keys : q[1] # t => m_torrents'[q] = m_torrents[q]
    BY <1>2
  <2>2. \A u \in Torrents \ {t} : MapSame(u)
    BY <2>1, MapOf
  <2>3. \A u \in Torrents \ {t} : AskSame(u)
    BY <1>2 DEF AskSame
  <2>4. ASSUME NEW u \in Torrents \ {t} PROVE QueuesSame(u)
    <3>1. {c} \cap AddCalls(u) = {} /\ {} \cap LifeAlerts(u) = {}
      BY <1>3 DEF AddCalls
    <3> QED BY <1>3, <1>4, <3>1, QueuesBeside
  <2> QED BY <1>8, <2>2, <2>3, <2>4 DEF Same
<1>10. Asks(t, form, state)
  <2>1. \A g \in Forms \ {form} : m_torrents'[<<t, g>>] = None
    BY <1>2, KeyParts DEF Tracked
  <2> QED BY <1>2, <2>1 DEF Asks
<1>11. Safe(t)' => Safe(t)
  <2>1. Settled(t)' <=> Settled(t)
    BY DEF Settled, Calm
  <2>2. adds'[t] <= 1 => adds[t] <= 1
    BY <1>1, <1>2
  <2> QED BY <2>1, <2>2 DEF Safe
<1>12. ASSUME Safe(t)' PROVE Good(t)'
  <2>1. Good(t)
    BY <1>1, <1>11, <1>12 DEF Core
  <2> QED BY <1>1, <1>3, <1>4, <1>8, <1>10, <1>12, <2>1, GoodAsked
<1>13. KeepsRow(t)
  BY DEF KeepsRow
<1>14. ASSUME NEW u \in Torrents \ {t} PROVE (Safe(u)' => Safe(u) /\ Good(u)') /\ (Safe(u) => KeepsRow(u))
  <2>1. AskSame(u) /\ Same(u)
    BY <1>9 DEF Same
  <2>2. Safe(u)' <=> Safe(u)
    BY <2>1, AskKept
  <2> QED BY <1>1, <2>1, <2>2, GoodSame DEF Core
<1>15. StepOK
  BY <1>11, <1>12, <1>13, <1>14 DEF StepOK
<1>16. WorkOK' /\ ~Quiet'
  BY <1>1 DEF WorkOK, Quiet, Reconciling
<1>17. \A d \in {c} : d.op # "remove"
  BY <1>3 DEF AddCalls
<1>18. Rest
  BY <1>3, <1>16, <1>17, LoudRest
<1> QED BY <1>6, <1>7, <1>15, <1>18 DEF Keeps

\* UserAdd keeps the invariant.
LEMMA UserAddKeeps ==
    ASSUME IInv, NEW t \in Torrents, UserAdd(t)
    PROVE  Keeps
<1>1. /\ pc = "idle" /\ adds[t] < MaxAdds /\ pc' = "idle" /\ toLoad' = toLoad
      /\ UNCHANGED <<lt, alerts, dropped, after, batch, handles, toSave, m_dirty, rows, work, events, removing, changes, loadedIds>>
  BY DEF UserAdd, ioVars, dbVars
<1>2. PICK form \in Forms, meta \in BOOLEAN : Add(t, form, meta, 0, 0, "Adding") /\ adds' # adds
  <2>1. PICK src \in {<<"half", FALSE>>, <<"full", TRUE>>, <<"full", FALSE>>} : Add(t, src[1], src[2], 0, 0, "Adding") /\ adds' # adds
    BY DEF UserAdd
  <2>2. src[1] \in Forms /\ src[2] \in BOOLEAN
    <3>1. CASE src = <<"half", FALSE>>
      BY <3>1 DEF Forms
    <3>2. CASE src = <<"full", TRUE>>
      BY <3>2 DEF Forms
    <3>3. CASE src = <<"full", FALSE>>
      BY <3>3 DEF Forms
    <3> QED BY <3>1, <3>2, <3>3
  <2> QED BY <2>1, <2>2
<1>3. \A f \in Forms : ~Tracked(<<t, f>>)
  BY <1>2 DEF Add
<1>4. adds[t] \in 0..Top /\ Top \in Nat /\ MaxAdds \in Nat /\ MaxAdds <= Top /\ Ids = 1..Top /\ MaxChanges \in Nat
  BY IdsAre DEF IInv, TypeInv, CountIs
<1>5. adds[t] + 1 \in Ids /\ 0 \in 0..MaxChanges
  BY <1>1, <1>4
<1>6. 0 \in Maybe(0..MaxChanges)
  BY <1>5 DEF Maybe
<1>7. PICK e, c : AddedEntry(t, form, "Adding", e) /\ AddedCall(t, form, c) /\ Adds(t, form, e, c)
  BY <1>2, <1>3, <1>5, <1>6, AddIs
<1> QED BY <1>1, <1>3, <1>5, <1>7, AddKeeps

\* LoadRow keeps the invariant.
LEMMA LoadRowKeeps ==
    ASSUME IInv, NEW t \in Torrents, LoadRow(t)
    PROVE  Keeps
<1>1. /\ pc = "load" /\ t \in toLoad /\ pc' = "idle" /\ toLoad' = toLoad \ {t}
      /\ UNCHANGED <<lt, alerts, dropped, after, batch, handles, toSave, m_dirty, rows, work, events, removing, changes>>
      /\ loadedIds' = IF adds' # adds THEN loadedIds \cup {<<t, adds'[t]>>} ELSE loadedIds
  BY DEF LoadRow, dbVars
<1>2. /\ toLoad # None /\ adds \in [Torrents -> 0..Top] /\ adds[t] <= MaxAdds /\ StoredForms # {} /\ TableIs(rows) /\ QueuesAre
      /\ DirtyIs(m_dirty) /\ changes \in 0..MaxChanges
  BY <1>1 DEF IInv, TypeInv, CountIs
<1>3. work = rows
  BY <1>1 DEF IInv, WorkOK
<1>4. CASE UNCHANGED <<m_torrents, calls, adds>>
  <2>1. Untouched /\ NewCalls({})
    BY <1>1, <1>2, <1>4, CallsKept DEF Untouched
  <2>2. toLoad' \subseteq toLoad /\ DirtyIs(m_dirty') /\ changes' \in 0..MaxChanges
    BY <1>1, <1>2
  <2> QED BY <1>1, <1>2, <2>1, <2>2, NothingNew, PostsKeeps
<1>5. CASE ~UNCHANGED <<m_torrents, calls, adds>>
  <2> DEFINE form == IF rows[t].info = None THEN rows[t].key ELSE rows[t].info
             meta == rows[t].info # None
             cfg == rows[t].cfg
             pos == rows[t].pos
  <2>1. rows[t] # None /\ Add(t, form, meta, cfg, pos, "Loading")
    BY <1>5 DEF LoadRow
  <2>2. form \in Forms /\ cfg \in Maybe(0..MaxChanges) /\ pos \in 0..MaxChanges /\ meta \in BOOLEAN
    BY <1>2, <2>1, RowFields DEF Maybe
  <2> HIDE DEF form, meta, cfg, pos
  <2>3. \A f \in Forms : ~Tracked(<<t, f>>)
    BY <1>5, <2>1 DEF Add
  <2>4. adds' = [adds EXCEPT ![t] = @ + 1]
    BY <2>1, <2>3 DEF Add
  <2>5. adds[t] + 1 \in Ids
    BY <1>2, IdsAre
  <2>6. adds'[t] = adds[t] + 1 /\ adds' # adds
    BY <1>2, <2>4, IdsAre
  <2>7. loadedIds' = loadedIds \cup {<<t, adds[t] + 1>>}
    BY <1>1, <2>6
  <2>8. toLoad' \subseteq toLoad /\ t \notin toLoad' /\ work[t] # None
    BY <1>1, <1>3, <2>1
  <2>9. PICK e, c : AddedEntry(t, form, "Loading", e) /\ AddedCall(t, form, c) /\ Adds(t, form, e, c)
    BY <2>1, <2>2, <2>3, <2>5, AddIs
  <2> QED BY <1>1, <1>2, <2>2, <2>3, <2>5, <2>7, <2>8, <2>9, AddKeeps
<1> QED BY <1>4, <1>5

\* UserRemove keeps the invariant.
LEMMA UserRemoveKeeps ==
    ASSUME IInv, NEW k \in Keys, UserRemove(k)
    PROVE  Keeps
<1>1. PICK t \in Torrents, f \in Forms : k = <<t, f>>
  BY KeyParts
<1>2. TypeInv /\ Core /\ QueuesAre /\ MapIs(m_torrents) /\ RemovalsOK /\ WorkOK
  BY DEF IInv, TypeInv
<1>3. Current(<<t, f>>) /\ <<t, f>> \in Keys
  BY <1>1 DEF UserRemove
<1>4. PICK id \in Ids : id = m_torrents[<<t, f>>].id
  BY <1>2, <1>3, EntryFields DEF Current, Tracked
<1> DEFINE c == [op |-> "remove", t |-> t, id |-> id]
<1>5. /\ pc = "idle" /\ calls' = Append(calls, c) /\ removing' = removing \cup {<<t, id>>}
      /\ UNCHANGED <<lt, alerts, dropped, pc, after, batch, handles, seen, toSave, m_torrents, m_dirty, toLoad, rows, work,
                     adds, loadedIds, events, changes>>
  BY <1>1, <1>4 DEF UserRemove, ioVars, sessVars, dbVars
<1>6. c \in CallMsgs /\ c.op = "remove" /\ c.t = t /\ c.id = id
  BY CallsMade
<1> HIDE DEF c
<1>7. NewCalls({c}) /\ Items(calls') = Items(calls) \cup {c} /\ NewAlerts({})
  BY <1>2, <1>5, <1>6, CallPosted, AlertsKept
<1>8. \A u \in Torrents : LtSame(u) /\ RowSame(u) /\ EventsSame(u) /\ MapSame(u)
  BY <1>5, LtBeside, RowBeside, EventsBeside, MapBeside
<1>9. \A u \in Torrents : QueuesSame(u)
  <2>1. {c} \in SUBSET PlainCalls
    BY <1>6 DEF PlainCalls
  <2> QED BY <1>7, <2>1, NothingNew, PlainQueues
<1>10. \A u \in Torrents \ {t} : Same(u)
  <2>1. \A u \in Torrents \ {t} : AskSame(u)
    BY <1>5 DEF AskSame
  <2> QED BY <1>8, <1>9, <2>1 DEF Same
<1>11. Safe(t)' => Safe(t)
  BY <1>5 DEF Safe, Settled, Calm
<1>12. ASSUME Good(t) PROVE Good(t)'
  <2>1. /\ adds'[t] = adds[t]
        /\ \A i : /\ <<t, i>> \in removing' <=> <<t, i>> \in removing \/ i = m_torrents[<<t, f>>].id
                  /\ <<t, i>> \in loadedIds' <=> <<t, i>> \in loadedIds
    BY <1>4, <1>5
  <2> QED BY <1>2, <1>3, <1>8, <1>9, <1>12, <2>1, GoodDismissed
<1>13. KeepsRow(t)
  BY <1>5 DEF KeepsRow
<1>14. ASSUME NEW u \in Torrents \ {t} PROVE (Safe(u)' => Safe(u) /\ Good(u)') /\ (Safe(u) => KeepsRow(u))
  <2>1. AskSame(u) /\ Same(u)
    BY <1>10 DEF Same
  <2>2. Safe(u)' <=> Safe(u)
    BY <2>1, AskKept
  <2> QED BY <1>2, <2>1, <2>2, GoodSame DEF Core
<1>15. StepOK
  BY <1>2, <1>11, <1>12, <1>13, <1>14 DEF StepOK, Core
<1>16. TypeInv' /\ Commits
  <2>1. QueuesAre'
    BY <1>7 DEF QueuesAre, NewCalls, NewAlerts
  <2> QED BY <1>2, <1>5, <2>1 DEF TypeInv, Commits
<1>17. QuietOK' /\ HandlesOK' /\ WorkOK'
  BY <1>2, <1>5 DEF QuietOK, Quiet, HandlesOK, Reconciling, WorkOK
<1>18. RemovalsOK'
  BY <1>2, <1>5, <1>6, <1>7 DEF RemovalsOK
<1> QED BY <1>15, <1>16, <1>17, <1>18 DEF Keeps, Rest

-----------------------------------------------------------------------------
(* The reconcile                                                             *)

\* The next torrent of the list is in libtorrent, and no alert of its beginning or end waits.
LEMMA NextIs ==
    ASSUME IInv, NEW t \in Torrents, NEW id \in Ids, NEW f \in Forms, ReconcileNext(<<t, id>>, <<t, f>>)
    PROVE  /\ lt[t] # None /\ lt[t].id = id /\ lt[t].form = f /\ lt' = lt
           /\ \A u \in Torrents : LtSame(u) /\ AskSame(u) /\ QueuesSame(u)
           /\ Items(Waiting') \cap LifeAlerts(t) = {}
           /\ \A g \in Forms : Good(t) /\ Tracked(<<t, g>>) => Alone(t, g) /\ m_torrents[<<t, g>>].id = id
           /\ Good(t) => \E g \in Forms : Tracked(<<t, g>>)
<1>1. /\ pc = "reconcile" /\ <<t, id>> \in handles /\ <<t, f>> = <<t, lt[t].form>>
      /\ UNCHANGED <<lt, calls, alerts, dropped, batch, adds, loadedIds, removing>>
  BY DEF ReconcileNext, ltVars
<1>2. TypeInv /\ QueuesAre /\ batch = <<>> /\ HandlesOK /\ QuietOK
  BY <1>1 DEF IInv, TypeInv
<1>3. Reconciling /\ Quiet
  BY <1>1 DEF Reconciling, Quiet
<1>4. lt[t] # None /\ lt[t].id = id /\ lt[t].form = f
  BY <1>1, <1>2, <1>3 DEF HandlesOK
<1>5. NewCalls({}) /\ NewAlerts({})
  BY <1>1, <1>2, CallsKept, AlertsKept
<1>6. \A u \in Torrents : LtSame(u) /\ AskSame(u) /\ QueuesSame(u)
  BY <1>1, <1>5, LtBeside, AskBeside, NothingNew, PlainQueues
<1>7. Items(Waiting') \cap LifeAlerts(t) = {}
  <2>1. Items(Waiting') \subseteq Items(Waiting)
    BY <1>5 DEF NewAlerts
  <2>2. Items(Waiting) = Items(batch) \cup Items(alerts)
    BY <1>2, WaitingIs
  <2>3. Items(Waiting) \subseteq QuietAlerts
    BY <1>2, <1>3, <2>2, NoItems DEF QuietOK
  <2> QED BY <2>1, <2>3 DEF QuietAlerts, LifeAlerts
<1>8. ASSUME NEW g \in Forms, Good(t), Tracked(<<t, g>>) PROVE Alone(t, g) /\ m_torrents[<<t, g>>].id = id
  BY <1>4, <1>8 DEF Good, LifeOf, EntryOf, Alone, Tracked, Live
<1>9. ASSUME Good(t) PROVE \E g \in Forms : Tracked(<<t, g>>)
  BY <1>4, <1>9 DEF Good, LifeOf, EntryOf, Live
<1> QED BY <1>1, <1>4, <1>6, <1>7, <1>8, <1>9

\* A step of the reconcile on one torrent.
LEMMA ReconcileStep ==
    ASSUME IInv, NEW t \in Torrents, NEW id \in Ids, NEW f \in Forms, ReconcileNext(<<t, id>>, <<t, f>>),
           MapIs(m_torrents'), DirtyIs(m_dirty'), TableIs(work'), EventsAre(events'),
           \A q \in Keys : q[1] # t => m_torrents'[q] = m_torrents[q],
           \A u \in Torrents \ {t} : RowSame(u) /\ EventsSame(u),
           Good(t) => (Same(t) \/ Settling(t)) /\ \A g \in Forms \ {f} : m_torrents'[<<t, g>>] = None
    PROVE  Keeps
<1>1. /\ pc = "reconcile" /\ <<t, id>> \in handles /\ handles' = handles \ {<<t, id>>} /\ seen' = seen \cup {<<t, f>>}
      /\ UNCHANGED <<lt, calls, alerts, dropped, batch, pc, after, toSave, toLoad, rows, adds, loadedIds, removing, changes>>
  BY DEF ReconcileNext, ltVars
<1>2. /\ lt[t] # None /\ lt[t].id = id /\ lt[t].form = f
      /\ \A u \in Torrents : LtSame(u) /\ AskSame(u) /\ QueuesSame(u)
  BY NextIs
<1>3. TypeInv /\ Core /\ QuietOK /\ RemovalsOK /\ HandlesOK
  BY DEF IInv
<1>4. TypeInv' /\ Commits
  <2>1. QueuesAre'
    BY <1>1, <1>3 DEF TypeInv, QueuesAre
  <2> QED BY <1>1, <1>3, <2>1 DEF TypeInv, Commits
<1>5. \A u \in Torrents \ {t} : MapSame(u)
  BY MapOf
<1>6. \A u \in Torrents \ {t} : Same(u)
  BY <1>2, <1>5 DEF Same
<1>7. StepOK
  <2>1. \A u \in Torrents : Safe(u) /\ Good(u) => Same(u) \/ Settling(u) \/ Fewer(u)
    BY <1>6
  <2>2. \A u \in Torrents : AskSame(u)
    BY <1>2
  <2> QED BY <1>3, <2>1, <2>2, StepIs
<1>8. QuietOK' /\ RemovalsOK' /\ WorkOK'
  BY <1>1, <1>3 DEF QuietOK, Quiet, Reconciling, RemovalsOK, WorkOK
<1>9. HandlesOK'
  <2>1. Reconciling
    BY <1>1 DEF Reconciling
  <2>2. /\ \A u \in Torrents : \A i : <<u, i>> \in handles => lt[u] # None /\ lt[u].id = i
        /\ \A u \in Torrents : lt[u] # None /\ <<u, lt[u].id>> \notin handles =>
              (Safe(u) => \A g \in Forms : Tracked(<<u, g>>) => <<u, g>> \in seen)
    BY <1>3, <2>1 DEF HandlesOK
  <2>3. \A u \in Torrents : \A i : <<u, i>> \in handles' => lt'[u] # None /\ lt'[u].id = i
    BY <1>1, <2>2
  <2>4. ASSUME NEW u \in Torrents, lt'[u] # None, <<u, lt'[u].id>> \notin handles', Safe(u)', NEW g \in Forms, Tracked(<<u, g>>)'
        PROVE  <<u, g>> \in seen'
    <3>1. Safe(u)
      BY <1>2, <2>4, AskKept
    <3>2. CASE u = t
      <4>1. Good(t)
        BY <1>3, <3>1, <3>2 DEF Core
      <4>2. g = f
        BY <2>4, <3>2, <4>1 DEF Tracked
      <4> QED BY <1>1, <3>2, <4>2
    <3>3. CASE u # t
      <4>1. <<u, lt[u].id>> \notin handles /\ lt[u] # None
        BY <1>1, <2>4, <3>3
      <4>2. Tracked(<<u, g>>)
        BY <1>5, <2>4, <3>3, EntrySame
      <4> QED BY <1>1, <2>2, <3>1, <4>1, <4>2
    <3> QED BY <3>2, <3>3
  <2> QED BY <1>1, <2>3, <2>4 DEF HandlesOK
<1> QED BY <1>4, <1>7, <1>8, <1>9 DEF Keeps, Rest

\* The map after the hash is brought up to date.
LEMMA ReconciledIs ==
    ASSUME MapIs(m_torrents), DirtyIs(m_dirty), NEW t \in Torrents, NEW id \in Ids, NEW f \in Forms
    PROVE  /\ MapIs(ReconciledMap(<<t, id>>, <<t, f>>)) /\ DirtyIs(ReconciledDirty(<<t, id>>, <<t, f>>))
           /\ \A q \in Keys : q[1] # t => ReconciledMap(<<t, id>>, <<t, f>>)[q] = m_torrents[q]
           /\ \A g \in Forms : Tracked(<<t, g>>) /\ Alone(t, g) /\ m_torrents[<<t, g>>].id = id =>
                 /\ ReconciledMap(<<t, id>>, <<t, f>>)[<<t, f>>] = m_torrents[<<t, g>>]
                 /\ \A x \in Forms \ {f} : ReconciledMap(<<t, id>>, <<t, f>>)[<<t, x>>] = None
<1> DEFINE h == <<t, id>>
           k == <<t, f>>
           map == ReconciledMap(h, k)
           dirty == ReconciledDirty(h, k)
<1>1. k \in Keys /\ h[1] = t /\ h[2] = id
  BY KeyParts
<1>2. CASE Tracked(k) \/ Owners(h, k) = {}
  <2>1. map = m_torrents /\ dirty = m_dirty
    BY <1>2 DEF ReconciledMap, ReconciledDirty
  <2>2. ASSUME NEW g \in Forms, Tracked(<<t, g>>), Alone(t, g), m_torrents[<<t, g>>].id = id
        PROVE  g = f
    <3>1. ASSUME g # f PROVE FALSE
      <4>1. <<t, g>> \in Keys /\ <<t, g>> # k
        BY <3>1, KeyParts
      <4>2. <<t, g>> \in Owners(h, k)
        BY <1>1, <2>2, <4>1 DEF Owners
      <4>3. m_torrents[k] = None
        BY <2>2, <3>1 DEF Alone
      <4> QED BY <1>2, <4>2, <4>3 DEF Tracked
    <3> QED BY <3>1
  <2> HIDE DEF map, dirty
  <2>3. ASSUME NEW g \in Forms, Tracked(<<t, g>>), Alone(t, g), m_torrents[<<t, g>>].id = id
        PROVE  map[k] = m_torrents[<<t, g>>] /\ \A x \in Forms \ {f} : map[<<t, x>>] = None
    BY <2>1, <2>2, <2>3 DEF Alone
  <2> HIDE DEF h, k
  <2>4. MapIs(map) /\ DirtyIs(dirty) /\ \A q \in Keys : q[1] # t => map[q] = m_torrents[q]
    BY <2>1
  <2> QED BY <2>3, <2>4 DEF map, dirty, h, k
<1>3. CASE ~(Tracked(k) \/ Owners(h, k) = {})
  <2>1. PICK o \in Owners(h, k) : map = Rekey(m_torrents, o, k) /\ dirty = MoveDirty(m_dirty, m_torrents, o, k)
    BY <1>3 DEF ReconciledMap, ReconciledDirty
  <2>2. PICK g \in Forms : o = <<t, g>> /\ g # f /\ Tracked(<<t, g>>)
    BY <1>1, KeyParts DEF Owners
  <2>3. o \in Keys /\ o # k /\ m_torrents[o] # None /\ m_torrents[k] = None
    BY <1>3, <2>2, KeyParts DEF Tracked
  <2> HIDE DEF map, dirty, h, k
  <2>4. MapIs(map) /\ map[k] = m_torrents[o] /\ map[o] = None
    BY <1>1, <2>1, <2>3, RekeyIs
  <2>5. \A q \in Keys \ {o, k} : map[q] = m_torrents[q]
    BY <1>1, <2>1, <2>3, RekeyIs
  <2>6. DirtyIs(dirty)
    BY <1>1, <2>1, <2>3, MovedDirtyIs
  <2>7. \A q \in Keys : q[1] # t => map[q] = m_torrents[q]
    BY <2>2, <2>5 DEF k
  <2>8. \A x \in Forms \ {f} : <<t, x>> = o
    BY <2>2, FormsAre
  <2>9. \A x \in Forms \ {f} : map[<<t, x>>] = None
    BY <2>4, <2>8
  <2>10. ASSUME NEW y \in Forms, Tracked(<<t, y>>), Alone(t, y) PROVE y = g
    BY <2>2, <2>10 DEF Alone, Tracked
  <2>11. ASSUME NEW y \in Forms, Tracked(<<t, y>>), Alone(t, y) PROVE map[k] = m_torrents[<<t, y>>]
    BY <2>2, <2>4, <2>10, <2>11
  <2> QED BY <2>4, <2>6, <2>7, <2>9, <2>11 DEF map, dirty, h, k
<1> QED BY <1>2, <1>3

\* The reconcile settles the entry of the torrent.
LEMMA ReconciledSettles ==
    ASSUME IInv, NEW t \in Torrents, NEW id \in Ids, NEW f \in Forms, ReconcileNext(<<t, id>>, <<t, f>>),
           \A q \in Keys \ {<<t, f>>} : m_torrents'[q] = ReconciledMap(<<t, id>>, <<t, f>>)[q],
           m_torrents'[<<t, f>>] # None, m_torrents'[<<t, f>>].id = ReconciledMap(<<t, id>>, <<t, f>>)[<<t, f>>].id,
           m_torrents'[<<t, f>>].state = "Current", m_torrents'[<<t, f>>].handle = TRUE
    PROVE  /\ \A q \in Keys : q[1] # t => m_torrents'[q] = m_torrents[q]
           /\ Good(t) => \E g \in Forms : /\ Tracked(<<t, g>>) /\ ReconciledMap(<<t, id>>, <<t, f>>)[<<t, f>>] = m_torrents[<<t, g>>]
                                          /\ Settles(t, f, m_torrents[<<t, g>>])
<1> DEFINE map == ReconciledMap(<<t, id>>, <<t, f>>)
<1>1. MapIs(m_torrents) /\ DirtyIs(m_dirty)
  BY DEF IInv, TypeInv
<1>2. \A q \in Keys : q[1] # t => map[q] = m_torrents[q]
  BY <1>1, ReconciledIs
<1>3. ASSUME NEW g \in Forms, Tracked(<<t, g>>), Alone(t, g), m_torrents[<<t, g>>].id = id
      PROVE  map[<<t, f>>] = m_torrents[<<t, g>>] /\ \A x \in Forms \ {f} : map[<<t, x>>] = None
  <2>1. map[<<t, f>>] = m_torrents[<<t, g>>]
    BY <1>1, <1>3, ReconciledIs
  <2>2. \A x \in Forms \ {f} : map[<<t, x>>] = None
    BY <1>1, <1>3, ReconciledIs
  <2> QED BY <2>1, <2>2
<1>0. /\ \A q \in Keys \ {<<t, f>>} : m_torrents'[q] = map[q]
      /\ m_torrents'[<<t, f>>].id = map[<<t, f>>].id
  OBVIOUS
<1> HIDE DEF map
<1>4. \A q \in Keys : q[1] # t => m_torrents'[q] = m_torrents[q]
  BY <1>0, <1>2
<1>5. ASSUME Good(t) PROVE \E g \in Forms : /\ Tracked(<<t, g>>) /\ map[<<t, f>>] = m_torrents[<<t, g>>]
                                            /\ Settles(t, f, m_torrents[<<t, g>>])
  <2>1. PICK g \in Forms : Tracked(<<t, g>>)
    BY <1>5, NextIs
  <2>2. Alone(t, g) /\ m_torrents[<<t, g>>].id = id
    BY <1>5, <2>1, NextIs
  <2>3. map[<<t, f>>] = m_torrents[<<t, g>>] /\ \A x \in Forms \ {f} : map[<<t, x>>] = None
    BY <1>3, <2>1, <2>2
  <2>4. \A x \in Forms \ {f} : m_torrents'[<<t, x>>] = None
    BY <1>0, <2>3, KeyParts
  <2>5. Settles(t, f, m_torrents[<<t, g>>])
    BY <1>0, <2>3, <2>4 DEF Settles
  <2> QED BY <2>1, <2>3, <2>5
<1> QED BY <1>4, <1>5 DEF map

\* ReconcileCurrent keeps the invariant.
LEMMA ReconcileCurrentKeeps ==
    ASSUME IInv, NEW t \in Torrents, NEW id \in Ids, NEW f \in Forms, ReconcileCurrent(<<t, id>>, <<t, f>>)
    PROVE  Keeps
<1>1. ReconcileNext(<<t, id>>, <<t, f>>) /\ Current(<<t, f>>) /\ UNCHANGED m_torrents /\ UNCHANGED m_dirty /\ UNCHANGED work /\ UNCHANGED events
  BY DEF ReconcileCurrent
<1>2. MapIs(m_torrents') /\ DirtyIs(m_dirty') /\ TableIs(work') /\ EventsAre(events')
  BY <1>1 DEF IInv, TypeInv
<1>3. \A u \in Torrents : RowSame(u) /\ EventsSame(u) /\ MapSame(u)
  BY <1>1, RowBeside, EventsBeside, MapBeside
<1>4. \A u \in Torrents : LtSame(u) /\ AskSame(u) /\ QueuesSame(u)
  BY <1>1, NextIs
<1>5. Same(t)
  BY <1>3, <1>4 DEF Same
<1>6. ASSUME Good(t) PROVE \A g \in Forms \ {f} : m_torrents'[<<t, g>>] = None
  <2>1. Alone(t, f)
    BY <1>1, <1>6, NextIs DEF Current
  <2> QED BY <1>1, <2>1 DEF Alone
<1>7. \A q \in Keys : q[1] # t => m_torrents'[q] = m_torrents[q]
  BY <1>1
<1> QED BY <1>1, <1>2, <1>3, <1>5, <1>6, <1>7, ReconcileStep

\* ReconcileRehashed keeps the invariant.
LEMMA ReconcileRehashedKeeps ==
    ASSUME IInv, NEW t \in Torrents, NEW id \in Ids, NEW f \in Forms, ReconcileRehashed(<<t, id>>, <<t, f>>)
    PROVE  Keeps
<1> DEFINE map == ReconciledMap(<<t, id>>, <<t, f>>)
<1>1. /\ ReconcileNext(<<t, id>>, <<t, f>>) /\ map[<<t, f>>] # None /\ map[<<t, f>>].state = "Current"
      /\ m_torrents' = MarkSaved(map, <<t, f>>, lt[t].meta)
      /\ m_dirty' = ReconciledDirty(<<t, id>>, <<t, f>>)
      /\ work' = UpdateRow(work, t, f, f, lt[t].cfg, lt[t].pos, InfoOf(t))
      /\ UNCHANGED events
  BY DEF ReconcileRehashed, ReconciledState, MarkSaved
<1>2. TypeInv /\ MapIs(m_torrents) /\ DirtyIs(m_dirty) /\ TableIs(work) /\ EventsAre(events) /\ LtIs(lt)
  BY DEF IInv, TypeInv
<1>3. /\ lt[t] # None /\ lt' = lt /\ lt[t].form = f /\ Items(Waiting') \cap LifeAlerts(t) = {}
      /\ \A u \in Torrents : LtSame(u) /\ AskSame(u) /\ QueuesSame(u)
  BY <1>1, NextIs
<1>4. MapIs(map) /\ DirtyIs(m_dirty')
  BY <1>1, <1>2, ReconciledIs
<1>5. PICK b \in BOOLEAN, cfg \in Maybe(0..MaxChanges), pos \in 0..MaxChanges, info \in Maybe(Forms) :
         b = lt[t].meta /\ cfg = lt[t].cfg /\ pos = lt[t].pos /\ info = InfoOf(t)
  BY <1>2, <1>3, LtFields DEF InfoOf, Maybe
<1> DEFINE k == <<t, f>>
           y == MarkSaved(map, k, b)
           w == work
           x == UpdateRow(w, t, f, f, cfg, pos, info)
<1>6. k \in Keys /\ m_torrents' = y /\ work' = x /\ TableIs(w) /\ map[k] # None /\ map[k].state = "Current"
  BY <1>1, <1>2, <1>5, KeyParts
<1>7. map[k].handle = TRUE
  <2>1. map[k].handle \in BOOLEAN /\ map[k].handle
    BY <1>4, <1>6, EntryFields
  <2> QED BY <2>1
<1> HIDE DEF k, w, map
<1>8. MapIs(y) /\ \A q \in Keys \ {k} : y[q] = map[q]
  BY ONLY <1>4, <1>6, b \in BOOLEAN, MarkSavedIs
<1>9. y[k] # None /\ y[k].id = map[k].id /\ y[k].state = map[k].state /\ y[k].handle = map[k].handle
  BY ONLY <1>4, <1>6, b \in BOOLEAN, MarkSavedIs
<1>10. TableIs(x) /\ \A u \in Torrents \ {t} : x[u] = w[u]
  BY ONLY <1>6, UpdateIs, t \in Torrents, f \in Forms, cfg \in Maybe(0..MaxChanges), info \in Maybe(Forms), pos \in 0..MaxChanges
<1>11. (x[t] = None <=> w[t] = None) /\ (w[t] # None => x[t].form = w[t].form)
  BY ONLY <1>6, UpdateIs, t \in Torrents, f \in Forms, cfg \in Maybe(0..MaxChanges), info \in Maybe(Forms), pos \in 0..MaxChanges
<1> HIDE DEF x, y
<1>12. TableIs(work') /\ \A u \in Torrents : RowSame(u)
  BY <1>6, <1>10, <1>11 DEF RowSame, w
<1>13. EventsAre(events') /\ \A u \in Torrents : EventsSame(u)
  BY <1>1, <1>2, NoNews
<1>14. /\ MapIs(m_torrents') /\ \A q \in Keys \ {k} : m_torrents'[q] = map[q]
       /\ m_torrents'[k] # None /\ m_torrents'[k].id = map[k].id /\ m_torrents'[k].state = "Current" /\ m_torrents'[k].handle = TRUE
  BY <1>6, <1>7, <1>8, <1>9
<1>15. /\ \A q \in Keys : q[1] # t => m_torrents'[q] = m_torrents[q]
       /\ Good(t) => \E g \in Forms : Tracked(<<t, g>>) /\ map[<<t, f>>] = m_torrents[<<t, g>>] /\ Settles(t, f, m_torrents[<<t, g>>])
  BY <1>1, <1>14, ReconciledSettles DEF k, map
<1>16. ASSUME Good(t) PROVE Settling(t) /\ \A g \in Forms \ {f} : m_torrents'[<<t, g>>] = None
  <2>1. PICK g \in Forms : Tracked(<<t, g>>) /\ map[<<t, f>>] = m_torrents[<<t, g>>] /\ Settles(t, f, m_torrents[<<t, g>>])
    BY <1>15, <1>16
  <2>2. m_torrents[<<t, g>>].state # "Adding"
    BY <1>1, <2>1
  <2>3. Settling(t)
    BY <1>3, <1>12, <1>13, <2>1, <2>2 DEF Settling
  <2> QED BY <2>1, <2>3 DEF Settles
<1> QED BY <1>1, <1>4, <1>12, <1>13, <1>14, <1>15, <1>16, ReconcileStep

\* ReconcileLoaded keeps the invariant.
LEMMA ReconcileLoadedKeeps ==
    ASSUME IInv, NEW t \in Torrents, NEW id \in Ids, NEW f \in Forms, ReconcileLoaded(<<t, id>>, <<t, f>>)
    PROVE  Keeps
<1> DEFINE map == ReconciledMap(<<t, id>>, <<t, f>>)
<1>1. /\ ReconcileNext(<<t, id>>, <<t, f>>) /\ map[<<t, f>>] # None /\ map[<<t, f>>].state = "Loading"
      /\ m_torrents' = Promote(map, <<t, f>>, "Current")
      /\ m_dirty' = ReconciledDirty(<<t, id>>, <<t, f>>)
      /\ UNCHANGED work /\ UNCHANGED events
  BY DEF ReconcileLoaded, ReconciledState, Promote
<1>2. TypeInv /\ MapIs(m_torrents) /\ DirtyIs(m_dirty) /\ TableIs(work) /\ EventsAre(events) /\ LtIs(lt)
  BY DEF IInv, TypeInv
<1>3. /\ lt[t] # None /\ lt' = lt /\ lt[t].form = f /\ Items(Waiting') \cap LifeAlerts(t) = {}
      /\ \A u \in Torrents : LtSame(u) /\ AskSame(u) /\ QueuesSame(u)
  BY <1>1, NextIs
<1>4. MapIs(map) /\ DirtyIs(m_dirty')
  BY <1>1, <1>2, ReconciledIs
<1> DEFINE k == <<t, f>>
           y == Promote(map, k, "Current")
<1>6. k \in Keys /\ m_torrents' = y /\ map[k] # None /\ "Current" \in {"Adding", "Current"}
  BY <1>1, KeyParts
<1> HIDE DEF k, map
<1>8. MapIs(y) /\ \A q \in Keys \ {k} : y[q] = map[q]
  <2>1. MapIs(y)
    BY ONLY <1>4, <1>6, MapPromoted
  <2>2. \A q \in Keys \ {k} : y[q] = map[q]
    BY ONLY <1>4, <1>6, PromotedBeside
  <2> QED BY <2>1, <2>2
<1>9. /\ y[k] # None /\ y[k].id = map[k].id /\ y[k].state = "Current" /\ y[k].handle = TRUE
  <2>1. y[k] # None
    BY ONLY <1>4, <1>6, MapPromoted
  <2>2. y[k].id = map[k].id /\ y[k].state = "Current"
    BY ONLY <1>4, <1>6, MapPromoted
  <2>3. y[k].handle = TRUE
    BY ONLY <1>4, <1>6, MapPromoted
  <2> QED BY <2>1, <2>2, <2>3
<1> HIDE DEF y
<1>12. TableIs(work') /\ \A u \in Torrents : RowSame(u)
  BY <1>1, <1>2, RowBeside
<1>13. EventsAre(events') /\ \A u \in Torrents : EventsSame(u)
  BY <1>1, <1>2, NoNews
<1>14. /\ MapIs(m_torrents') /\ \A q \in Keys \ {k} : m_torrents'[q] = map[q]
       /\ m_torrents'[k] # None /\ m_torrents'[k].id = map[k].id /\ m_torrents'[k].state = "Current" /\ m_torrents'[k].handle = TRUE
  BY <1>6, <1>8, <1>9
<1>15. /\ \A q \in Keys : q[1] # t => m_torrents'[q] = m_torrents[q]
       /\ Good(t) => \E g \in Forms : Tracked(<<t, g>>) /\ map[<<t, f>>] = m_torrents[<<t, g>>] /\ Settles(t, f, m_torrents[<<t, g>>])
  BY <1>1, <1>14, ReconciledSettles DEF k, map
<1>16. ASSUME Good(t) PROVE Settling(t) /\ \A g \in Forms \ {f} : m_torrents'[<<t, g>>] = None
  <2>1. PICK g \in Forms : Tracked(<<t, g>>) /\ map[<<t, f>>] = m_torrents[<<t, g>>] /\ Settles(t, f, m_torrents[<<t, g>>])
    BY <1>15, <1>16
  <2>2. m_torrents[<<t, g>>].state # "Adding"
    BY <1>1, <2>1
  <2>3. Settling(t)
    BY <1>3, <1>12, <1>13, <2>1, <2>2 DEF Settling
  <2> QED BY <2>1, <2>3 DEF Settles
<1> QED BY <1>1, <1>4, <1>12, <1>13, <1>14, <1>15, <1>16, ReconcileStep

\* ReconcileAdd keeps the invariant.
LEMMA ReconcileAddKeeps ==
    ASSUME IInv, NEW t \in Torrents, NEW id \in Ids, NEW f \in Forms, ReconcileAdd(<<t, id>>, <<t, f>>)
    PROVE  Keeps
<1> DEFINE map == ReconciledMap(<<t, id>>, <<t, f>>)
<1>1. /\ ReconcileNext(<<t, id>>, <<t, f>>)
      /\ m_dirty' = ReconciledDirty(<<t, id>>, <<t, f>>)
      /\ work' = InsertRow(work, t, f, lt[t].cfg, lt[t].pos, InfoOf(t))
      /\ Publish("added", t, id)
  BY DEF ReconcileAdd
<1>2. TypeInv /\ MapIs(m_torrents) /\ DirtyIs(m_dirty) /\ TableIs(work) /\ EventsAre(events) /\ LtIs(lt)
  BY DEF IInv, TypeInv
<1>3. /\ lt[t] # None /\ lt' = lt /\ lt[t].form = f /\ lt[t].id = id /\ Items(Waiting') \cap LifeAlerts(t) = {}
      /\ \A u \in Torrents : LtSame(u) /\ AskSame(u) /\ QueuesSame(u)
  BY <1>1, NextIs
<1>4. MapIs(map) /\ DirtyIs(m_dirty')
  BY <1>1, <1>2, ReconciledIs
<1>5. PICK b \in BOOLEAN, cfg \in Maybe(0..MaxChanges), pos \in 0..MaxChanges, info \in Maybe(Forms) :
         b = lt[t].meta /\ cfg = lt[t].cfg /\ pos = lt[t].pos /\ info = InfoOf(t)
  BY <1>2, <1>3, LtFields DEF InfoOf, Maybe
<1> DEFINE k == <<t, f>>
           y == Promote(map, k, "Current")
           w == work
           x == InsertRow(w, t, f, cfg, pos, info)
<1>6. k \in Keys /\ work' = x /\ TableIs(w) /\ "Current" \in {"Adding", "Current"}
  BY <1>1, <1>2, <1>5, KeyParts
<1>7. \/ map[k] # None /\ map[k].state = "Adding" /\ m_torrents' = y
      \/ map[k] = None /\ m_torrents' = [m_torrents EXCEPT ![k] = Entry("Current", id, TRUE, b, b)]
  <2>1. /\ ReconciledState(<<t, id>>, k) = IF map[k] = None THEN "none" ELSE map[k].state
        /\ ReconciledState(<<t, id>>, k) \in {"none", "Adding"}
        /\ m_torrents' = ReconciledAdd(<<t, id>>, k)
    BY DEF ReconcileAdd, ReconciledState
  <2>2. CASE map[k] = None
    <3>1. ReconciledState(<<t, id>>, k) = "none"
      BY <2>1, <2>2
    <3>2. m_torrents' = [m_torrents EXCEPT ![k] = Entry("Current", id, TRUE, b, b)]
      BY <1>5, <2>1, <3>1 DEF ReconciledAdd
    <3> QED BY <2>2, <3>2
  <2>3. CASE map[k] # None
    <3>1. map[k].state \in {"Adding", "Loading", "Current"} /\ ReconciledState(<<t, id>>, k) = map[k].state
      BY <1>4, <1>6, <2>1, <2>3, EntryFields
    <3>2. ReconciledState(<<t, id>>, k) # "none" /\ map[k].state = "Adding"
      BY <2>1, <3>1
    <3>3. m_torrents' = y
      BY <2>1, <3>2 DEF ReconciledAdd, Promote
    <3> QED BY <2>3, <3>2, <3>3
  <2> QED BY <2>2, <2>3
<1> HIDE DEF k, w, map
<1>10. TableIs(x) /\ \A u \in Torrents \ {t} : x[u] = w[u]
  BY ONLY <1>6, InsertIs, t \in Torrents, f \in Forms, cfg \in Maybe(0..MaxChanges), info \in Maybe(Forms), pos \in 0..MaxChanges
<1>11. x[t] # None /\ x[t].form = IF w[t] = None THEN f ELSE w[t].form
  BY ONLY <1>6, InsertIs, t \in Torrents, f \in Forms, cfg \in Maybe(0..MaxChanges), info \in Maybe(Forms), pos \in 0..MaxChanges
<1> HIDE DEF x
<1>12. TableIs(work') /\ \A u \in Torrents \ {t} : RowSame(u)
  BY <1>6, <1>10 DEF RowSame, w
<1>12a. Inserted(t)
  BY <1>3, <1>6, <1>11 DEF Inserted, w
<1>13. EventsAre(events') /\ \A u \in Torrents \ {t} : EventsSame(u)
  <2>1. "added" \in EventNames
    BY DEF EventNames
  <2> QED BY <1>1, <1>2, <2>1, NewsOf
<1>17. CASE map[k] # None /\ map[k].state = "Adding" /\ m_torrents' = y
  <2>8. MapIs(y) /\ \A q \in Keys \ {k} : y[q] = map[q]
    <3>1. MapIs(y)
      BY ONLY <1>4, <1>6, <1>17, MapPromoted
    <3>2. \A q \in Keys \ {k} : y[q] = map[q]
      BY ONLY <1>4, <1>6, <1>17, PromotedBeside
    <3> QED BY <3>1, <3>2
  <2>9. /\ y[k] # None /\ y[k].id = map[k].id /\ y[k].state = "Current" /\ y[k].handle = TRUE
    <3>1. y[k] # None
      BY ONLY <1>4, <1>6, <1>17, MapPromoted
    <3>2. y[k].id = map[k].id /\ y[k].state = "Current"
      BY ONLY <1>4, <1>6, <1>17, MapPromoted
    <3>3. y[k].handle = TRUE
      BY ONLY <1>4, <1>6, <1>17, MapPromoted
    <3> QED BY <3>1, <3>2, <3>3
  <2> HIDE DEF y
  <2>14. /\ MapIs(m_torrents') /\ \A q \in Keys \ {k} : m_torrents'[q] = map[q]
         /\ m_torrents'[k] # None /\ m_torrents'[k].id = map[k].id /\ m_torrents'[k].state = "Current" /\ m_torrents'[k].handle = TRUE
    BY <1>17, <2>8, <2>9
  <2>15. /\ \A q \in Keys : q[1] # t => m_torrents'[q] = m_torrents[q]
         /\ Good(t) => \E g \in Forms : Tracked(<<t, g>>) /\ map[<<t, f>>] = m_torrents[<<t, g>>] /\ Settles(t, f, m_torrents[<<t, g>>])
    BY <1>1, <2>14, ReconciledSettles DEF k, map
  <2>16. ASSUME Good(t) PROVE Settling(t) /\ \A g \in Forms \ {f} : m_torrents'[<<t, g>>] = None
    <3>1. PICK g \in Forms : Tracked(<<t, g>>) /\ map[<<t, f>>] = m_torrents[<<t, g>>] /\ Settles(t, f, m_torrents[<<t, g>>])
      BY <2>15, <2>16
    <3>2. m_torrents[<<t, g>>].state = "Adding"
      BY <1>17, <3>1 DEF k
    <3>3. News(t, "added")
      <4>1. id = adds[t]
        BY <1>3, <2>16 DEF Good, LifeOf, EntryOf, Live
      <4> QED BY <1>1, <1>2, <4>1, NewsIs
    <3>4. Settling(t)
      BY <1>3, <1>12a, <3>1, <3>2, <3>3 DEF Settling
    <3> QED BY <3>1, <3>4 DEF Settles
  <2> QED BY <1>1, <1>4, <1>12, <1>13, <2>14, <2>15, <2>16, ReconcileStep
<1>18. CASE map[k] = None /\ m_torrents' = [m_torrents EXCEPT ![k] = Entry("Current", id, TRUE, b, b)]
  <2> DEFINE e == Entry("Current", id, TRUE, b, b)
             m == m_torrents
             z == [m EXCEPT ![k] = e]
  <2>1. e \in Entries /\ e.handle = TRUE /\ m_torrents' = z /\ MapIs(m)
    BY <1>2, <1>18 DEF Entry, Entries
  <2> HIDE DEF e, m
  <2>2. e # None /\ e \in Maybe(Entries) /\ (e # None /\ e.state = "Current" => e.handle)
    BY <2>1, NoneAssumption DEF Maybe
  <2>3. MapIs(m) /\ k \in Keys
    BY <2>1, <1>6
  <2>4. MapIs(z) /\ \A q \in Keys \ {k} : z[q] = m[q]
    BY ONLY <2>2, <2>3, MapSet
  <2> HIDE DEF z
  <2>5. MapIs(m_torrents') /\ \A q \in Keys : q[1] # t => m_torrents'[q] = m_torrents[q]
    BY <2>1, <2>4 DEF m, k
  <2>6. ~Good(t)
    <3> SUFFICES ASSUME Good(t) PROVE FALSE
      OBVIOUS
    <3>1. PICK g \in Forms : Tracked(<<t, g>>)
      BY <1>1, NextIs
    <3>2. Alone(t, g) /\ m_torrents[<<t, g>>].id = id
      BY <1>1, <3>1, NextIs
    <3>3. map[<<t, f>>] = m_torrents[<<t, g>>]
      BY <1>2, <3>1, <3>2, ReconciledIs DEF map
    <3> QED BY <1>18, <3>1, <3>3 DEF k, Tracked
  <2> QED BY <1>1, <1>4, <1>12, <1>13, <2>5, <2>6, ReconcileStep
<1> QED BY <1>7, <1>17, <1>18

\* ReconcileTorrent keeps the invariant.
LEMMA ReconcileTorrentKeeps == IInv /\ ReconcileTorrent => Keeps
<1> SUFFICES ASSUME IInv, NEW h \in handles, NEW k \in Keys,
                    \/ ReconcileCurrent(h, k) \/ ReconcileRehashed(h, k)
                    \/ ReconcileLoaded(h, k) \/ ReconcileAdd(h, k)
             PROVE  Keeps
  BY DEF ReconcileTorrent
<1>1. ReconcileNext(h, k)
  BY DEF ReconcileCurrent, ReconcileRehashed, ReconcileLoaded, ReconcileAdd
<1>2. PICK t \in Torrents, id \in Ids : h = <<t, id>>
  BY DEF IInv, TypeInv
<1>3. PICK f \in Forms : k = <<t, f>>
  BY <1>1, <1>2, KeyParts DEF ReconcileNext
<1>4. \/ ReconcileCurrent(<<t, id>>, <<t, f>>) \/ ReconcileRehashed(<<t, id>>, <<t, f>>)
      \/ ReconcileLoaded(<<t, id>>, <<t, f>>) \/ ReconcileAdd(<<t, id>>, <<t, f>>)
  BY <1>2, <1>3
<1> QED BY <1>4, ReconcileCurrentKeeps, ReconcileRehashedKeeps, ReconcileLoadedKeeps, ReconcileAddKeeps

-----------------------------------------------------------------------------
(* Entries that go together                                                  *)

\* One of the keys is the current entry of t, and matches the row if form is.
Leaves(keys, t) == \E k \in keys : Current(k) /\ k[1] = t
Deletes(keys, t) == \E k \in keys : Current(k) /\ k[1] = t /\ Matches(work[t], k[2])

\* UntrackAll clears the entries, deletes the rows of the current ones and announces them.
LEMMA UntrackAllIs ==
    ASSUME TypeInv, NEW keys \in SUBSET Keys, UntrackAll(keys)
    PROVE  /\ MapIs(m_torrents') /\ TableIs(work') /\ EventsAre(events')
           /\ \A k \in Keys : m_torrents'[k] = IF k \in keys THEN None ELSE m_torrents[k]
           /\ \A t \in Torrents : work'[t] = IF Deletes(keys, t) THEN None ELSE work[t]
           /\ \A t \in Torrents, id \in Ids :
                 /\ events'[<<"added", t, id>>] = events[<<"added", t, id>>]
                 /\ events'[<<"removed", t, id>>] = events[<<"removed", t, id>>] +
                      (IF \E k \in keys : Current(k) /\ k[1] = t /\ m_torrents[k].id = id THEN 1 ELSE 0)
<1>1. MapIs(m_torrents) /\ TableIs(work) /\ EventsAre(events)
  BY DEF TypeInv
<1>2. /\ m_torrents' = [k \in Keys |-> IF k \in keys THEN None ELSE m_torrents[k]]
      /\ work' = [t \in Torrents |-> IF Deletes(keys, t) THEN None ELSE work[t]]
      /\ events' = [e \in DOMAIN events |->
            IF \E k \in keys : Current(k) /\ e = <<"removed", k[1], m_torrents[k].id>>
            THEN events[e] + 1 ELSE events[e]]
  BY DEF UntrackAll, Deletes
<1>3. \A k \in Keys : m_torrents'[k] = IF k \in keys THEN None ELSE m_torrents[k]
  BY <1>2
<1>4. \A t \in Torrents : work'[t] = IF Deletes(keys, t) THEN None ELSE work[t]
  BY <1>2
<1>5. MapIs(m_torrents')
  BY <1>1, <1>2 DEF MapIs, Maybe
<1>6. TableIs(work')
  BY <1>1, <1>2 DEF TableIs, Maybe
<1>7. DOMAIN events = EventNames \X Torrents \X Ids /\ \A e \in DOMAIN events : events[e] \in Nat
  BY <1>1 DEF EventsAre
<1>8. EventsAre(events')
  BY <1>2, <1>7 DEF EventsAre
<1>9. ASSUME NEW t \in Torrents, NEW id \in Ids
      PROVE  events'[<<"added", t, id>>] = events[<<"added", t, id>>]
  <2>1. <<"added", t, id>> \in DOMAIN events
    BY <1>7 DEF EventNames
  <2>2. ~\E k \in keys : Current(k) /\ <<"added", t, id>> = <<"removed", k[1], m_torrents[k].id>>
    OBVIOUS
  <2> QED BY <1>2, <2>1, <2>2
<1>10. ASSUME NEW t \in Torrents, NEW id \in Ids
       PROVE  events'[<<"removed", t, id>>] = events[<<"removed", t, id>>] +
                 (IF \E k \in keys : Current(k) /\ k[1] = t /\ m_torrents[k].id = id THEN 1 ELSE 0)
  <2>1. <<"removed", t, id>> \in DOMAIN events
    BY <1>7 DEF EventNames
  <2>2. (\E k \in keys : Current(k) /\ <<"removed", t, id>> = <<"removed", k[1], m_torrents[k].id>>)
        <=> \E k \in keys : Current(k) /\ k[1] = t /\ m_torrents[k].id = id
    OBVIOUS
  <2>3. events[<<"removed", t, id>>] \in Nat
    BY <1>7, <2>1
  <2>4. events'[<<"removed", t, id>>] = IF \E k \in keys : Current(k) /\ k[1] = t /\ m_torrents[k].id = id
                                         THEN events[<<"removed", t, id>>] + 1 ELSE events[<<"removed", t, id>>]
    BY <1>2, <2>1, <2>2
  <2> QED BY <2>3, <2>4
<1> QED BY <1>3, <1>4, <1>5, <1>6, <1>8, <1>9, <1>10

\* A torrent none of whose entries goes.
LEMMA UntrackAllBeside ==
    ASSUME TypeInv, NEW keys \in SUBSET Keys, UntrackAll(keys), NEW t \in Torrents, \A f \in Forms : <<t, f>> \notin keys
    PROVE  MapSame(t) /\ RowSame(t) /\ EventsSame(t)
<1>1. \A k \in keys : k[1] # t
  BY KeyParts
<1>2. \A f \in Forms : m_torrents'[<<t, f>>] = m_torrents[<<t, f>>]
  BY UntrackAllIs, KeyParts
<1>3. work'[t] = work[t]
  <2>1. ~Deletes(keys, t)
    BY <1>1 DEF Deletes
  <2> QED BY <2>1, UntrackAllIs
<1>4. \A id \in Ids : events[<<"removed", t, id>>] \in Nat
  BY DEF TypeInv, EventsAre, EventNames
<1>5. \A id \in Ids : /\ events'[<<"added", t, id>>] = events[<<"added", t, id>>]
                      /\ events'[<<"removed", t, id>>] = events[<<"removed", t, id>>]
  <2> TAKE id \in Ids
  <2>1. ~\E k \in keys : Current(k) /\ k[1] = t /\ m_torrents[k].id = id
    BY <1>1
  <2> QED BY <1>4, <2>1, UntrackAllIs
<1> QED BY <1>2, <1>3, <1>5 DEF MapSame, SameEntry, RowSame, EventsSame

\* A torrent that libtorrent does not have.
LEMMA UntrackAllFewer ==
    ASSUME TypeInv, NEW keys \in SUBSET Keys, UntrackAll(keys), NEW t \in Torrents, Good(t),
           AskSame(t), QueuesSame(t), lt[t] = None, lt'[t] = None, Items(calls') \cap AddCalls(t) = {},
           \A a \in Items(Waiting') \cap LifeAlerts(t) : a.type = "removed",
           Settled(t) => Items(Waiting') \cap LifeAlerts(t) = {}
    PROVE  Fewer(t)
<1>1. EntryOf(t) /\ ~Live(t)
  BY DEF Good, LifeOf, Live
<1>2. \A f \in Forms : m_torrents'[<<t, f>>] = None \/ m_torrents'[<<t, f>>] = m_torrents[<<t, f>>]
  BY UntrackAllIs, KeyParts
<1>3. ASSUME NEW k \in keys, Current(k), k[1] = t
      PROVE  /\ adds[t] \in Ids /\ <<t, adds[t]>> \in removing /\ m_torrents[k].id = adds[t]
             /\ k = <<t, k[2]>> /\ k[2] \in Forms /\ m_torrents'[k] = None
  <2>1. k \in Keys /\ k = <<t, k[2]>> /\ k[2] \in Forms
    BY <1>3, KeyParts
  <2>2. m_torrents'[k] = None
    BY <2>1, UntrackAllIs
  <2>3. m_torrents[k].id \in Ids
    BY <1>3, <2>1, EntryFields DEF TypeInv, Current, Tracked
  <2>4. m_torrents[<<t, k[2]>>].id = adds[t] /\ <<t, adds[t]>> \in removing
    BY <1>1, <1>3, <2>1 DEF EntryOf, Current
  <2> QED BY <2>1, <2>2, <2>3, <2>4
<1>4. RowSame(t) \/ (adds[t] \in Ids /\ <<t, adds[t]>> \in removing /\ work'[t] = None)
  <2>1. CASE Deletes(keys, t)
    <3>1. work'[t] = None
      BY <2>1, UntrackAllIs
    <3> QED BY <1>3, <2>1, <3>1 DEF Deletes
  <2>2. CASE ~Deletes(keys, t)
    <3>1. work'[t] = work[t]
      BY <2>2, UntrackAllIs
    <3> QED BY <3>1 DEF RowSame
  <2> QED BY <2>1, <2>2
<1>5. ASSUME work'[t] # None, work[t] # None, work[t].form = "full", Current(<<t, "full">>)
      PROVE  m_torrents'[<<t, "full">>] # None
  <2>1. ~Deletes(keys, t)
    BY <1>5, UntrackAllIs
  <2>2. <<t, "full">> \notin keys
    <3> SUFFICES ASSUME <<t, "full">> \in keys PROVE FALSE
      OBVIOUS
    <3>1. Matches(work[t], "full")
      BY <1>5 DEF Matches
    <3>2. <<t, "full">>[1] = t /\ <<t, "full">>[2] = "full"
      OBVIOUS
    <3> QED BY <1>5, <2>1, <3>1, <3>2 DEF Deletes
  <2>3. <<t, "full">> \in Keys
    BY FormsAre, KeyParts
  <2>4. m_torrents'[<<t, "full">>] = m_torrents[<<t, "full">>]
    BY <2>2, <2>3, UntrackAllIs
  <2> QED BY <1>5, <2>4 DEF Current, Tracked
<1>6. \/ EventsSame(t)
      \/ /\ News(t, "removed") /\ <<t, adds[t]>> \in removing
         /\ \E f \in Forms : Current(<<t, f>>) /\ m_torrents'[<<t, f>>] = None
  <2>0. \A id \in Ids : events[<<"added", t, id>>] \in Nat /\ events[<<"removed", t, id>>] \in Nat
    BY DEF TypeInv, EventsAre, EventNames
  <2>1. CASE Leaves(keys, t)
    <3>1. PICK k \in keys : Current(k) /\ k[1] = t
      BY <2>1 DEF Leaves
    <3>2. /\ adds[t] \in Ids /\ <<t, adds[t]>> \in removing /\ m_torrents[k].id = adds[t]
          /\ k = <<t, k[2]>> /\ k[2] \in Forms /\ m_torrents'[k] = None
      BY <1>3, <3>1
    <3>3. \A id \in Ids : (\E q \in keys : Current(q) /\ q[1] = t /\ m_torrents[q].id = id) <=> id = adds[t]
      BY <1>3, <3>1, <3>2
    <3>4. ASSUME NEW id \in Ids
          PROVE  /\ events'[<<"added", t, id>>] = events[<<"added", t, id>>]
                 /\ events'[<<"removed", t, id>>] = events[<<"removed", t, id>>] + (IF id = adds[t] THEN 1 ELSE 0)
      BY <3>3, UntrackAllIs
    <3>5. News(t, "removed")
      BY <2>0, <3>4 DEF News
    <3> QED BY <3>1, <3>2, <3>5
  <2>2. CASE ~Leaves(keys, t)
    <3>1. ASSUME NEW id \in Ids
          PROVE  /\ events'[<<"added", t, id>>] = events[<<"added", t, id>>]
                 /\ events'[<<"removed", t, id>>] = events[<<"removed", t, id>>]
      <4>1. ~\E k \in keys : Current(k) /\ k[1] = t /\ m_torrents[k].id = id
        BY <2>2 DEF Leaves
      <4> QED BY <2>0, <4>1, UntrackAllIs
    <3> QED BY <3>1 DEF EventsSame
  <2> QED BY <2>1, <2>2
<1> QED BY <1>2, <1>4, <1>5, <1>6 DEF Fewer

\* ReconcileGone keeps the invariant.
LEMMA ReconcileGoneKeeps == IInv /\ ReconcileGone => Keeps
<1> SUFFICES ASSUME IInv, ReconcileGone PROVE Keeps
  OBVIOUS
<1>1. /\ pc = "reconcile" /\ handles = {} /\ rows' = work' /\ UntrackAll(Gone)
      /\ pc' = IF after = "stop" THEN "stopStatus" ELSE "idle"
      /\ \/ after = "loadEnd" /\ toLoad' = None /\ calls' = Append(calls, [op |-> "updates"])
         \/ after # "loadEnd" /\ toLoad' = toLoad /\ calls' = calls
      /\ UNCHANGED <<lt, alerts, dropped, after, batch, handles, seen, toSave, m_dirty, adds, loadedIds, removing, changes>>
  BY DEF ReconcileGone, PostUpdates
<1>2. /\ TypeInv /\ Core /\ QueuesAre /\ batch = <<>> /\ HandlesOK /\ QuietOK /\ PlaceIs(pc, after)
      /\ Reconciling /\ Quiet
  BY <1>1 DEF IInv, TypeInv, Reconciling, Quiet
<1>3. PICK keys \in SUBSET Keys : keys = Gone
  BY DEF Gone
<1>4. UntrackAll(keys)
  BY <1>1, <1>3
<1>5. MapIs(m_torrents') /\ TableIs(work') /\ EventsAre(events')
  BY <1>2, <1>4, UntrackAllIs
<1>6. PICK N \in SUBSET PlainCalls : NewCalls(N) /\ (\A c \in N : c.op # "remove") /\ (after # "loadEnd" => N = {})
  <2>1. CASE after = "loadEnd"
    <3> DEFINE c == [op |-> "updates"]
    <3>1. c \in CallMsgs /\ c.op = "updates" /\ calls' = Append(calls, c)
      BY <1>1, <2>1, UpdatesCall
    <3> HIDE DEF c
    <3>2. NewCalls({c})
      BY <1>2, <3>1, CallPosted
    <3>3. {c} \in SUBSET PlainCalls /\ \A d \in {c} : d.op # "remove"
      BY <3>1 DEF PlainCalls
    <3> QED BY <2>1, <3>2, <3>3
  <2>2. CASE after # "loadEnd"
    <3>1. NewCalls({})
      BY <1>1, <1>2, <2>2, CallsKept
    <3> QED BY <2>2, <3>1
  <2> QED BY <2>1, <2>2
<1>7. NewAlerts({})
  BY <1>1, <1>2, AlertsKept
<1>8. \A t \in Torrents : LtSame(t) /\ AskSame(t) /\ QueuesSame(t)
  BY <1>1, <1>6, <1>7, LtBeside, AskBeside, NothingNew, PlainQueues
<1>9. Items(Waiting) \subseteq QuietAlerts /\ Items(calls) \subseteq SaveCalls
  <2>1. Items(Waiting) = Items(batch) \cup Items(alerts)
    BY <1>2, WaitingIs
  <2> QED BY <1>2, <2>1, NoItems DEF QuietOK
<1>10. ASSUME NEW t \in Torrents, Safe(t), Good(t) PROVE Same(t) \/ Fewer(t)
  <2>1. CASE lt[t] = None
    <3>1. Items(Waiting') \cap LifeAlerts(t) = {}
      <4>1. Items(Waiting') \cap LifeAlerts(t) \subseteq Items(Waiting)
        BY <1>8 DEF QueuesSame
      <4> QED BY <1>9, <4>1 DEF QuietAlerts, LifeAlerts
    <3>2. Items(calls') \cap AddCalls(t) = {}
      <4>1. Items(calls') \cap AddCalls(t) \subseteq Items(calls)
        BY <1>8 DEF QueuesSame
      <4> QED BY <1>9, <4>1 DEF SaveCalls, AddCalls
    <3>3. lt'[t] = None
      BY <1>1, <2>1
    <3> QED BY <1>2, <1>4, <1>8, <1>10, <2>1, <3>1, <3>2, <3>3, UntrackAllFewer
  <2>2. CASE lt[t] # None
    <3>1. \A f \in Forms : Tracked(<<t, f>>) => <<t, f>> \in seen
      BY <1>1, <1>2, <1>10, <2>2 DEF HandlesOK
    <3>2. \A f \in Forms : <<t, f>> \notin keys
      BY <1>3, <3>1 DEF Gone
    <3>3. MapSame(t) /\ RowSame(t) /\ EventsSame(t)
      BY <1>2, <1>4, <3>2, UntrackAllBeside
    <3> QED BY <1>8, <3>3 DEF Same
  <2> QED BY <2>1, <2>2
<1>11. StepOK
  <2>1. \A t \in Torrents : Safe(t) /\ Good(t) => Same(t) \/ Settling(t) \/ Fewer(t)
    BY <1>10
  <2>2. \A t \in Torrents : AskSame(t)
    BY <1>8
  <2> QED BY <1>2, <2>1, <2>2, StepIs
<1>12. TypeInv' /\ Commits
  <2>1. QueuesAre'
    BY <1>6, <1>7 DEF QueuesAre, NewCalls, NewAlerts
  <2>2. PlaceIs(pc', after')
    BY <1>1, <1>2 DEF PlaceIs
  <2>3. CountIs(adds', toLoad') /\ (toLoad' = None \/ toLoad' \subseteq Torrents)
    BY <1>1, <1>2 DEF TypeInv, CountIs
  <2>4. LtIs(lt') /\ DirtyIs(m_dirty') /\ changes' \in 0..MaxChanges /\ handles' \subseteq Torrents \X Ids /\ SavesAre(toSave')
    BY <1>1, <1>2 DEF TypeInv
  <2>5. batch' = <<>> /\ pc' \notin {"load", "alerts"}
    BY <1>1, <1>2
  <2> QED BY <1>1, <1>5, <2>1, <2>2, <2>3, <2>4, <2>5 DEF TypeInv, Commits
<1>13. WorkOK'
  BY <1>1 DEF WorkOK
<1>14. CASE after = "stop"
  <2>1. pc' = "stopStatus" /\ calls' = calls /\ alerts' = alerts
    BY <1>1, <1>14
  <2>2. QuietOK'
    BY <1>2, <2>1 DEF QuietOK
  <2>3. RemovalsOK'
    BY <1>1, <2>1 DEF IInv, RemovalsOK
  <2>4. HandlesOK'
    BY <2>1 DEF HandlesOK, Reconciling
  <2> QED BY <1>11, <1>12, <1>13, <2>2, <2>3, <2>4 DEF Keeps, Rest
<1>15. CASE after # "stop"
  <2>1. ~Quiet' /\ removing' = removing
    BY <1>1, <1>15 DEF Quiet, Reconciling
  <2>2. Rest
    BY <1>6, <1>13, <2>1, LoudRest
  <2> QED BY <1>11, <1>12, <2>2 DEF Keeps
<1> QED BY <1>14, <1>15

\* SaveStateUntrack keeps the invariant.
LEMMA SaveStateUntrackKeeps == IInv /\ SaveStateUntrack => Keeps
<1> SUFFICES ASSUME IInv, SaveStateUntrack PROVE Keeps
  OBVIOUS
<1>1. /\ pc = "idle" /\ "saveState" \in Ops /\ pc' = "saveState" /\ rows' = work' /\ UntrackAll(Orphans)
      /\ UNCHANGED <<lt, calls, alerts, dropped, after, batch, handles, seen, toSave, m_dirty, toLoad, adds, loadedIds, removing, changes>>
  BY DEF SaveStateUntrack, ltVars
<1>2. TypeInv /\ Core /\ QueuesAre /\ batch = <<>> /\ PlaceIs(pc, after)
  BY <1>1 DEF IInv, TypeInv
<1>3. PICK keys \in SUBSET Keys : keys = Orphans
  BY DEF Orphans
<1>4. UntrackAll(keys)
  BY <1>1, <1>3
<1>5. MapIs(m_torrents') /\ TableIs(work') /\ EventsAre(events')
  BY <1>2, <1>4, UntrackAllIs
<1>6. NewCalls({}) /\ NewAlerts({})
  BY <1>1, <1>2, CallsKept, AlertsKept
<1>8. \A t \in Torrents : LtSame(t) /\ AskSame(t) /\ QueuesSame(t)
  BY <1>1, <1>6, LtBeside, AskBeside, NothingNew, PlainQueues
<1>10. ASSUME NEW t \in Torrents, Good(t) PROVE Same(t) \/ Fewer(t)
  <2>0. EntryOf(t) /\ CallsOf(t) /\ AlertsOf(t)
    BY <1>10 DEF Good, LifeOf
  <2>1. CASE \A f \in Forms : <<t, f>> \notin keys
    <3>1. MapSame(t) /\ RowSame(t) /\ EventsSame(t)
      BY <1>2, <1>4, <2>1, UntrackAllBeside
    <3> QED BY <1>8, <3>1 DEF Same
  <2>2. ASSUME NEW f \in Forms, <<t, f>> \in keys PROVE Fewer(t)
    <3>1. Current(<<t, f>>) /\ ~Valid(t, m_torrents[<<t, f>>].id)
      BY <1>3, <2>2 DEF Orphans
    <3>2. Tracked(<<t, f>>) /\ m_torrents[<<t, f>>].id = adds[t] /\ \A g \in Forms : ~Fresh(t, g)
      BY <2>0, <3>1 DEF EntryOf, Current, Fresh
    <3>3. ~Live(t) /\ lt[t] = None /\ lt'[t] = None
      BY <1>1, <2>0, <3>1, <3>2 DEF EntryOf, Valid, Live
    <3>4. adds[t] \in Ids /\ <<t, adds[t]>> \in removing
      <4>1. m_torrents[<<t, f>>].id \in Ids
        BY <1>2, <3>2, EntryFields, KeyParts DEF TypeInv, Tracked
      <4> QED BY <2>0, <3>1, <3>2, <3>3, <4>1 DEF EntryOf
    <3>5. ~Settled(t)
      BY <1>1, <3>4 DEF Settled, Calm
    <3>6. Items(calls') \cap AddCalls(t) = {}
      <4>1. \A c \in AddCalls(t) : c.form \in Forms
        BY CallFields DEF AddCalls
      <4>2. Items(calls') \cap AddCalls(t) \subseteq Items(calls)
        BY <1>8 DEF QueuesSame
      <4> QED BY <2>0, <3>2, <4>1, <4>2 DEF CallsOf
    <3>7. \A a \in Items(Waiting') \cap LifeAlerts(t) : a.type = "removed"
      <4>1. \A a \in LifeAlerts(t) : a.form \in Forms /\ a.type \in {"add", "addFailed", "removed"}
        BY AlertFields DEF LifeAlerts
      <4>2. Items(Waiting') \cap LifeAlerts(t) \subseteq Items(Waiting)
        BY <1>8 DEF QueuesSame
      <4> QED BY <2>0, <3>2, <4>1, <4>2 DEF AlertsOf
    <3> QED BY <1>2, <1>4, <1>8, <1>10, <3>3, <3>5, <3>6, <3>7, UntrackAllFewer
  <2> QED BY <2>1, <2>2
<1>11. StepOK
  <2>1. \A t \in Torrents : Safe(t) /\ Good(t) => Same(t) \/ Settling(t) \/ Fewer(t)
    BY <1>10
  <2>2. \A t \in Torrents : AskSame(t)
    BY <1>8
  <2> QED BY <1>2, <2>1, <2>2, StepIs
<1>12. TypeInv' /\ Commits
  <2>1. QueuesAre'
    BY <1>6 DEF QueuesAre, NewCalls, NewAlerts
  <2>2. PlaceIs(pc', after')
    BY <1>1, <1>2 DEF PlaceIs
  <2>3. CountIs(adds', toLoad') /\ (toLoad' = None \/ toLoad' \subseteq Torrents)
    BY <1>1, <1>2 DEF TypeInv, CountIs
  <2>4. LtIs(lt') /\ DirtyIs(m_dirty') /\ changes' \in 0..MaxChanges /\ handles' \subseteq Torrents \X Ids /\ SavesAre(toSave')
    BY <1>1, <1>2 DEF TypeInv
  <2>5. batch' = <<>> /\ pc' \notin {"load", "alerts"}
    BY <1>1, <1>2
  <2> QED BY <1>1, <1>5, <2>1, <2>2, <2>3, <2>4, <2>5 DEF TypeInv, Commits
<1>13. WorkOK' /\ ~Quiet' /\ removing' = removing
  BY <1>1 DEF WorkOK, Quiet, Reconciling
<1>14. Rest
  BY <1>6, <1>13, LoudRest
<1> QED BY <1>11, <1>12, <1>14 DEF Keeps

-----------------------------------------------------------------------------
(* The invariant is inductive                                                *)

\* Nothing was added, and the rows are those of an earlier run.
LEMMA InitHolds == Init => IInv
<1> SUFFICES ASSUME Init PROVE IInv
  OBVIOUS
<1> USE DEF Init
<1>1. LtIs(lt) /\ MapIs(m_torrents) /\ DirtyIs(m_dirty)
  BY DEF LtIs, MapIs, DirtyIs, Maybe
<1>2. QueuesAre
  <2>1. Len(<<>>) = 0 /\ 0 <= AlertLimit
    BY IdsAre
  <2> QED BY <2>1, NoItems DEF QueuesAre
<1>3. \A r \in StoredRows : r \in TableRows /\ r.form \in StoredForms
  <2>1. 0 \in 0..MaxChanges /\ 0 \in Maybe(0..MaxChanges) /\ StoredForms \subseteq Forms /\ "full" \in Forms
        /\ None \in Maybe(Forms) /\ "full" \in Maybe(Forms)
    BY SessionAssumption DEF Maybe, Forms
  <2>2. \A f \in StoredForms : /\ StoredRow(f, f, None) \in TableRows /\ StoredRow(f, f, None).form = f
                               /\ StoredRow(f, "full", "full") \in TableRows /\ StoredRow(f, "full", "full").form = f
    BY <2>1 DEF StoredRow, TableRows
  <2> QED BY <2>2 DEF StoredRows
<1>4. TableIs(rows) /\ TableIs(work)
  BY <1>3 DEF TableIs, Maybe
<1>5. \A t \in Torrents : rows[t] # None => rows[t].form \in StoredForms
  BY <1>3
<1>6. CountIs(adds, toLoad)
  BY <1>5, IdsAre DEF CountIs
<1>7. EventsAre(events) /\ PlaceIs(pc, after)
  BY DEF EventsAre, PlaceIs
<1>8. changes \in 0..MaxChanges /\ handles \subseteq Torrents \X Ids
  BY SessionAssumption
<1>9. SavesAre(toSave)
  BY FS_EmptySet DEF SavesAre
<1>10. TypeInv
  BY <1>1, <1>2, <1>4, <1>6, <1>7, <1>8, <1>9 DEF TypeInv
<1>11. QuietOK /\ RemovalsOK /\ HandlesOK /\ WorkOK /\ RowsOK
  BY NoItems DEF QuietOK, Quiet, Reconciling, RemovalsOK, HandlesOK, WorkOK, RowsOK
<1>12. ASSUME NEW t \in Torrents PROVE Good(t)
  <2>1. ~Live(t) /\ \A f \in Forms : ~Tracked(<<t, f>>) /\ ~Current(<<t, f>>) /\ ~Fresh(t, f)
    BY KeyParts DEF Live, Tracked, Current, Fresh
  <2>2. EntryOf(t)
    BY <2>1 DEF EntryOf
  <2>3. Items(calls) = {} /\ Items(Waiting) = {} /\ Once(calls, AddCalls(t)) /\ Once(Waiting, LifeAlerts(t))
    <3>1. Items(Waiting) = Items(batch) \cup Items(alerts)
      BY <1>2, WaitingIs
    <3>2. Items(calls) = {} /\ Items(Waiting) = {}
      BY <3>1, NoItems
    <3> QED BY <3>2, OnceNone
  <2>4. CallsOf(t) /\ AlertsOf(t) /\ UntrackedOf(t)
    BY <2>3 DEF CallsOf, AlertsOf, UntrackedOf
  <2>5. EventsOf(t)
    BY <2>1 DEF EventsOf, EventNames
  <2>6. "full" \notin StoredForms => StoredOf(t)
    BY <1>5, <2>1 DEF StoredOf
  <2> QED BY <2>2, <2>4, <2>5, <2>6 DEF Good, LifeOf
<1> QED BY <1>10, <1>11, <1>12 DEF IInv, Core

\* What every step keeps, one case per action.
LEMMA NextKeeps ==
    ASSUME IInv, [Next]_vars
    PROVE  Keeps
<1>1. CASE LtStep \/ \E t \in Torrents : LtMetadata(t)
  BY <1>1, LtAddKeeps, LtAddFailsKeeps, LtRemoveKeeps, LtOtherKeeps DEF LtStep
<1>2. CASE ProcessAlert
  BY <1>2, OnAddFailedKeeps, OnAddKnownKeeps, OnAddNewKeeps, OnRemovedKeeps, OnMetadataKeeps, OnSavedKeeps,
     OnNotSavedKeeps, OnUpdateKeeps DEF ProcessAlert
<1>3. CASE ReadAlerts \/ CommitAlerts
  BY <1>3, ReadAlertsKeeps, CommitAlertsKeeps
<1>4. CASE Load
  BY <1>4, ReadAlertsKeeps, LoadRowKeeps, ReconcileStartKeeps, PostUpdatesKeeps DEF Load
<1>5. CASE Reconcile
  BY <1>5, ReconcileStartKeeps, ReconcileTorrentKeeps, ReconcileGoneKeeps DEF Reconcile
<1>6. CASE SaveDirty \/ SaveStateUntrack \/ SaveStateSave \/ PostTorrentUpdates
  BY <1>6, SaveDirtyKeeps, SaveStateUntrackKeeps, SaveStateSaveKeeps, PostUpdatesKeeps
<1>7. CASE Stopping
  BY <1>7, StopStatusKeeps, StopChunkKeeps, StopReadKeeps, StopAlertKeeps DEF Stopping
<1>8. CASE Stop
  BY <1>8, ReconcileStartKeeps
<1>9. CASE Requests
  <2>1. ASSUME NEW k \in Keys, NEW op \in {"configure", "queue"} \cap Ops, UserChange(k, op) PROVE Keeps
    BY <2>1, UserChangeKeeps
  <2> QED BY <1>9, <2>1, UserAddKeeps, UserRemoveKeeps DEF Requests
<1>10. CASE UNCHANGED vars
  BY <1>10, StutterKeeps
<1> QED BY <1>1, <1>2, <1>3, <1>4, <1>5, <1>6, <1>7, <1>8, <1>9, <1>10 DEF Next, IoThread

\* A removal that was asked for stays asked for.
LEMMA RemovingGrows == [Next]_vars => removing \subseteq removing'
<1> SUFFICES ASSUME [Next]_vars PROVE removing \subseteq removing'
  OBVIOUS
<1>1. CASE LtStep \/ \E t \in Torrents : LtMetadata(t)
  BY <1>1 DEF LtStep, LtMetadata, LtAdd, LtAddFails, LtRemove, LtSave, LtConfigure, LtMoveQueue, LtPostUpdates, Takes
<1>2. CASE ProcessAlert
  BY <1>2 DEF ProcessAlert, OnAddFailed, OnAddKnown, OnAddNew, HandlesAdd, OnRemoved, OnMetadata, OnSaved, OnNotSaved,
     OnUpdate, OnDropped, Handles
<1>3. CASE ReadAlerts \/ CommitAlerts
  BY <1>3 DEF ReadAlerts, CommitAlerts, histVars
<1>4. CASE Load
  BY <1>4 DEF Load, LoadRun, LoadRow, LoadFinish, LoadFinishEmpty, histVars
<1>5. CASE Reconcile
  <2>1. ASSUME NEW h, NEW k, ReconcileNext(h, k) PROVE removing \subseteq removing'
    BY <2>1 DEF ReconcileNext
  <2>2. CASE ReconcileTorrent
    <3>1. PICK h \in handles, k \in Keys : ReconcileCurrent(h, k) \/ ReconcileRehashed(h, k)
                                          \/ ReconcileLoaded(h, k) \/ ReconcileAdd(h, k)
      BY <2>2 DEF ReconcileTorrent
    <3>2. ReconcileNext(h, k)
      BY <3>1 DEF ReconcileCurrent, ReconcileRehashed, ReconcileLoaded, ReconcileAdd
    <3> QED BY <2>1, <3>2
  <2>3. CASE ReconcileJob \/ ReconcileGone
    BY <2>3 DEF ReconcileJob, ReconcileGone, histVars
  <2> QED BY <1>5, <2>2, <2>3 DEF Reconcile
<1>6. CASE SaveDirty \/ SaveStateUntrack \/ SaveStateSave \/ PostTorrentUpdates
  BY <1>6 DEF SaveDirty, SaveStateUntrack, SaveStateSave, PostTorrentUpdates, histVars
<1>7. CASE Stopping
  BY <1>7 DEF Stopping, StopStatus, StopChunk, StopRead, StopAlert, StopChunkDone, histVars
<1>8. CASE Stop
  BY <1>8 DEF Stop, histVars
<1>9. CASE Requests
  BY <1>9 DEF Requests, UserAdd, UserRemove, UserChange
<1>10. CASE UNCHANGED vars
  BY <1>10 DEF vars, histVars
<1> QED BY <1>1, <1>2, <1>3, <1>4, <1>5, <1>6, <1>7, <1>8, <1>9, <1>10 DEF Next, IoThread

\* Every step keeps the inductive invariant.
LEMMA StepHolds == IInv /\ [Next]_vars => IInv'
<1> SUFFICES ASSUME IInv, [Next]_vars PROVE IInv'
  OBVIOUS
<1>1. TypeInv' /\ Commits /\ StepOK /\ QuietOK' /\ RemovalsOK' /\ HandlesOK' /\ WorkOK'
  BY NextKeeps DEF Keeps, Rest
<1>2. Core'
  BY <1>1 DEF Core, StepOK
<1>3. RowsOK'
  <2> SUFFICES ASSUME NEW t \in Torrents, Calm(t)', rows'[t] # None PROVE work'[t] # None
    BY DEF RowsOK
  <2>1. Calm(t)
    BY RemovingGrows DEF Calm
  <2>2. Safe(t)
    BY <2>1 DEF Safe, Settled
  <2>3. KeepsRow(t)
    BY <1>1, <2>2 DEF StepOK
  <2> QED BY <1>1, <2>1, <2>3 DEF Commits, IInv, RowsOK, KeepsRow
<1> QED BY <1>1, <1>2, <1>3 DEF IInv

\* The inductive invariant holds: whatever the two threads do, an entry outlives its torrent.
THEOREM Inductive == Spec => []IInv
<1> QED BY InitHolds, StepHolds, PTL DEF Spec

-----------------------------------------------------------------------------
(* Theorems                                                                  *)

\* The state has its shape whatever libtorrent, the users and the jobs do: the alert
\* queue keeps its limit, and a current entry has the handle that the jobs use.
THEOREM SessionIsTyped == Spec => []TypeOK
<1>1. IInv => TypeOK
  BY TypeOKHolds DEF IInv
<1> QED BY <1>1, Inductive, PTL

\* No handler, job or Stop deletes the row of a torrent whose removal was not asked for:
\* not when its add fails, its alerts are dropped or its entry is untracked.
THEOREM RowsAreKept == Spec => RowKept
<1>1. ASSUME IInv, [Next]_vars
      PROVE  [\A t \in Torrents : rows[t] # None /\ rows'[t] = None => \E id \in Ids : <<t, id>> \in removing]_vars
  <2> SUFFICES ASSUME NEW t \in Torrents, rows[t] # None, rows'[t] = None, Calm(t) PROVE FALSE
    BY DEF Calm
  <2>1. Commits /\ StepOK
    BY <1>1, NextKeeps DEF Keeps
  <2>2. Safe(t)
    BY DEF Safe, Settled
  <2>3. work[t] # None
    BY <1>1 DEF IInv, RowsOK
  <2>4. work'[t] # None
    BY <2>1, <2>2, <2>3 DEF StepOK, KeepsRow
  <2> QED BY <2>1, <2>4 DEF Commits
<1> QED BY <1>1, Inductive, PTL DEF Spec, RowKept

\* No torrent is added again after its removal was asked for, in a session whose
\* SaveState job may untrack it before its removal alert is read.
NotAddedAgain == \A t \in Torrents : "saveState" \notin Ops \/ Calm(t) \/ adds[t] <= 1

\* Without such an add every torrent is as the invariant says.
LEMMA AllGood == IInv /\ NotAddedAgain => \A t \in Torrents : Good(t)
  BY DEF IInv, Core, NotAddedAgain, Safe, Settled

\* A torrent libtorrent has, or was asked to add, has the entry that owns its client data.
THEOREM DataIsOwned == Spec => [](NotAddedAgain => DataOwned)
<1>1. ASSUME IInv, NotAddedAgain PROVE DataOwned
  <2> SUFFICES ASSUME NEW t \in Torrents, NEW id \in Ids, Wanted(t, id)
               PROVE  \E f \in Forms : Tracked(<<t, f>>) /\ m_torrents[<<t, f>>].id = id
    BY DEF DataOwned
  <2>1. EntryOf(t) /\ CallsOf(t)
    BY <1>1, AllGood DEF Good, LifeOf
  <2>2. CASE Valid(t, id)
    BY <2>1, <2>2 DEF Valid, EntryOf
  <2>3. ASSUME NEW i \in DOMAIN calls, calls[i].op = "add", calls[i].t = t, calls[i].id = id
        PROVE  \E f \in Forms : Tracked(<<t, f>>) /\ m_torrents[<<t, f>>].id = id
    <3>1. PICK c \in Items(calls) : c = calls[i]
      BY DEF Items
    <3>2. c \in CallMsgs /\ c.op = "add" /\ c.t = t /\ c.id = id
      BY <1>1, <2>3, <3>1 DEF IInv, TypeInv, QueuesAre
    <3>3. c \in AddCalls(t) /\ c.form \in Forms
      BY <3>2, CallFields DEF AddCalls
    <3> QED BY <2>1, <3>1, <3>2, <3>3 DEF CallsOf, Fresh, EntryOf
  <2> QED BY <2>2, <2>3 DEF Wanted
<1> QED BY <1>1, Inductive, PTL

\* Between handlers a current torrent has a row its resume data will be stored in, in a
\* session that starts without full rows.
THEOREM CurrentAreStored == "full" \notin StoredForms => (Spec => [](NotAddedAgain => CurrentIsStored))
<1> SUFFICES ASSUME "full" \notin StoredForms PROVE Spec => [](NotAddedAgain => CurrentIsStored)
  OBVIOUS
<1>1. ASSUME IInv, NotAddedAgain PROVE CurrentIsStored
  <2> SUFFICES ASSUME pc = "idle", NEW k \in Keys, Current(k), <<k[1], m_torrents[k].id>> \notin removing
               PROVE  Matches(rows[k[1]], k[2])
    BY DEF CurrentIsStored
  <2>1. PICK t \in Torrents, f \in Forms : k = <<t, f>>
    BY KeyParts
  <2>2. Good(t)
    BY <1>1, AllGood
  <2>3. EntryOf(t) /\ StoredOf(t)
    BY <2>2 DEF Good, LifeOf
  <2>4. work = rows
    BY <1>1 DEF IInv, WorkOK
  <2>5. Tracked(<<t, f>>) /\ m_torrents[<<t, f>>].state = "Current" /\ <<t, m_torrents[<<t, f>>].id>> \notin removing
    BY <2>1 DEF Current
  <2>6. Matches(work[t], f)
    BY <2>3, <2>5 DEF EntryOf, StoredOf
  <2> QED BY <2>1, <2>4, <2>6
<1> QED BY <1>1, Inductive, PTL

\* torrent.added and torrent.removed are published once for an add, by whichever handler
\* or job comes first, and an add alert that waits is of a torrent that is still there.
THEOREM LifeEventsMatch == Spec => [](NotAddedAgain => AddedOnce /\ RemovedMatches /\ AddAlertIsLive)
<1>1. ASSUME IInv, NotAddedAgain PROVE AddedOnce /\ RemovedMatches
  <2>1. \A t \in Torrents : EventsOf(t)
    BY <1>1, AllGood DEF Good
  <2> QED BY <2>1 DEF EventsOf, AddedOnce, RemovedMatches
<1>2. ASSUME IInv, NotAddedAgain PROVE AddAlertIsLive
  <2> SUFFICES ASSUME NEW queue \in {alerts, batch}, NEW i \in DOMAIN queue, queue[i].type = "add"
               PROVE  Valid(queue[i].t, queue[i].id)
    BY DEF AddAlertIsLive
  <2>1. PICK a \in Items(Waiting) : a = queue[i]
    <3>1. Items(Waiting) = Items(batch) \cup Items(alerts)
      BY <1>2, WaitingIs DEF IInv, TypeInv
    <3> QED BY <3>1 DEF Items
  <2>2. a \in AlertMsgs
    <3>1. queue \in Seq(AlertMsgs)
      BY <1>2 DEF IInv, TypeInv, QueuesAre
    <3> QED BY <2>1, <3>1
  <2>3. a.t \in Torrents /\ a \in LifeAlerts(a.t)
    BY <2>1, <2>2, AlertFields DEF LifeAlerts
  <2>4. AlertsOf(a.t) /\ EntryOf(a.t)
    BY <1>2, <2>3, AllGood DEF Good, LifeOf
  <2> QED BY <2>1, <2>3, <2>4 DEF AlertsOf, EntryOf, Valid
<1> QED BY <1>1, <1>2, Inductive, PTL

-----------------------------------------------------------------------------
(* The order of a queue                                                      *)

\* The order stays when the first message is taken.
LEMMA BeforeTail ==
    ASSUME NEW S, NEW q \in Seq(S), q # <<>>, NEW N, NEW M, Before(q, N, M)
    PROVE  Before(Tail(q), N, M)
<1> DEFINE n == Len(q)
           v == Tail(q)
<1>1. /\ n \in Nat \ {0} /\ DOMAIN q = 1..n /\ Len(v) = n - 1 /\ v \in Seq(S)
      /\ \A i \in 1..(n - 1) : v[i] = q[i + 1]
  BY HeadTailProperties, EmptySeq, LenProperties
<1>2. DOMAIN v = 1..(n - 1)
  BY <1>1, LenProperties
<1> HIDE DEF n, v
<1>3. ASSUME NEW i \in 1..(n - 1), NEW j \in 1..(n - 1), v[i] \in M, v[j] \in N PROVE j < i
  <2>1. i + 1 \in 1..n /\ j + 1 \in 1..n
    BY <1>1
  <2>2. j + 1 < i + 1
    BY <1>1, <1>3, <2>1 DEF Before
  <2> QED BY <2>2, <1>1
<1> QED BY <1>2, <1>3 DEF Before, v

\* It stays when a message of another kind, or the first of its kind, is put at the end.
LEMMA BeforeAppend ==
    ASSUME NEW S, NEW q \in Seq(S), NEW a \in S, NEW N, NEW M, Before(q, N, M),
           a \notin N \/ (a \notin M /\ Items(q) \cap M = {})
    PROVE  Before(Append(q, a), N, M)
<1> DEFINE n == Len(q)
<1>1. /\ n \in Nat /\ DOMAIN q = 1..n
      /\ DOMAIN Append(q, a) = 1..(n + 1)
      /\ \A i \in 1..n : Append(q, a)[i] = q[i]
      /\ Append(q, a)[n + 1] = a
  BY LenProperties
<1> HIDE DEF n
<1> SUFFICES ASSUME NEW i \in 1..(n + 1), NEW j \in 1..(n + 1),
                    Append(q, a)[i] \in M, Append(q, a)[j] \in N
             PROVE  j < i
  BY <1>1 DEF Before
<1>2. (i \in 1..n \/ i = n + 1) /\ (j \in 1..n \/ j = n + 1)
  BY <1>1
<1>3. CASE j = n + 1
  <2>1. a \notin M /\ Items(q) \cap M = {}
    BY <1>1, <1>3
  <2> QED BY <1>1, <1>2, <2>1 DEF Items
<1>4. CASE j \in 1..n /\ i = n + 1
  BY <1>1, <1>4
<1>5. CASE j \in 1..n /\ i \in 1..n
  BY <1>1, <1>5 DEF Before
<1> QED BY <1>2, <1>3, <1>4, <1>5

\* It stays when the head is replaced by a message that comes first anyway.
LEMMA BeforeCons ==
    ASSUME NEW S, NEW q \in Seq(S), NEW x \in S, NEW N, NEW M, Before(q, N, M), x \notin M
    PROVE  Before(<<x>> \o q, N, M)
<1> DEFINE v == <<x>> \o q
           n == Len(q)
<1>1. /\ n \in Nat /\ DOMAIN q = 1..n /\ DOMAIN v = 1..(1 + n) /\ v[1] = x /\ \A i \in 1..n : v[1 + i] = q[i]
  BY ConsIs
<1> HIDE DEF v, n
<1>2. ASSUME NEW i \in 1..(1 + n), i # 1 PROVE i - 1 \in 1..n /\ v[i] = q[i - 1]
  <2>1. i - 1 \in 1..n /\ 1 + (i - 1) = i
    BY <1>1, <1>2
  <2> QED BY <2>1, <1>1
<1>3. ASSUME NEW i \in 1..(1 + n), NEW j \in 1..(1 + n), v[i] \in M, v[j] \in N PROVE j < i
  <2>1. i # 1
    BY <1>1, <1>3
  <2>2. CASE j = 1
    BY <1>1, <2>1, <2>2
  <2>3. CASE j # 1
    <3>1. j - 1 < i - 1
      BY <1>1, <1>2, <1>3, <2>1, <2>3 DEF Before
    <3> QED BY <3>1, <1>1
  <2> QED BY <2>2, <2>3
<1> QED BY <1>1, <1>3 DEF Before, v

\* Nothing comes before the head.
LEMMA BeforeHead ==
    ASSUME NEW S, NEW q \in Seq(S), q # <<>>, NEW N, NEW M, Before(q, N, M), Head(q) \in M
    PROVE  Items(q) \cap N = {}
<1> DEFINE n == Len(q)
<1>1. n \in Nat \ {0} /\ DOMAIN q = 1..n /\ Head(q) = q[1]
  BY HeadTailProperties, EmptySeq, LenProperties
<1> HIDE DEF n
<1>2. ASSUME NEW j \in 1..n, q[j] \in N PROVE FALSE
  <2>1. 1 \in 1..n
    BY <1>1
  <2>2. j < 1
    BY <1>1, <1>2, <2>1 DEF Before
  <2> QED BY <2>2, <1>1
<1> QED BY <1>1, <1>2 DEF Items

\* There is no order where one of the kinds is missing.
LEMMA BeforeNone ==
    ASSUME NEW q, NEW N, NEW M, Items(q) \cap M = {} \/ Items(q) \cap N = {}
    PROVE  Before(q, N, M)
  BY DEF Before, Items

-----------------------------------------------------------------------------
(* Metadata                                                                  *)

Listings(t) == {a \in AlertMsgs : a.type = "update" /\ \E s \in a.status : s.t = t}
AddAlerts(t) == {a \in AlertMsgs : a.type = "add" /\ a.t = t}
Removals(t) == {a \in AlertMsgs : a.type = "removed" /\ a.t = t}
Failures(t) == {a \in AlertMsgs : a.type = "addFailed" /\ a.t = t}
MetaAlerts(t, id) == {a \in AlertMsgs : a.type = "metadata" /\ a.t = t /\ a.id = id}

\* A status of t that waits is of its last add: it came before the removal and after the
\* add, and goes with the entry.
ListedOf(t) ==
    /\ \A a \in Items(Waiting) \cap Listings(t) : \A s \in a.status : s.t = t => s.id = adds[t]
    /\ Items(Waiting) \cap Listings(t) # {} =>
          Items(calls) \cap AddCalls(t) = {} /\ Items(Waiting) \cap Failures(t) = {}
    /\ Before(Waiting, Listings(t), Removals(t))
    /\ Settled(t) /\ (\A f \in Forms : ~Tracked(<<t, f>>)) => Items(Waiting) \cap Listings(t) = {}

\* The metadata alert of the last add comes behind its add alert.
MetaAlertsOf(t) ==
    /\ \A id : id > adds[t] => Items(Waiting) \cap MetaAlerts(t, id) = {}
    /\ Items(Waiting) \cap MetaAlerts(t, adds[t]) # {} => Items(calls) \cap AddCalls(t) = {}
    /\ Before(Waiting, AddAlerts(t), MetaAlerts(t, adds[t]))

\* The add alert that was not dropped waits or has made the entry current.
AnsweredOf(t) ==
    Live(t) /\ <<"add", t, adds[t]>> \notin lost =>
        Items(Waiting) \cap AddAlerts(t) # {} \/ \E f \in Forms : Current(<<t, f>>)

\* What was published is remembered by the entry.
AnnouncedOf(t) ==
    /\ \A id \in Ids : id > adds[t] => events[<<"metadata", t, id>>] = 0
    /\ \A id \in Ids : <<"add", t, id>> \notin lost =>
          /\ events[<<"metadata", t, id>>] <= 1
          /\ id = adds[t] /\ events[<<"metadata", t, id>>] # 0 =>
                \A f \in Forms : Tracked(<<t, f>>) => m_torrents[<<t, f>>].announced

Meta(t) == ListedOf(t) /\ MetaAlertsOf(t) /\ AnsweredOf(t) /\ AnnouncedOf(t)

-----------------------------------------------------------------------------
(* Steps that post nothing of t                                              *)

\* r has no more statuses of t than q, and none that is later than a removal.
ListsFollow(q, r, t) ==
    /\ \A a \in Items(r) \cap Listings(t) : \A s \in a.status :
          s.t = t => \E b \in Items(q) \cap Listings(t) : s \in b.status
    /\ Items(r) \cap Failures(t) \subseteq Items(q)
    /\ Before(q, Listings(t), Removals(t)) => Before(r, Listings(t), Removals(t))

\* It has no more metadata alerts, and none that is earlier than the add alert.
MetasFollow(q, r, t) ==
    /\ \A id : Items(r) \cap MetaAlerts(t, id) \subseteq Items(q)
    /\ \A id : Before(q, AddAlerts(t), MetaAlerts(t, id)) => Before(r, AddAlerts(t), MetaAlerts(t, id))

Follows(q, r, t) == ListsFollow(q, r, t) /\ MetasFollow(q, r, t)

\* A queue follows itself.
LEMMA FollowsSame ==
    ASSUME NEW t, NEW q
    PROVE  Follows(q, q, t)
  BY DEF Follows, ListsFollow, MetasFollow

\* What is left of it follows it.
LEMMA FollowsTail ==
    ASSUME NEW t, NEW q \in Seq(AlertMsgs), q # <<>>
    PROVE  Follows(q, Tail(q), t)
<1>1. Items(Tail(q)) \subseteq Items(q)
  BY TailItems
<1>2. Before(q, Listings(t), Removals(t)) => Before(Tail(q), Listings(t), Removals(t))
  BY BeforeTail
<1>3. ASSUME NEW id, Before(q, AddAlerts(t), MetaAlerts(t, id)) PROVE Before(Tail(q), AddAlerts(t), MetaAlerts(t, id))
  BY <1>3, BeforeTail
<1> QED BY <1>1, <1>2, <1>3 DEF Follows, ListsFollow, MetasFollow

\* An alert that says something else is put behind it.
LEMMA ListsAppend ==
    ASSUME NEW t, NEW q \in Seq(AlertMsgs), NEW a \in AlertMsgs, a \notin Listings(t), a \notin Failures(t)
    PROVE  ListsFollow(q, Append(q, a), t)
<1>1. Items(Append(q, a)) = Items(q) \cup {a}
  BY AppendItems
<1>2. Before(q, Listings(t), Removals(t)) => Before(Append(q, a), Listings(t), Removals(t))
  BY BeforeAppend
<1> QED BY <1>1, <1>2 DEF ListsFollow

\* The same for the metadata alerts.
LEMMA MetasAppend ==
    ASSUME NEW t, NEW q \in Seq(AlertMsgs), NEW a \in AlertMsgs, a \notin AddAlerts(t), \A id : a \notin MetaAlerts(t, id)
    PROVE  MetasFollow(q, Append(q, a), t)
<1>1. Items(Append(q, a)) = Items(q) \cup {a}
  BY AppendItems
<1>2. ASSUME NEW id, Before(q, AddAlerts(t), MetaAlerts(t, id)) PROVE Before(Append(q, a), AddAlerts(t), MetaAlerts(t, id))
  BY <1>2, BeforeAppend
<1> QED BY <1>1, <1>2 DEF MetasFollow

\* A state update is handled in part.
LEMMA FollowsCons ==
    ASSUME NEW t, NEW q \in Seq(AlertMsgs), q # <<>>, Head(q).type = "update",
           NEW x \in AlertMsgs, x.type = "update", x.status \subseteq Head(q).status
    PROVE  Follows(q, <<x>> \o Tail(q), t)
<1> DEFINE r == Tail(q)
           h == Head(q)
<1>1. r \in Seq(AlertMsgs) /\ h \in AlertMsgs /\ Items(q) = {h} \cup Items(r)
  BY TailItems
<1>2. /\ Before(q, Listings(t), Removals(t)) => Before(r, Listings(t), Removals(t))
      /\ \A id : Before(q, AddAlerts(t), MetaAlerts(t, id)) => Before(r, AddAlerts(t), MetaAlerts(t, id))
  BY FollowsTail DEF Follows, ListsFollow, MetasFollow
<1>3. h.type = "update" /\ x.status \subseteq h.status
  OBVIOUS
<1> HIDE DEF r, h
<1>4. Items(<<x>> \o r) = {x} \cup Items(r)
  BY <1>1, ConsItems
<1>5. x \notin Removals(t) /\ x \notin Failures(t) /\ \A id : x \notin MetaAlerts(t, id)
  BY DEF Removals, Failures, MetaAlerts
<1>6. x \in Listings(t) => h \in Listings(t)
  BY <1>1, <1>3 DEF Listings
<1>7. Before(q, Listings(t), Removals(t)) => Before(<<x>> \o r, Listings(t), Removals(t))
  BY <1>1, <1>2, <1>5, BeforeCons
<1>8. ASSUME NEW id, Before(q, AddAlerts(t), MetaAlerts(t, id)) PROVE Before(<<x>> \o r, AddAlerts(t), MetaAlerts(t, id))
  BY <1>1, <1>2, <1>5, <1>8, BeforeCons
<1>9. ASSUME NEW a \in Items(<<x>> \o r) \cap Listings(t), NEW s \in a.status, s.t = t
      PROVE  \E b \in Items(q) \cap Listings(t) : s \in b.status
  <2>1. CASE a = x
    BY <1>1, <1>3, <1>6, <1>9, <2>1
  <2>2. CASE a \in Items(r)
    BY <1>1, <1>9, <2>2
  <2> QED BY <1>4, <1>9, <2>1, <2>2
<1>10. Items(<<x>> \o r) \cap Failures(t) \subseteq Items(q) /\ \A id : Items(<<x>> \o r) \cap MetaAlerts(t, id) \subseteq Items(q)
  BY <1>1, <1>4, <1>5
<1> QED BY <1>7, <1>8, <1>9, <1>10 DEF Follows, ListsFollow, MetasFollow, r

-----------------------------------------------------------------------------
(* What a step does to the metadata of one torrent                           *)

\* The add alert of t waits, or t has a current entry.
Answered(t) == Items(Waiting) \cap AddAlerts(t) # {} \/ \E f \in Forms : Current(<<t, f>>)

\* What was published of t, its entries remember.
Recalls(t) ==
    /\ \A id \in Ids : events'[<<"metadata", t, id>>] = events[<<"metadata", t, id>>]
    /\ \A f \in Forms : Tracked(<<t, f>>)' =>
          \E g \in Forms : Tracked(<<t, g>>) /\ (m_torrents[<<t, g>>].announced => m_torrents'[<<t, f>>].announced)

\* Nothing else is said of t, and its entry goes with its last status.
Steady(t) ==
    /\ adds'[t] = adds[t] /\ Items(calls') \cap AddCalls(t) \subseteq Items(calls)
    /\ removing \subseteq removing' /\ lost \subseteq lost'
    /\ (\A f \in Forms : ~Tracked(<<t, f>>)') =>
          (\A f \in Forms : ~Tracked(<<t, f>>)) \/ Items(Waiting) \cap Listings(t) = {} \/ ~Settled(t)'
    /\ Live(t)' => Live(t) /\ (Answered(t) => Answered(t)')

\* No status of t appears where there was none.
LEMMA NoListing ==
    ASSUME NEW t, NEW q, NEW r, ListsFollow(q, r, t), Items(q) \cap Listings(t) = {}
    PROVE  Items(r) \cap Listings(t) = {}
<1> SUFFICES ASSUME NEW a \in Items(r) \cap Listings(t) PROVE FALSE
  OBVIOUS
<1>1. PICK s \in a.status : s.t = t
  BY DEF Listings
<1>2. \E b \in Items(q) \cap Listings(t) : s \in b.status
  BY <1>1 DEF ListsFollow
<1> QED BY <1>2

\* So do its statuses.
LEMMA ListedKept ==
    ASSUME NEW t \in Torrents, Steady(t), ListsFollow(Waiting, Waiting', t), ListedOf(t)
    PROVE  ListedOf(t)'
<1> DEFINE q == Waiting
           r == Waiting'
           n == adds[t]
<1>0. ListsFollow(q, r, t) /\ adds'[t] = n /\ Items(calls') \cap AddCalls(t) \subseteq Items(calls)
  BY DEF Steady
<1>1. /\ \A a \in Items(q) \cap Listings(t) : \A s \in a.status : s.t = t => s.id = n
      /\ Items(q) \cap Listings(t) # {} => Items(calls) \cap AddCalls(t) = {} /\ Items(q) \cap Failures(t) = {}
      /\ Before(q, Listings(t), Removals(t))
      /\ Settled(t) /\ (\A f \in Forms : ~Tracked(<<t, f>>)) => Items(q) \cap Listings(t) = {}
  BY DEF ListedOf
<1>2. Items(q) \cap Listings(t) = {} => Items(r) \cap Listings(t) = {}
  <2> HIDE DEF q, r
  <2> QED BY <1>0, NoListing
<1>3. Settled(t)' => Settled(t)
  BY DEF Steady, Settled, Calm
<1>4. (\A f \in Forms : ~Tracked(<<t, f>>)') /\ Settled(t)' => Items(r) \cap Listings(t) = {}
  <2>1. (\A f \in Forms : ~Tracked(<<t, f>>)') /\ Settled(t)' => Items(q) \cap Listings(t) = {}
    BY <1>1, <1>3 DEF Steady
  <2> QED BY <1>2, <2>1
<1>5. /\ \A a \in Items(r) \cap Listings(t) : \A s \in a.status : s.t = t => s.id = n
      /\ Items(r) \cap Listings(t) # {} => Items(calls') \cap AddCalls(t) = {} /\ Items(r) \cap Failures(t) = {}
      /\ Before(r, Listings(t), Removals(t))
  <2> HIDE DEF q, r, n
  <2>1. \A a \in Items(r) \cap Listings(t) : \A s \in a.status : s.t = t => s.id = n
    BY <1>0, <1>1 DEF ListsFollow
  <2>2. Items(r) \cap Listings(t) # {} => Items(calls') \cap AddCalls(t) = {} /\ Items(r) \cap Failures(t) = {}
    BY <1>0, <1>1, <1>2 DEF ListsFollow
  <2>3. Before(r, Listings(t), Removals(t))
    BY <1>0, <1>1 DEF ListsFollow
  <2> QED BY <2>1, <2>2, <2>3
<1> QED BY <1>0, <1>4, <1>5 DEF ListedOf

\* And its metadata alerts.
LEMMA MetaAlertsKept ==
    ASSUME NEW t \in Torrents, Steady(t), MetasFollow(Waiting, Waiting', t), MetaAlertsOf(t)
    PROVE  MetaAlertsOf(t)'
<1> DEFINE q == Waiting
           r == Waiting'
           n == adds[t]
<1>0. MetasFollow(q, r, t) /\ adds'[t] = n /\ Items(calls') \cap AddCalls(t) \subseteq Items(calls)
  BY DEF Steady
<1>1. /\ \A id : id > n => Items(q) \cap MetaAlerts(t, id) = {}
      /\ Items(q) \cap MetaAlerts(t, n) # {} => Items(calls) \cap AddCalls(t) = {}
      /\ Before(q, AddAlerts(t), MetaAlerts(t, n))
  BY DEF MetaAlertsOf
<1>2. /\ \A id : id > n => Items(r) \cap MetaAlerts(t, id) = {}
      /\ Items(r) \cap MetaAlerts(t, n) # {} => Items(calls') \cap AddCalls(t) = {}
      /\ Before(r, AddAlerts(t), MetaAlerts(t, n))
  <2> HIDE DEF q, r, n
  <2>1. \A id : Items(r) \cap MetaAlerts(t, id) \subseteq Items(q)
    BY <1>0 DEF MetasFollow
  <2>2. Before(r, AddAlerts(t), MetaAlerts(t, n))
    BY <1>0, <1>1 DEF MetasFollow
  <2> QED BY <1>0, <1>1, <2>1, <2>2
<1> QED BY <1>0, <1>2 DEF MetaAlertsOf

\* The events of t stay and its entries remember them.
LEMMA AnnouncedKept ==
    ASSUME NEW t \in Torrents, adds'[t] = adds[t], lost \subseteq lost', Recalls(t), AnnouncedOf(t)
    PROVE  AnnouncedOf(t)'
<1>1. \A id \in Ids : events'[<<"metadata", t, id>>] = events[<<"metadata", t, id>>]
  BY DEF Recalls
<1>2. \A id \in Ids : id > adds'[t] => events'[<<"metadata", t, id>>] = 0
  BY <1>1 DEF AnnouncedOf
<1>3. ASSUME NEW id \in Ids, <<"add", t, id>> \notin lost'
      PROVE  /\ events'[<<"metadata", t, id>>] <= 1
             /\ id = adds'[t] /\ events'[<<"metadata", t, id>>] # 0 =>
                   \A f \in Forms : Tracked(<<t, f>>)' => m_torrents'[<<t, f>>].announced
  <2>1. <<"add", t, id>> \notin lost
    BY <1>3
  <2>2. /\ events[<<"metadata", t, id>>] <= 1
        /\ id = adds[t] /\ events[<<"metadata", t, id>>] # 0 =>
                   \A f \in Forms : Tracked(<<t, f>>) => m_torrents[<<t, f>>].announced
    BY <2>1 DEF AnnouncedOf
  <2>3. ASSUME id = adds'[t], events'[<<"metadata", t, id>>] # 0, NEW f \in Forms, Tracked(<<t, f>>)'
        PROVE  m_torrents'[<<t, f>>].announced
    <3>1. PICK g \in Forms : Tracked(<<t, g>>) /\ (m_torrents[<<t, g>>].announced => m_torrents'[<<t, f>>].announced)
      BY <2>3 DEF Recalls
    <3> QED BY <1>1, <2>2, <2>3, <3>1
  <2> QED BY <1>1, <2>2, <2>3
<1> QED BY <1>2, <1>3 DEF AnnouncedOf

\* A step that says nothing new of t keeps what is said of its metadata.
LEMMA MetaKept ==
    ASSUME NEW t \in Torrents, Steady(t), Follows(Waiting, Waiting', t), Recalls(t), Meta(t)
    PROVE  Meta(t)'
<1>1. ListedOf(t)' /\ MetaAlertsOf(t)'
  BY ListedKept, MetaAlertsKept DEF Meta, Follows
<1>2. AnnouncedOf(t)'
  BY AnnouncedKept DEF Meta, Steady
<1>3. AnsweredOf(t)'
  <2> SUFFICES ASSUME Live(t)', <<"add", t, adds'[t]>> \notin lost' PROVE Answered(t)'
    BY DEF AnsweredOf, Answered
  <2>1. Live(t) /\ <<"add", t, adds[t]>> \notin lost
    BY DEF Steady
  <2>2. Answered(t)
    BY <2>1 DEF Meta, AnsweredOf, Answered
  <2> QED BY <2>2 DEF Steady
<1> QED BY <1>1, <1>2, <1>3 DEF Meta

\* A step that leaves the entries of t alone.
LEMMA StillSteady ==
    ASSUME NEW t \in Torrents, adds'[t] = adds[t], Items(calls') \cap AddCalls(t) \subseteq Items(calls),
           removing \subseteq removing', lost \subseteq lost', Live(t)' => Live(t),
           Items(Waiting) \cap AddAlerts(t) \subseteq Items(Waiting'),
           \A f \in Forms : m_torrents'[<<t, f>>] = m_torrents[<<t, f>>],
           \A id \in Ids : events'[<<"metadata", t, id>>] = events[<<"metadata", t, id>>]
    PROVE  Steady(t) /\ Recalls(t)
<1>1. \A f \in Forms : (Tracked(<<t, f>>)' <=> Tracked(<<t, f>>)) /\ (Current(<<t, f>>)' <=> Current(<<t, f>>))
  BY DEF Tracked, Current
<1>2. Answered(t) => Answered(t)'
  BY <1>1 DEF Answered
<1> QED BY <1>1, <1>2 DEF Steady, Recalls

\* What every step is shown to do.
MetaStays == \A t \in Torrents : Safe(t) /\ Safe(t)' /\ Meta(t) => Meta(t)'

-----------------------------------------------------------------------------
(* The network thread                                                        *)

\* An alert is put at the end of the queue, or its loss is noted.
LEMMA PostedIs ==
    ASSUME TypeInv, IoSame, NEW a \in AlertMsgs, a.type \in AlertTypes, PostAlert(a)
    PROVE  /\ Waiting \in Seq(AlertMsgs) /\ lost \subseteq lost' /\ Items(Waiting) \subseteq Items(Waiting')
           /\ Items(Waiting') \subseteq Items(Waiting) \cup {a}
           /\ \/ Waiting' = Waiting /\ (a.type # "update" => <<a.type, a.t, a.id>> \in lost')
              \/ Waiting' = Append(Waiting, a) /\ a \in Items(Waiting')
<1>1. QueuesAre /\ batch' = batch
  BY DEF TypeInv, IoSame, ioVars
<1> DEFINE q == Waiting
<1>2. Waiting' = q \/ Waiting' = Append(q, a)
  BY <1>1, WaitingPosted
<1>3. q \in Seq(AlertMsgs)
  BY <1>1, WaitingIs
<1>4. Waiting' = Waiting => UNCHANGED alerts
  BY <1>1, WaitingPosted
<1>5. lost \subseteq lost'
  BY DEF PostAlert
<1>6. alerts' = alerts => a.type = "update" \/ <<a.type, a.t, a.id>> \in lost'
  <2>1. CASE Len(alerts) < AlertLimit
    <3>1. alerts' = Append(alerts, a) /\ alerts \in Seq(AlertMsgs)
      BY <1>1, <2>1 DEF PostAlert, QueuesAre
    <3>2. Append(alerts, a) # alerts
      <4> DEFINE p == alerts
      <4>1. p \in Seq(AlertMsgs)
        BY <3>1
      <4> HIDE DEF p
      <4>2. Len(Append(p, a)) = Len(p) + 1 /\ Len(p) \in Nat
        BY <4>1
      <4> QED BY <4>2 DEF p
    <3> QED BY <3>1, <3>2
  <2>2. CASE ~(Len(alerts) < AlertLimit)
    BY <2>2 DEF PostAlert
  <2> QED BY <2>1, <2>2
<1> HIDE DEF q
<1>7. Items(Append(q, a)) = Items(q) \cup {a}
  BY <1>3, AppendItems
<1> QED BY <1>2, <1>3, <1>4, <1>5, <1>6, <1>7 DEF q

\* The network thread leaves the session alone.
LEMMA LtSteady ==
    ASSUME TypeInv, IoSame, Items(calls') \subseteq Items(calls), lost \subseteq lost',
           Items(Waiting) \subseteq Items(Waiting'), NEW t \in Torrents, Live(t)' => Live(t)
    PROVE  Steady(t) /\ Recalls(t)
<1>1. UNCHANGED <<m_torrents, adds, events, removing>>
  BY DEF IoSame, sessVars
<1> QED BY <1>1, StillSteady

\* A step of the network thread that posts nothing of t, or its removal.
LEMMA LtMetaBeside ==
    ASSUME TypeInv, IoSame, Items(calls') \subseteq Items(calls), lost \subseteq lost',
           NEW t \in Torrents, Live(t)' => Live(t), Meta(t), NEW a \in AlertMsgs,
           a \notin Listings(t), a \notin AddAlerts(t), a \notin Failures(t), \A id : a \notin MetaAlerts(t, id),
           Waiting' = Waiting \/ Waiting' = Append(Waiting, a)
    PROVE  Meta(t)'
<1> DEFINE q == Waiting
           r == Waiting'
<1>1. q \in Seq(AlertMsgs)
  BY WaitingIs DEF TypeInv
<1>2. r = q \/ r = Append(q, a)
  OBVIOUS
<1> HIDE DEF q, r
<1>3. Items(q) \subseteq Items(r)
  <2>1. Items(Append(q, a)) = Items(q) \cup {a}
    BY <1>1, AppendItems
  <2> QED BY <1>2, <2>1
<1>4. Follows(q, r, t)
  <2>1. Follows(q, q, t)
    BY FollowsSame
  <2>2. Follows(q, Append(q, a), t)
    BY <1>1, ListsAppend, MetasAppend DEF Follows
  <2> QED BY <1>2, <2>1, <2>2
<1>5. Steady(t) /\ Recalls(t)
  BY <1>3, LtSteady DEF q, r
<1> QED BY <1>4, <1>5, MetaKept DEF q, r

\* The answer to an add is the first that is heard of the torrent.
LEMMA LtAnswerMeta ==
    ASSUME IInv, IoSame, lost \subseteq lost', NEW t \in Torrents, Safe(t), Meta(t),
           Items(calls) \cap AddCalls(t) # {}, Items(calls') \subseteq Items(calls), NEW a \in AlertMsgs,
           a \notin Listings(t), \A id : a \notin MetaAlerts(t, id),
           Items(Waiting') \subseteq Items(Waiting) \cup {a}, AnsweredOf(t)'
    PROVE  Meta(t)'
<1>1. Items(Waiting) \cap Listings(t) = {} /\ Items(Waiting) \cap MetaAlerts(t, adds[t]) = {}
  BY DEF Meta, ListedOf, MetaAlertsOf
<1>2. \A id : id > adds[t] => Items(Waiting) \cap MetaAlerts(t, id) = {}
  BY DEF Meta, MetaAlertsOf
<1>3. UNCHANGED <<m_torrents, adds, events, removing>>
  BY DEF IoSame, sessVars
<1> DEFINE r == Waiting'
           n == adds[t]
<1>4. Items(r) \cap Listings(t) = {} /\ Items(r) \cap MetaAlerts(t, n) = {} /\ \A id : id > n => Items(r) \cap MetaAlerts(t, id) = {}
  BY <1>1, <1>2
<1>5. Before(r, Listings(t), Removals(t)) /\ Before(r, AddAlerts(t), MetaAlerts(t, n))
  <2> HIDE DEF r, n
  <2> QED BY <1>4, BeforeNone
<1>6. ListedOf(t)'
  BY <1>4, <1>5 DEF ListedOf
<1>7. MetaAlertsOf(t)'
  BY <1>3, <1>4, <1>5 DEF MetaAlertsOf
<1>8. AnnouncedOf(t)'
  <2>1. Recalls(t)
    BY <1>3 DEF Recalls, Tracked
  <2> QED BY <1>3, <2>1, AnnouncedKept DEF Meta
<1> QED BY <1>6, <1>7, <1>8 DEF Meta

\* async_add_torrent succeeds.
LEMMA LtAddMeta ==
    ASSUME IInv, LtAdd
    PROVE  MetaStays
<1>1. TypeInv /\ Takes("add") /\ PostAlert(AddAlertOf(Call))
  BY DEF IInv, LtAdd, AddAlertOf
<1>2. /\ Call \in CallMsgs /\ Call.op = "add" /\ Call \in Items(calls) /\ Call.t \in Torrents
      /\ AddAlertOf(Call) \in AlertMsgs /\ Items(calls') \subseteq Items(calls)
      /\ \A t \in Torrents \ {Call.t} : Same(t)
      /\ lt'[Call.t].id = Call.id
  BY <1>1, LtAddEffect
<1>3. IoSame
  BY <1>1, TakesIs
<1> DEFINE a == AddAlertOf(Call)
           c == Call
<1>4. a.type = "add" /\ a.t = c.t /\ a.id = c.id /\ a \in AlertMsgs /\ a.type \in AlertTypes /\ PostAlert(a)
  BY <1>1, <1>2 DEF AddAlertOf, AlertTypes
<1>5. \A u : a \notin Listings(u) /\ a \notin Failures(u) /\ \A id : a \notin MetaAlerts(u, id)
  BY <1>4 DEF Listings, Failures, MetaAlerts
<1> HIDE DEF a
<1>6. /\ lost \subseteq lost' /\ Items(Waiting') \subseteq Items(Waiting) \cup {a}
      /\ \/ Waiting' = Waiting /\ (a.type # "update" => <<a.type, a.t, a.id>> \in lost')
         \/ Waiting' = Append(Waiting, a) /\ a \in Items(Waiting')
  BY <1>1, <1>3, <1>4, PostedIs
<1> SUFFICES ASSUME NEW t \in Torrents, Safe(t), Meta(t) PROVE Meta(t)'
  BY DEF MetaStays
<1>7. CASE t # c.t
  <2>1. a \notin AddAlerts(t)
    BY <1>4, <1>7 DEF AddAlerts
  <2>2. Live(t)' => Live(t)
    BY <1>2, <1>7 DEF Same, LtSame, Live
  <2> QED BY <1>1, <1>2, <1>3, <1>4, <1>5, <1>6, <2>1, <2>2, LtMetaBeside
<1>8. CASE t = c.t
  <2>1. c \in Items(calls) \cap AddCalls(t)
    BY <1>2, <1>8 DEF AddCalls
  <2>2. c.id = adds[t]
    BY <2>1 DEF IInv, Core, Good, LifeOf, CallsOf
  <2>3. adds' = adds
    BY <1>3 DEF IoSame
  <2>4. a \in AddAlerts(t)
    BY <1>4, <1>8 DEF AddAlerts
  <2>5. AnsweredOf(t)'
    <3>1. CASE Waiting' = Waiting /\ (a.type # "update" => <<a.type, a.t, a.id>> \in lost')
      <4>1. <<"add", t, adds'[t]>> \in lost'
        BY <1>4, <1>8, <2>2, <2>3, <3>1
      <4> QED BY <4>1 DEF AnsweredOf
    <3>2. CASE Waiting' = Append(Waiting, a) /\ a \in Items(Waiting')
      <4>1. Items(Waiting') \cap AddAlerts(t) # {}
        BY <2>4, <3>2
      <4> QED BY <4>1 DEF AnsweredOf
    <3> QED BY <1>6, <3>1, <3>2
  <2> QED BY <1>2, <1>3, <1>4, <1>5, <1>6, <2>1, <2>5, LtAnswerMeta
<1> QED BY <1>7, <1>8

\* async_add_torrent fails.
LEMMA LtAddFailsMeta ==
    ASSUME IInv, LtAddFails
    PROVE  MetaStays
<1>1. TypeInv /\ Takes("add") /\ PostAlert(FailedAlertOf(Call)) /\ UNCHANGED lt
  BY DEF IInv, LtAddFails, FailedAlertOf
<1>2. /\ Call \in CallMsgs /\ Call.op = "add" /\ Call \in Items(calls) /\ Call.t \in Torrents
      /\ FailedAlertOf(Call) \in AlertMsgs /\ Items(calls') \subseteq Items(calls)
  BY <1>1, LtAddFailsEffect
<1>3. IoSame
  BY <1>1, TakesIs
<1> DEFINE a == FailedAlertOf(Call)
           c == Call
<1>4. a.type = "addFailed" /\ a.t = c.t /\ a \in AlertMsgs /\ a.type \in AlertTypes /\ PostAlert(a)
  BY <1>1, <1>2 DEF FailedAlertOf, AlertTypes
<1>5. \A u : a \notin Listings(u) /\ a \notin AddAlerts(u) /\ \A id : a \notin MetaAlerts(u, id)
  BY <1>4 DEF Listings, AddAlerts, MetaAlerts
<1> HIDE DEF a
<1>6. /\ lost \subseteq lost' /\ Items(Waiting') \subseteq Items(Waiting) \cup {a}
      /\ Waiting' = Waiting \/ Waiting' = Append(Waiting, a)
  BY <1>1, <1>3, <1>4, PostedIs
<1> SUFFICES ASSUME NEW t \in Torrents, Safe(t), Meta(t) PROVE Meta(t)'
  BY DEF MetaStays
<1>7. CASE t # c.t
  <2>1. a \notin Failures(t)
    BY <1>4, <1>7 DEF Failures
  <2>2. Live(t)' => Live(t)
    BY <1>1 DEF Live
  <2> QED BY <1>1, <1>2, <1>3, <1>4, <1>5, <1>6, <2>1, <2>2, LtMetaBeside
<1>8. CASE t = c.t
  <2>1. c \in Items(calls) \cap AddCalls(t)
    BY <1>2, <1>8 DEF AddCalls
  <2>2. ~Live(t)
    BY <2>1 DEF IInv, Core, Good, LifeOf, CallsOf
  <2>3. AnsweredOf(t)'
    BY <1>1, <2>2 DEF AnsweredOf, Live
  <2> QED BY <1>2, <1>3, <1>4, <1>5, <1>6, <2>1, <2>3, LtAnswerMeta
<1> QED BY <1>7, <1>8

\* A step of the network thread that posts nothing.
LEMMA LtMetaNone ==
    ASSUME TypeInv, IoSame, Items(calls') \subseteq Items(calls), Waiting' = Waiting, lost' = lost,
           NEW t \in Torrents, Live(t)' => Live(t), Meta(t)
    PROVE  Meta(t)'
<1> DEFINE q == Waiting
           r == Waiting'
<1>1. r = q
  OBVIOUS
<1> HIDE DEF q, r
<1>2. Follows(q, r, t) /\ Items(q) \subseteq Items(r)
  BY <1>1, FollowsSame
<1>3. Steady(t) /\ Recalls(t)
  BY <1>2, LtSteady DEF q, r
<1> QED BY <1>2, <1>3, MetaKept DEF q, r

\* remove_torrent: the removed alert comes behind every status of the torrent.
LEMMA LtRemoveMeta ==
    ASSUME IInv, LtRemove
    PROVE  MetaStays
<1>1. TypeInv /\ Takes("remove")
  BY DEF IInv, LtRemove
<1>2. IoSame /\ Call.t \in Torrents /\ Call \in CallMsgs /\ Items(calls') \subseteq Items(calls) /\ Call.id \in Ids
  BY <1>1, LtRemoveEffect DEF NewCalls
<1> DEFINE a == RemovedAlertOf(Call)
           c == Call
<1> SUFFICES ASSUME NEW t \in Torrents, Meta(t) PROVE Meta(t)'
  BY DEF MetaStays
<1>3. CASE ~Valid(c.t, c.id)
  <2>1. UNCHANGED <<lt, alerts, lost>> /\ batch' = batch
    BY <1>2, <1>3 DEF LtRemove, IoSame, ioVars
  <2>2. Waiting' = Waiting /\ (Live(t)' => Live(t))
    BY <2>1 DEF Waiting, Live
  <2> QED BY <1>1, <1>2, <2>1, <2>2, LtMetaNone
<1>4. CASE Valid(c.t, c.id)
  <2>1. lt' = [lt EXCEPT ![c.t] = None] /\ PostAlert(a)
    BY <1>4 DEF LtRemove, RemovedAlertOf
  <2>2. lt[c.t] # None /\ LtIs(lt)
    BY <1>1, <1>4 DEF Valid, Live, TypeInv
  <2>3. lt[c.t].form \in Forms
    BY <1>2, <2>2, LtFields
  <2>4. a \in AlertMsgs /\ a.type = "removed"
    BY <1>2, <2>3, AlertsMade DEF RemovedAlertOf
  <2>5. Live(t)' => Live(t)
    BY <1>2, <2>1, <2>2 DEF Live, LtIs
  <2> HIDE DEF a, c
  <2>6. lost \subseteq lost' /\ (Waiting' = Waiting \/ Waiting' = Append(Waiting, a))
    BY <1>1, <1>2, <2>1, <2>4, PostedIs DEF AlertTypes
  <2>7. a \notin Listings(t) /\ a \notin AddAlerts(t) /\ a \notin Failures(t) /\ \A id : a \notin MetaAlerts(t, id)
    BY <2>4 DEF Listings, AddAlerts, Failures, MetaAlerts
  <2> QED BY <1>1, <1>2, <2>4, <2>5, <2>6, <2>7, LtMetaBeside
<1> QED BY <1>3, <1>4

\* Saves and changes say nothing of the metadata.
LEMMA LtOtherMeta ==
    ASSUME IInv, LtSave \/ LtConfigure \/ LtMoveQueue
    PROVE  MetaStays
<1>1. TypeInv
  BY DEF IInv
<1>2. /\ IoSame /\ NewCalls({}) /\ \A t \in Torrents : Same(t)
      /\ UNCHANGED <<alerts, batch, lost>> \/ \E a \in AlertMsgs : a.type \in {"saved", "notSaved"} /\ PostAlert(a)
  <2>1. CASE LtSave
    BY <1>1, <2>1, LtSaveEffect
  <2>2. CASE LtConfigure \/ LtMoveQueue
    <3>1. IoSame /\ NewCalls({}) /\ \A t \in Torrents : Same(t)
      BY <1>1, <2>2, LtConfigureEffect
    <3>2. UNCHANGED <<alerts, batch, lost>>
      BY <2>2, <3>1 DEF LtConfigure, LtMoveQueue, IoSame, ioVars
    <3> QED BY <3>1, <3>2
  <2> QED BY <2>1, <2>2
<1>3. Items(calls') \subseteq Items(calls)
  BY <1>2 DEF NewCalls
<1> SUFFICES ASSUME NEW t \in Torrents, Meta(t) PROVE Meta(t)'
  BY DEF MetaStays
<1>4. Live(t)' => Live(t)
  BY <1>2 DEF Same, LtSame, Live
<1>5. CASE UNCHANGED <<alerts, batch, lost>>
  <2>1. Waiting' = Waiting
    BY <1>5 DEF Waiting
  <2> QED BY <1>1, <1>2, <1>3, <1>4, <1>5, <2>1, LtMetaNone
<1>6. ASSUME NEW a \in AlertMsgs, a.type \in {"saved", "notSaved"}, PostAlert(a) PROVE Meta(t)'
  <2>1. lost \subseteq lost' /\ (Waiting' = Waiting \/ Waiting' = Append(Waiting, a))
    BY <1>1, <1>2, <1>6, PostedIs DEF AlertTypes
  <2>2. a \notin Listings(t) /\ a \notin AddAlerts(t) /\ a \notin Failures(t) /\ \A id : a \notin MetaAlerts(t, id)
    BY <1>6 DEF Listings, AddAlerts, Failures, MetaAlerts
  <2> QED BY <1>1, <1>2, <1>3, <1>4, <2>1, <2>2, LtMetaBeside
<1> QED BY <1>2, <1>5, <1>6

\* post_torrent_updates: the statuses are of torrents that are there, and neither their
\* add nor their removal is still to come or waits.
LEMMA LtPostUpdatesMeta ==
    ASSUME IInv, LtPostUpdates
    PROVE  MetaStays
<1>1. TypeInv
  BY DEF IInv
<1>2. IoSame /\ NewCalls({}) /\ UNCHANGED lt
  BY <1>1, LtPostUpdatesEffect
<1>3. PICK a \in AlertMsgs : /\ a.type = "update" /\ PostAlert(a)
                             /\ \A s \in a.status : s.t \in Torrents /\ lt[s.t] # None /\ s.id = lt[s.t].id
  BY <1>1, LtPostUpdatesEffect
<1>4. Items(calls') \subseteq Items(calls)
  BY <1>2 DEF NewCalls
<1>5. /\ Waiting \in Seq(AlertMsgs) /\ lost \subseteq lost' /\ Items(Waiting) \subseteq Items(Waiting')
      /\ Items(Waiting') \subseteq Items(Waiting) \cup {a}
      /\ Waiting' = Waiting \/ Waiting' = Append(Waiting, a)
  BY <1>1, <1>2, <1>3, PostedIs DEF AlertTypes
<1> SUFFICES ASSUME NEW t \in Torrents, Safe(t), Meta(t) PROVE Meta(t)'
  BY DEF MetaStays
<1>6. Live(t)' => Live(t)
  BY <1>2 DEF Live
<1>7. a \notin AddAlerts(t) /\ a \notin Failures(t) /\ a \notin Removals(t) /\ \A id : a \notin MetaAlerts(t, id)
  BY <1>3 DEF AddAlerts, Failures, Removals, MetaAlerts
<1>8. CASE a \notin Listings(t)
  BY <1>1, <1>2, <1>4, <1>5, <1>6, <1>7, <1>8, LtMetaBeside
<1>9. CASE a \in Listings(t)
  <2>1. Live(t) /\ \A s \in a.status : s.t = t => s.id = lt[t].id
    BY <1>3, <1>9 DEF Listings, Live
  <2>2. EntryOf(t) /\ CallsOf(t) /\ AlertsOf(t)
    BY DEF IInv, Core, Good, LifeOf
  <2>3. lt[t].id = adds[t] /\ \E f \in Forms : Tracked(<<t, f>>)
    BY <2>1, <2>2 DEF EntryOf
  <2>4. Items(calls) \cap AddCalls(t) = {}
    BY <2>1, <2>2 DEF CallsOf
  <2>5. Items(Waiting) \cap Failures(t) = {} /\ Items(Waiting) \cap Removals(t) = {}
    BY <2>1, <2>2 DEF AlertsOf, LifeAlerts, Failures, Removals
  <2>6. Steady(t) /\ Recalls(t)
    BY <1>1, <1>2, <1>4, <1>5, <1>6, LtSteady
  <2>7. UNCHANGED <<m_torrents, adds, events, removing>>
    BY <1>2 DEF IoSame, sessVars
  <2> DEFINE q == Waiting
             r == Waiting'
             n == adds[t]
  <2>8. Items(r) \cap Failures(t) = {} /\ Items(r) \cap Removals(t) = {}
    BY <1>5, <1>7, <2>5
  <2>9. Before(r, Listings(t), Removals(t))
    <3> HIDE DEF r
    <3> QED BY <2>8, BeforeNone
  <2>10. \A b \in Items(r) \cap Listings(t) : \A s \in b.status : s.t = t => s.id = n
    BY <1>5, <2>1, <2>3 DEF Meta, ListedOf
  <2>11. ListedOf(t)'
    <3>1. Items(calls') \cap AddCalls(t) = {}
      BY <1>4, <2>4
    <3>2. \E f \in Forms : Tracked(<<t, f>>)'
      BY <2>3, <2>7 DEF Tracked
    <3> QED BY <2>7, <2>8, <2>9, <2>10, <3>1, <3>2 DEF ListedOf
  <2>12. MetasFollow(q, r, t)
    <3>1. q \in Seq(AlertMsgs) /\ (r = q \/ r = Append(q, a))
      BY <1>5
    <3> HIDE DEF q, r
    <3>2. MetasFollow(q, q, t)
      BY FollowsSame DEF Follows
    <3>3. MetasFollow(q, Append(q, a), t)
      BY <1>7, <3>1, MetasAppend
    <3> QED BY <3>1, <3>2, <3>3
  <2>13. MetaAlertsOf(t)'
    BY <2>6, <2>12, MetaAlertsKept DEF Meta
  <2>14. AnnouncedOf(t)'
    BY <1>5, <2>6, <2>7, AnnouncedKept DEF Meta
  <2>15. AnsweredOf(t)'
    <3>1. Answered(t) => Answered(t)'
      BY <1>6, <2>1, <2>6, <1>2 DEF Steady, Live
    <3> QED BY <1>5, <1>6, <2>7, <3>1 DEF Meta, AnsweredOf, Answered
  <2> QED BY <2>11, <2>13, <2>14, <2>15 DEF Meta
<1> QED BY <1>8, <1>9

\* Metadata arrives for a torrent that is there: its alert comes behind its add alert.
LEMMA LtMetadataMeta ==
    ASSUME IInv, NEW u \in Torrents, LtMetadata(u)
    PROVE  MetaStays
<1> DEFINE a == [type |-> "metadata", t |-> u, id |-> lt[u].id]
<1>1. TypeInv /\ PostAlert(a) /\ calls' = calls
  BY DEF IInv, LtMetadata
<1>2. IoSame /\ lt[u] # None /\ a \in AlertMsgs /\ \A t \in Torrents : Same(t)
  BY <1>1, LtMetadataEffect
<1>3. a.type = "metadata" /\ a.t = u /\ a.id = lt[u].id /\ a.type \in AlertTypes
  BY DEF AlertTypes
<1> HIDE DEF a
<1>4. /\ Waiting \in Seq(AlertMsgs) /\ lost \subseteq lost' /\ Items(Waiting) \subseteq Items(Waiting')
      /\ Items(Waiting') \subseteq Items(Waiting) \cup {a}
      /\ Waiting' = Waiting \/ Waiting' = Append(Waiting, a)
  BY <1>1, <1>2, <1>3, PostedIs
<1> SUFFICES ASSUME NEW t \in Torrents, Safe(t), Meta(t) PROVE Meta(t)'
  BY DEF MetaStays
<1>5. Live(t)' <=> Live(t)
  BY <1>2 DEF Same, LtSame, Live
<1>6. a \notin AddAlerts(t) /\ a \notin Failures(t) /\ a \notin Listings(t) /\ \A id : a \in MetaAlerts(t, id) => t = u /\ id = lt[u].id
  BY <1>3 DEF AddAlerts, Failures, Listings, MetaAlerts
<1>7. CASE t # u
  BY <1>1, <1>2, <1>4, <1>5, <1>6, <1>7, LtMetaBeside
<1>8. CASE t = u
  <2>1. EntryOf(t) /\ CallsOf(t) /\ Live(t)
    BY <1>2, <1>8 DEF IInv, Core, Good, LifeOf, Live
  <2>2. lt[u].id = adds[t] /\ Items(calls) \cap AddCalls(t) = {}
    BY <1>8, <2>1 DEF EntryOf, CallsOf
  <2>3. Steady(t) /\ Recalls(t)
    BY <1>1, <1>2, <1>4, <1>5, LtSteady
  <2>4. UNCHANGED <<m_torrents, adds, events, removing>>
    BY <1>2 DEF IoSame, sessVars
  <2> DEFINE q == Waiting
             r == Waiting'
             n == adds[t]
  <2>5. q \in Seq(AlertMsgs) /\ (r = q \/ r = Append(q, a))
    BY <1>4
  <2>6. n \in Nat
    BY <1>1, IdsAre DEF TypeInv, CountIs
  <2>7. ListsFollow(q, r, t)
    <3> HIDE DEF q, r
    <3>1. ListsFollow(q, q, t)
      BY FollowsSame DEF Follows
    <3>2. ListsFollow(q, Append(q, a), t)
      BY <1>2, <1>6, <2>5, ListsAppend
    <3> QED BY <2>5, <3>1, <3>2
  <2>8. ListedOf(t)'
    BY <2>3, <2>7, ListedKept DEF Meta
  <2>9. /\ \A id : id > n => Items(q) \cap MetaAlerts(t, id) = {}
        /\ Before(q, AddAlerts(t), MetaAlerts(t, n))
    BY DEF Meta, MetaAlertsOf
  <2>10. Before(r, AddAlerts(t), MetaAlerts(t, n))
    <3> HIDE DEF q, r, n
    <3>1. Before(Append(q, a), AddAlerts(t), MetaAlerts(t, n))
      BY <1>2, <1>6, <2>5, <2>9, BeforeAppend
    <3> QED BY <2>5, <2>9, <3>1
  <2>11. \A id : id > n => Items(r) \cap MetaAlerts(t, id) = {}
    <3>1. ~(n > n)
      BY <2>6
    <3>2. \A id : id > n => a \notin MetaAlerts(t, id)
      BY <1>6, <2>2, <3>1
    <3> QED BY <1>4, <2>9, <3>2
  <2>12. MetaAlertsOf(t)'
    BY <1>1, <2>2, <2>4, <2>10, <2>11 DEF MetaAlertsOf
  <2>13. AnnouncedOf(t)'
    BY <1>4, <2>3, <2>4, AnnouncedKept DEF Meta
  <2>14. AnsweredOf(t)'
    <3>1. Answered(t) => Answered(t)'
      BY <1>5, <2>1, <2>3 DEF Steady
    <3> QED BY <1>4, <1>5, <2>4, <3>1 DEF Meta, AnsweredOf, Answered
  <2> QED BY <2>8, <2>12, <2>13, <2>14 DEF Meta
<1> QED BY <1>7, <1>8

-----------------------------------------------------------------------------
(* Steps of the io thread that leave the entries alone                       *)

\* What such a step does not change.
SessionStill == UNCHANGED <<lt, m_torrents, adds, events, lost>> /\ removing \subseteq removing'

\* It posts no add, and only moves the waiting alerts.
LEMMA StillMeta ==
    ASSUME TypeInv, SessionStill, \A t \in Torrents : Items(calls') \cap AddCalls(t) \subseteq Items(calls),
           Waiting' = Waiting \/ \E a \in AlertMsgs : a.type = "dropped" /\ Waiting' = Append(Waiting, a)
    PROVE  MetaStays
<1> SUFFICES ASSUME NEW t \in Torrents, Meta(t) PROVE Meta(t)'
  BY DEF MetaStays
<1> DEFINE q == Waiting
           r == Waiting'
<1>1. q \in Seq(AlertMsgs)
  BY WaitingIs DEF TypeInv
<1>2. r = q \/ \E a \in AlertMsgs : a.type = "dropped" /\ r = Append(q, a)
  OBVIOUS
<1> HIDE DEF q, r
<1>3. Follows(q, r, t) /\ Items(q) \subseteq Items(r)
  <2>1. CASE r = q
    BY <2>1, FollowsSame
  <2>2. ASSUME NEW a \in AlertMsgs, a.type = "dropped", r = Append(q, a) PROVE Follows(q, r, t) /\ Items(q) \subseteq Items(r)
    <3>1. a \notin Listings(t) /\ a \notin AddAlerts(t) /\ a \notin Failures(t) /\ \A id : a \notin MetaAlerts(t, id)
      BY <2>2 DEF Listings, AddAlerts, Failures, MetaAlerts
    <3>2. Follows(q, Append(q, a), t)
      BY <1>1, <3>1, ListsAppend, MetasAppend DEF Follows
    <3>3. Items(Append(q, a)) = Items(q) \cup {a}
      BY <1>1, AppendItems
    <3> QED BY <2>2, <3>2, <3>3
  <2> QED BY <1>2, <2>1, <2>2
<1>4. Steady(t) /\ Recalls(t)
  <2>1. Live(t)' => Live(t)
    BY DEF SessionStill, Live
  <2>2. UNCHANGED <<m_torrents, adds, events, lost>> /\ removing \subseteq removing'
    BY DEF SessionStill
  <2> QED BY <1>3, <2>1, <2>2, StillSteady DEF q, r
<1> QED BY <1>3, <1>4, MetaKept DEF q, r

\* Reading the alerts moves them into the batch.
LEMMA PopMeta ==
    ASSUME TypeInv, SessionStill, batch = <<>>, PopAlerts, calls' = calls
    PROVE  MetaStays
<1>1. Waiting' = Waiting \/ \E a \in AlertMsgs : a.type = "dropped" /\ Waiting' = Append(Waiting, a)
  BY WaitingPopped DEF TypeInv
<1> QED BY <1>1, StillMeta

\* Calls other than adds.
LEMMA CallsMeta ==
    ASSUME TypeInv, SessionStill, UNCHANGED <<alerts, batch>>, NEW N \in SUBSET PlainCalls, Items(calls') \subseteq Items(calls) \cup N
    PROVE  MetaStays
<1>1. Waiting' = Waiting
  BY DEF Waiting
<1>2. \A t \in Torrents : Items(calls') \cap AddCalls(t) \subseteq Items(calls)
  BY DEF AddCalls, PlainCalls
<1> QED BY <1>1, <1>2, StillMeta

\* Saves are no adds.
LEMMA SavesArePlain == SaveCalls \in SUBSET PlainCalls /\ {} \in SUBSET PlainCalls
  BY DEF SaveCalls, PlainCalls

\* The alerts are read, at the notification, by the load, by a reconcile and by Stop.
LEMMA ReadsMeta ==
    ASSUME IInv, ReadAlerts \/ LoadRun \/ ReconcileJob \/ LoadFinish \/ Stop \/ StopRead
    PROVE  MetaStays
<1>1. TypeInv
  BY DEF IInv
<1>2. batch = <<>> /\ PopAlerts /\ calls' = calls /\ SessionStill
  <2>1. CASE ReadAlerts \/ LoadRun
    <3>1. pc = "idle" /\ PopAlerts /\ calls' = calls /\ SessionStill
      BY <2>1 DEF ReadAlerts, LoadRun, BeginAlerts, SessionStill, sessVars, histVars
    <3> QED BY <1>1, <3>1 DEF TypeInv
  <2>2. CASE ReconcileJob \/ LoadFinish \/ Stop
    <3>1. pc \in {"idle", "load"} /\ PopAlerts /\ calls' = calls /\ SessionStill
      BY <2>2 DEF ReconcileJob, LoadFinish, Stop, BeginReconcile, BeginAlerts, SessionStill, sessVars, histVars
    <3> QED BY <1>1, <3>1 DEF TypeInv
  <2>3. CASE StopRead
    BY <2>3 DEF StopRead, SessionStill, sessVars, histVars
  <2> QED BY <2>1, <2>2, <2>3
<1> QED BY <1>1, <1>2, PopMeta

\* Steps that read and post no alert.
LEMMA QuietMeta ==
    ASSUME IInv, \/ CommitAlerts \/ StopStatus \/ StopChunkDone \/ UNCHANGED vars
                 \/ SaveDirty \/ SaveStateSave \/ StopChunk
    PROVE  MetaStays
<1>1. TypeInv
  BY DEF IInv
<1>2. CASE CommitAlerts \/ StopStatus \/ StopChunkDone \/ UNCHANGED vars
  <2>1. SessionStill /\ UNCHANGED <<calls, alerts, batch>>
    BY <1>2 DEF CommitAlerts, StopStatus, StopChunkDone, SessionStill, vars, ltVars, ioVars, sessVars, histVars
  <2>2. Items(calls') \subseteq Items(calls) \cup {}
    BY <2>1
  <2> QED BY <1>1, <2>1, <2>2, SavesArePlain, CallsMeta
<1>3. CASE SaveDirty \/ SaveStateSave \/ StopChunk
  <2>1. SessionStill /\ UNCHANGED <<alerts, batch>>
    BY <1>3 DEF SaveDirty, SaveStateSave, StopChunk, SessionStill, ioVars, sessVars, histVars
  <2>2. NewCalls(SaveCalls)
    BY <1>3, SaveDirtyKeeps, SaveStateSaveKeeps, StopChunkKeeps
  <2>3. Items(calls') \subseteq Items(calls) \cup SaveCalls
    BY <2>2 DEF NewCalls
  <2> QED BY <1>1, <2>1, <2>3, SavesArePlain, CallsMeta
<1> QED BY <1>2, <1>3

\* A request for the state of the torrents, a removal or a change.
LEMMA PostsMeta ==
    ASSUME IInv, SessionStill, UNCHANGED <<alerts, batch>>, NEW c \in CallMsgs, c.op # "add", calls' = Append(calls, c)
    PROVE  MetaStays
<1>1. TypeInv /\ QueuesAre
  BY DEF IInv, TypeInv
<1>2. Items(calls') \subseteq Items(calls) \cup {c}
  BY <1>1, CallPosted
<1>3. {c} \in SUBSET PlainCalls
  BY DEF PlainCalls
<1> QED BY <1>1, <1>2, <1>3, CallsMeta

\* The periodic request for updates, and the one at the end of a load without rows.
LEMMA PostUpdatesMeta ==
    ASSUME IInv, PostTorrentUpdates \/ LoadFinishEmpty
    PROVE  MetaStays
<1>1. SessionStill /\ UNCHANGED <<alerts, batch>> /\ calls' = Append(calls, [op |-> "updates"])
  BY DEF PostTorrentUpdates, LoadFinishEmpty, PostUpdates, SessionStill, ioVars, sessVars, histVars
<1> QED BY <1>1, UpdatesCall, PostsMeta

\* A removal is asked for.
LEMMA UserRemoveMeta ==
    ASSUME IInv, NEW k \in Keys, UserRemove(k)
    PROVE  MetaStays
<1> DEFINE c == [op |-> "remove", t |-> k[1], id |-> m_torrents[k].id]
<1>1. SessionStill /\ UNCHANGED <<alerts, batch>> /\ calls' = Append(calls, c) /\ m_torrents[k] # None
  BY DEF UserRemove, SessionStill, ioVars, sessVars, Current, Tracked
<1>2. k[1] \in Torrents /\ m_torrents[k].id \in Ids
  BY <1>1, EntryFields, KeyParts DEF IInv, TypeInv
<1>3. c \in CallMsgs /\ c.op # "add"
  BY <1>2, CallsMade
<1> QED BY <1>1, <1>3, PostsMeta

\* A request changes a torrent.
LEMMA UserChangeMeta ==
    ASSUME IInv, NEW k \in Keys, NEW op \in {"configure", "queue"}, UserChange(k, op)
    PROVE  MetaStays
<1> DEFINE c == [op |-> op, t |-> k[1], id |-> m_torrents[k].id, cfg |-> changes', pos |-> changes']
<1>1. /\ SessionStill /\ UNCHANGED <<alerts, batch>> /\ calls' = Append(calls, c) /\ m_torrents[k] # None
      /\ changes' = changes + 1 /\ changes < MaxChanges
  BY DEF UserChange, SessionStill, ioVars, Current, Tracked
<1>2. k[1] \in Torrents /\ m_torrents[k].id \in Ids
  BY <1>1, EntryFields, KeyParts DEF IInv, TypeInv
<1>3. changes' \in 0..MaxChanges
  BY <1>1, IdsAre DEF IInv, TypeInv
<1>4. c \in CallMsgs /\ c.op # "add"
  BY <1>2, <1>3, CallsMade
<1> HIDE DEF c
<1>5. TypeInv /\ QueuesAre
  BY DEF IInv, TypeInv
<1>6. Items(calls') \subseteq Items(calls) \cup {c}
  BY <1>1, <1>4, <1>5, CallPosted
<1>7. {c} \in SUBSET PlainCalls
  BY <1>4 DEF PlainCalls
<1> QED BY <1>1, <1>5, <1>6, <1>7, CallsMeta

-----------------------------------------------------------------------------
(* The alert handlers                                                        *)

\* What a handler or a reconcile does not change.
SessionKept == UNCHANGED <<lt, adds, lost, removing>> /\ NewCalls(SaveCalls)

\* An entry that was announced stays announced.
Recorded(t) == \A f \in Forms : Tracked(<<t, f>>) /\ m_torrents[<<t, f>>].announced => m_torrents'[<<t, f>>].announced

MetaEventsSame(t) == \A id \in Ids : events'[<<"metadata", t, id>>] = events[<<"metadata", t, id>>]

\* A step that posts nothing but saves keeps what is said of t, if it keeps its entry.
LEMMA KeptMeta ==
    ASSUME NEW t \in Torrents, Meta(t), SessionKept, Recalls(t), Follows(Waiting, Waiting', t),
           (\A f \in Forms : ~Tracked(<<t, f>>)') =>
              (\A f \in Forms : ~Tracked(<<t, f>>)) \/ Items(Waiting) \cap Listings(t) = {} \/ ~Settled(t)',
           Live(t) /\ Answered(t) => Answered(t)'
    PROVE  Meta(t)'
<1>1. adds'[t] = adds[t] /\ removing \subseteq removing' /\ lost \subseteq lost' /\ (Live(t)' <=> Live(t))
  BY DEF SessionKept, Live
<1>2. Items(calls') \cap AddCalls(t) \subseteq Items(calls)
  BY DEF SessionKept, NewCalls, SaveCalls, AddCalls
<1>3. Steady(t)
  BY <1>1, <1>2 DEF Steady
<1> QED BY <1>3, MetaKept

\* One that leaves the entry of t what it is.
LEMMA TakenMeta ==
    ASSUME NEW t \in Torrents, Meta(t), SessionKept, MapSame(t), Recorded(t), MetaEventsSame(t),
           Follows(Waiting, Waiting', t), Items(Waiting) \cap AddAlerts(t) \subseteq Items(Waiting')
    PROVE  Meta(t)'
<1>1. \A f \in Forms : (Tracked(<<t, f>>)' <=> Tracked(<<t, f>>)) /\ (Current(<<t, f>>)' <=> Current(<<t, f>>))
  BY EntrySame
<1>2. Recalls(t)
  BY <1>1 DEF Recalls, Recorded, MetaEventsSame
<1>3. Answered(t) => Answered(t)'
  BY <1>1 DEF Answered
<1>4. (\A f \in Forms : ~Tracked(<<t, f>>)') => \A f \in Forms : ~Tracked(<<t, f>>)
  BY <1>1
<1> QED BY <1>2, <1>3, <1>4, KeptMeta

\* The first alert is taken.
LEMMA HeadTaken ==
    ASSUME QueuesAre, batch # <<>>, batch' = Tail(batch), alerts' = alerts
    PROVE  /\ Waiting \in Seq(AlertMsgs) /\ Waiting # <<>> /\ Waiting' = Tail(Waiting) /\ Head(Waiting) = Alert
           /\ Alert \in AlertMsgs /\ Alert \in Items(Waiting)
           /\ \A t : Follows(Waiting, Waiting', t)
           /\ Items(Waiting) = {Alert} \cup Items(Waiting')
<1>1. Waiting # <<>> /\ Waiting' = Tail(Waiting) /\ Head(Waiting) = Alert /\ Alert \in AlertMsgs
  BY WaitingTaken
<1>2. Waiting \in Seq(AlertMsgs)
  BY WaitingIs
<1> DEFINE q == Waiting
           r == Waiting'
           h == Alert
<1>3. q \in Seq(AlertMsgs) /\ q # <<>> /\ r = Tail(q) /\ Head(q) = h
  BY <1>1, <1>2
<1> HIDE DEF q, r, h
<1>4. Items(q) = {h} \cup Items(r)
  BY <1>3, TailItems
<1>5. \A t : Follows(q, r, t)
  BY <1>3, FollowsTail
<1> QED BY <1>1, <1>2, <1>4, <1>5 DEF q, r, h

\* What a handler takes and leaves alone.
LEMMA HandlerTakes ==
    ASSUME TypeInv, NEW type, Handles(type)
    PROVE  /\ QueuesAre /\ batch # <<>> /\ batch' = Tail(batch) /\ alerts' = alerts /\ Alert.type = type
           /\ UNCHANGED <<lt, adds, lost, removing>>
  BY DEF TypeInv, Handles

\* A taken alert that tells nothing of t and changes nothing of it.
LEMMA TakesMeta ==
    ASSUME QueuesAre, batch # <<>>, batch' = Tail(batch), alerts' = alerts, SessionKept,
           NEW t \in Torrents, Meta(t), MapSame(t), Recorded(t), MetaEventsSame(t), Alert \notin AddAlerts(t)
    PROVE  Meta(t)'
<1>1. Follows(Waiting, Waiting', t) /\ Items(Waiting) = {Alert} \cup Items(Waiting')
  BY HeadTaken
<1>2. Items(Waiting) \cap AddAlerts(t) \subseteq Items(Waiting')
  BY <1>1
<1> QED BY <1>1, <1>2, TakenMeta

\* The entries and events are left alone.
LEMMA NothingRecorded ==
    ASSUME UNCHANGED <<m_torrents, events>>, NEW t \in Torrents
    PROVE  MapSame(t) /\ Recorded(t) /\ MetaEventsSame(t)
<1>1. MapSame(t)
  BY MapBeside
<1> QED BY <1>1 DEF Recorded, MetaEventsSame

\* OnNotSaved and OnDropped.
LEMMA OnNotSavedMeta ==
    ASSUME IInv, OnNotSaved \/ OnDropped
    PROVE  MetaStays
<1>1. TypeInv /\ (Handles("notSaved") \/ Handles("dropped")) /\ UNCHANGED <<calls, m_torrents, events>>
  BY DEF IInv, OnNotSaved, OnDropped
<1>2. /\ QueuesAre /\ batch # <<>> /\ batch' = Tail(batch) /\ alerts' = alerts /\ Alert.type \in {"notSaved", "dropped"}
      /\ UNCHANGED <<lt, adds, lost, removing>>
  BY <1>1, HandlerTakes
<1>3. SessionKept
  BY <1>1, <1>2, SavesKept DEF SessionKept
<1> SUFFICES ASSUME NEW t \in Torrents, Meta(t) PROVE Meta(t)'
  BY DEF MetaStays
<1>4. MapSame(t) /\ Recorded(t) /\ MetaEventsSame(t)
  BY <1>1, NothingRecorded
<1>5. Alert \notin AddAlerts(t)
  BY <1>2 DEF AddAlerts
<1> QED BY <1>2, <1>3, <1>4, <1>5, TakesMeta

\* Stored resume data is noted and nothing forgotten.
LEMMA StoreRecords ==
    ASSUME TypeInv, Alert \in AlertMsgs, Alert.type = "saved", StoreResumeData, NEW u \in Torrents
    PROVE  Recorded(u)
<1>1. MapIs(m_torrents) /\ LtIs(lt) /\ Alert.t \in Torrents
  BY AlertFields DEF TypeInv
<1>2. CASE m_torrents' = m_torrents
  BY <1>2 DEF Recorded
<1>3. CASE m_torrents' # m_torrents
  <2>1. PICK k \in Keys : m_torrents[k] # None /\ m_torrents' = MarkSaved(m_torrents, k, TRUE)
    <3>1. Valid(Alert.t, Alert.id)
      BY <1>3 DEF StoreResumeData
    <3>2. lt[Alert.t].form \in Forms
      BY <1>1, <3>1, LtFields DEF Valid, Live
    <3>3. <<Alert.t, lt[Alert.t].form>> \in Keys
      BY <1>1, <3>2, KeyParts
    <3> QED BY <1>3, <3>1, <3>3 DEF StoreResumeData, MarkSaved, Tracked
  <2>2. /\ \A q \in Keys \ {k} : m_torrents'[q] = m_torrents[q]
        /\ m_torrents'[k].announced = m_torrents[k].announced
    BY <1>1, <2>1, MarkSavedIs
  <2>3. \A f \in Forms : <<u, f>> \in Keys
    BY KeyParts
  <2> QED BY <2>2, <2>3 DEF Recorded
<1> QED BY <1>2, <1>3

\* OnSaved, in the session and while it stops.
LEMMA OnSavedMeta ==
    ASSUME IInv, OnSaved \/ StopAlert
    PROVE  MetaStays
<1>1. TypeInv /\ QueuesAre
  BY DEF IInv, TypeInv
<1>2. /\ batch # <<>> /\ batch' = Tail(batch) /\ alerts' = alerts /\ Alert \in AlertMsgs
      /\ UNCHANGED <<lt, adds, lost, removing, calls, events>>
      /\ Alert.type \in {"saved", "notSaved", "metadata", "dropped"}
      /\ Alert.type = "saved" => StoreResumeData
      /\ Alert.type # "saved" => UNCHANGED m_torrents
  <2>1. CASE OnSaved
    <3>1. Handles("saved") /\ StoreResumeData /\ UNCHANGED <<calls, events>>
      BY <2>1 DEF OnSaved
    <3>2. batch # <<>> /\ batch' = Tail(batch) /\ alerts' = alerts /\ Alert.type = "saved" /\ UNCHANGED <<lt, adds, lost, removing>>
      BY <1>1, <3>1, HandlerTakes
    <3>3. Alert \in AlertMsgs
      BY <1>1, <3>2, WaitingTaken
    <3> QED BY <3>1, <3>2, <3>3
  <2>2. CASE StopAlert
    <3>1. pc = "stopWait" /\ batch # <<>> /\ batch' = Tail(batch) /\ UNCHANGED <<lt, calls, alerts, dropped, adds, lost, removing>>
      BY <2>2 DEF StopAlert, ltVars
    <3>2. Alert \in Items(batch)
      BY <1>1, <3>1, AlertTaken
    <3>3. Alert \in QuietAlerts \cup DropAlerts
      BY <3>1, <3>2 DEF IInv, QuietOK
    <3>4. Alert \in AlertMsgs /\ Alert.type \in {"saved", "notSaved", "metadata", "dropped"}
      BY <3>3 DEF QuietAlerts, DropAlerts
    <3>5. Alert.type = "saved" => StoreResumeData /\ UNCHANGED events
      BY <2>2 DEF StopAlert
    <3>6. Alert.type # "saved" => UNCHANGED <<m_torrents, events>>
      BY <2>2, <3>4 DEF StopAlert
    <3> QED BY <3>1, <3>4, <3>5, <3>6
  <2> QED BY <2>1, <2>2
<1>3. SessionKept
  BY <1>1, <1>2, SavesKept DEF SessionKept
<1> SUFFICES ASSUME NEW t \in Torrents, Meta(t) PROVE Meta(t)'
  BY DEF MetaStays
<1>4. MapSame(t) /\ Recorded(t) /\ MetaEventsSame(t)
  <2>1. CASE Alert.type = "saved"
    <3>1. MapSame(t) /\ Recorded(t)
      BY <1>1, <1>2, <2>1, StoreIs, StoreRecords
    <3> QED BY <1>2, <3>1 DEF MetaEventsSame
  <2>2. CASE Alert.type # "saved"
    BY <1>2, <2>2, NothingRecorded
  <2> QED BY <2>1, <2>2
<1>5. Alert \notin AddAlerts(t)
  BY <1>2 DEF AddAlerts
<1> QED BY <1>1, <1>2, <1>3, <1>4, <1>5, TakesMeta

\* An event of another kind.
LEMMA OtherEvents ==
    ASSUME EventsAre(events), NEW name \in EventNames \ {"metadata"}, NEW t \in Torrents, NEW id \in Ids, Publish(name, t, id),
           NEW u \in Torrents
    PROVE  MetaEventsSame(u)
<1> SUFFICES ASSUME NEW i \in Ids PROVE events'[<<"metadata", u, i>>] = events[<<"metadata", u, i>>]
  BY DEF MetaEventsSame
<1>1. <<"metadata", u, i>> \in EventNames \X Torrents \X Ids /\ <<"metadata", u, i>> # <<name, t, id>>
  BY DEF EventNames
<1> QED BY <1>1, PublishIs

\* A change of one torrent's entries leaves those of others alone.
LEMMA BesideRecorded ==
    ASSUME NEW t \in Torrents, \A q \in Keys : q[1] # t => m_torrents'[q] = m_torrents[q], NEW u \in Torrents \ {t}
    PROVE  MapSame(u) /\ Recorded(u)
<1>1. MapSame(u)
  BY MapOf
<1>2. ASSUME NEW f \in Forms PROVE m_torrents'[<<u, f>>] = m_torrents[<<u, f>>]
  <2>1. <<u, f>> \in Keys /\ <<u, f>>[1] = u
    BY KeyParts
  <2> QED BY <2>1
<1> QED BY <1>1, <1>2 DEF Recorded

\* The entry of a torrent that is gone goes after its last status.
LEMMA GoneMeta ==
    ASSUME NEW t \in Torrents, Meta(t), SessionKept, MetaEventsSame(t), Follows(Waiting, Waiting', t),
           \A f \in Forms : m_torrents'[<<t, f>>] = None \/ m_torrents'[<<t, f>>] = m_torrents[<<t, f>>],
           ~Live(t), Items(Waiting) \cap Listings(t) = {} \/ ~Settled(t)'
    PROVE  Meta(t)'
<1>1. Recalls(t)
  BY DEF Recalls, MetaEventsSame, Tracked
<1> QED BY <1>1, KeptMeta

\* The entry becomes current and remembers what was announced.
LEMMA SettledMeta ==
    ASSUME NEW t \in Torrents, Meta(t), SessionKept, MetaEventsSame(t), Follows(Waiting, Waiting', t),
           NEW g \in Forms, Tracked(<<t, g>>), NEW f \in Forms, Settles(t, f, m_torrents[<<t, g>>]),
           m_torrents[<<t, g>>].announced => m_torrents'[<<t, f>>].announced
    PROVE  Meta(t)'
<1>1. Tracked(<<t, f>>)' /\ Current(<<t, f>>)' /\ \A x \in Forms : Tracked(<<t, x>>)' => x = f
  BY DEF Settles, Tracked, Current
<1>2. Recalls(t)
  BY <1>1 DEF Recalls, MetaEventsSame
<1>3. Answered(t)'
  BY <1>1 DEF Answered
<1> QED BY <1>1, <1>2, <1>3, KeptMeta

\* OnAddTorrentAlert with an error: no status of the torrent was ever posted.
LEMMA OnAddFailedMeta ==
    ASSUME IInv, OnAddFailed
    PROVE  MetaStays
<1>1. TypeInv /\ Core /\ Handles("addFailed") /\ calls' = calls
  BY DEF IInv, OnAddFailed
<1>2. /\ QueuesAre /\ batch # <<>> /\ batch' = Tail(batch) /\ alerts' = alerts /\ Alert.type = "addFailed"
      /\ UNCHANGED <<lt, adds, lost, removing>>
  BY <1>1, HandlerTakes
<1>3. SessionKept
  BY <1>1, <1>2, SavesKept DEF SessionKept
<1>4. /\ Alert \in AlertMsgs /\ Alert \in Items(Waiting) /\ Alert.t \in Torrents
      /\ \A k \in Keys : m_torrents'[k] = IF k = AlertKey /\ ~Current(k) THEN None ELSE m_torrents[k]
  BY <1>1, OnAddFailedEffect
<1>5. \A u \in Torrents : MetaEventsSame(u)
  <2>1. CASE UNCHANGED events
    BY <2>1 DEF MetaEventsSame
  <2>2. CASE ~UNCHANGED events
    <3>1. Publish("addFailed", Alert.t, Alert.id)
      BY <2>2 DEF OnAddFailed
    <3>2. Alert.id \in Ids
      BY <1>2, <1>4, AlertFields
    <3>3. EventsAre(events) /\ "addFailed" \in EventNames \ {"metadata"}
      BY <1>1 DEF TypeInv, EventNames
    <3> QED BY <1>4, <3>1, <3>2, <3>3, OtherEvents
  <2> QED BY <2>1, <2>2
<1> SUFFICES ASSUME NEW t \in Torrents, Safe(t), Meta(t) PROVE Meta(t)'
  BY DEF MetaStays
<1>6. CASE t # Alert.t
  <2>1. \A q \in Keys : q[1] # Alert.t => m_torrents'[q] = m_torrents[q]
    BY <1>4 DEF AlertKey
  <2>2. MapSame(t) /\ Recorded(t)
    BY <1>4, <1>6, <2>1, BesideRecorded
  <2>3. Alert \notin AddAlerts(t)
    BY <1>2 DEF AddAlerts
  <2> QED BY <1>2, <1>3, <1>5, <2>2, <2>3, TakesMeta
<1>7. CASE t = Alert.t
  <2>1. Alert \in LifeAlerts(t) /\ Alert \in Failures(t)
    BY <1>2, <1>4, <1>7 DEF LifeAlerts, Failures
  <2>2. AlertsOf(t)
    BY <1>1 DEF Core, Good, LifeOf
  <2>3. ~Live(t)
    BY <1>2, <1>4, <2>1, <2>2 DEF AlertsOf
  <2>4. Items(Waiting) \cap Listings(t) = {}
    BY <1>4, <2>1 DEF Meta, ListedOf
  <2>5. \A f \in Forms : m_torrents'[<<t, f>>] = None \/ m_torrents'[<<t, f>>] = m_torrents[<<t, f>>]
    BY <1>4, KeyParts
  <2>6. Follows(Waiting, Waiting', t)
    BY <1>2, HeadTaken
  <2> QED BY <1>3, <1>5, <2>3, <2>4, <2>5, <2>6, GoneMeta
<1> QED BY <1>6, <1>7

\* OnTorrentRemovedAlert: every status of the torrent came before.
LEMMA OnRemovedMeta ==
    ASSUME IInv, OnRemoved
    PROVE  MetaStays
<1>1. TypeInv /\ Core /\ Handles("removed") /\ calls' = calls /\ UntrackTorrent(AlertKey)
  BY DEF IInv, OnRemoved
<1>2. /\ QueuesAre /\ batch # <<>> /\ batch' = Tail(batch) /\ alerts' = alerts /\ Alert.type = "removed"
      /\ UNCHANGED <<lt, adds, lost, removing>>
  BY <1>1, HandlerTakes
<1>3. SessionKept
  BY <1>1, <1>2, SavesKept DEF SessionKept
<1>4. /\ Alert \in AlertMsgs /\ Alert \in Items(Waiting) /\ Waiting \in Seq(AlertMsgs) /\ Waiting # <<>> /\ Head(Waiting) = Alert
      /\ \A t : Follows(Waiting, Waiting', t)
  BY <1>2, HeadTaken
<1>5. PICK u \in Torrents, f \in Forms : Alert.t = u /\ Alert.form = f /\ AlertKey = <<u, f>> /\ <<u, f>> \in Keys
  BY <1>2, <1>4, AlertFields, KeyParts DEF AlertKey
<1>6. /\ \A q \in Keys : m_torrents'[q] = IF q = <<u, f>> THEN None ELSE m_torrents[q]
      /\ Current(<<u, f>>) => Publish("removed", u, m_torrents[<<u, f>>].id) /\ m_torrents[<<u, f>>].id \in Ids
      /\ ~Current(<<u, f>>) => UNCHANGED events
  <2>1. UntrackTorrent(<<u, f>>) /\ <<u, f>>[1] = u
    BY <1>1, <1>5
  <2> QED BY <1>1, <1>5, <2>1, UntrackIs
<1>7. \A t \in Torrents : MetaEventsSame(t)
  <2>1. CASE ~Current(<<u, f>>)
    BY <1>6, <2>1 DEF MetaEventsSame
  <2>2. CASE Current(<<u, f>>)
    <3>1. EventsAre(events) /\ "removed" \in EventNames \ {"metadata"}
      BY <1>1 DEF TypeInv, EventNames
    <3> QED BY <1>6, <2>2, <3>1, OtherEvents
  <2> QED BY <2>1, <2>2
<1> SUFFICES ASSUME NEW t \in Torrents, Safe(t), Meta(t) PROVE Meta(t)'
  BY DEF MetaStays
<1>8. CASE t # u
  <2>1. \A q \in Keys : q[1] # u => m_torrents'[q] = m_torrents[q]
    BY <1>6
  <2>2. MapSame(t) /\ Recorded(t)
    BY <1>8, <2>1, BesideRecorded
  <2>3. Alert \notin AddAlerts(t)
    BY <1>2 DEF AddAlerts
  <2> QED BY <1>2, <1>3, <1>7, <2>2, <2>3, TakesMeta
<1>9. CASE t = u
  <2>1. Alert \in LifeAlerts(t) /\ Alert \in Removals(t)
    BY <1>2, <1>4, <1>5, <1>9 DEF LifeAlerts, Removals
  <2>2. AlertsOf(t)
    BY <1>1 DEF Core, Good, LifeOf
  <2>3. ~Live(t)
    BY <1>2, <1>4, <2>1, <2>2 DEF AlertsOf
  <2>4. Items(Waiting) \cap Listings(t) = {}
    <3>1. Before(Waiting, Listings(t), Removals(t))
      BY DEF Meta, ListedOf
    <3> QED BY <1>4, <2>1, <3>1, BeforeHead
  <2>5. \A g \in Forms : m_torrents'[<<t, g>>] = None \/ m_torrents'[<<t, g>>] = m_torrents[<<t, g>>]
    BY <1>6, KeyParts
  <2> QED BY <1>3, <1>4, <1>7, <2>3, <2>4, <2>5, GoneMeta
<1> QED BY <1>8, <1>9

\* OnAddTorrentAlert leaves the entries of other torrents alone.
LEMMA AddBeside ==
    ASSUME TypeInv, NEW states, HandlesAdd(states), m_torrents' = Promoted \/ m_torrents' = AddLookup(AlertKey, AddHash)
    PROVE  \A q \in Keys : q[1] # Alert.t => m_torrents'[q] = m_torrents[q]
<1>1. Handles("add") /\ Valid(Alert.t, Alert.id)
  BY DEF HandlesAdd
<1>2. Alert \in AlertMsgs /\ Alert.type = "add" /\ lt[Alert.t] # None
  BY <1>1, HandlesIs DEF Valid, Live
<1> DEFINE m == AddLookup(AlertKey, AddHash)
           k == AddHash
<1>3. /\ MapIs(m) /\ k \in Keys /\ k[1] = Alert.t
      /\ \A q \in Keys : q[1] # Alert.t => m[q] = m_torrents[q]
  BY <1>2, LookupIs
<1>4. Promoted = Promote(m, k, "Current")
  BY DEF Promoted, Promote
<1> HIDE DEF m, k
<1>5. \A q \in Keys \ {k} : Promote(m, k, "Current")[q] = m[q]
  BY <1>3, PromotedBeside
<1>6. m_torrents' = Promote(m, k, "Current") \/ m_torrents' = m
  BY <1>4 DEF m
<1> QED BY <1>3, <1>5, <1>6

\* OnAddTorrentAlert: the entry becomes current when its alert is taken.
LEMMA OnAddMeta ==
    ASSUME IInv, OnAddKnown \/ OnAddNew
    PROVE  MetaStays
<1>1. TypeInv /\ Core
  BY DEF IInv
<1>2. /\ Handles("add")
      /\ \A q \in Keys : q[1] # Alert.t => m_torrents'[q] = m_torrents[q]
      /\ UNCHANGED events \/ Publish("added", Alert.t, Alert.id)
  <2>1. CASE OnAddKnown
    <3>1. HandlesAdd({"Loading", "Current"}) /\ (m_torrents' = Promoted \/ m_torrents' = AddLookup(AlertKey, AddHash)) /\ UNCHANGED events
      BY <2>1 DEF OnAddKnown
    <3> QED BY <1>1, <3>1, AddBeside DEF HandlesAdd
  <2>2. CASE OnAddNew
    <3>1. HandlesAdd({"Adding"}) /\ m_torrents' = Promoted /\ Publish("added", Alert.t, Alert.id)
      BY <2>2 DEF OnAddNew
    <3> QED BY <1>1, <3>1, AddBeside DEF HandlesAdd
  <2> QED BY <2>1, <2>2
<1>3. /\ QueuesAre /\ batch # <<>> /\ batch' = Tail(batch) /\ alerts' = alerts /\ Alert.type = "add"
      /\ UNCHANGED <<lt, adds, lost, removing>>
  BY <1>1, <1>2, HandlerTakes
<1>4. /\ NewCalls(SaveCalls) /\ Alert \in AlertMsgs /\ Alert \in Items(Waiting) /\ Alert.t \in Torrents /\ Alert.id \in Ids
      /\ Alert.form \in Forms /\ lt[Alert.t].form \in Forms
      /\ Tracked(AlertKey) /\ Alone(Alert.t, Alert.form) =>
            /\ Settles(Alert.t, lt[Alert.t].form, m_torrents[AlertKey]) /\ Remembers(Alert.t, lt[Alert.t].form, m_torrents[AlertKey])
  <2>1. CASE OnAddKnown
    BY <1>1, <2>1, OnAddKnownEffect
  <2>2. CASE OnAddNew
    BY <1>1, <2>2, OnAddNewEffect
  <2> QED BY <2>1, <2>2
<1>5. SessionKept
  BY <1>3, <1>4 DEF SessionKept
<1>6. \A u \in Torrents : MetaEventsSame(u)
  <2>1. CASE UNCHANGED events
    BY <2>1 DEF MetaEventsSame
  <2>2. CASE Publish("added", Alert.t, Alert.id)
    <3>1. EventsAre(events) /\ "added" \in EventNames \ {"metadata"}
      BY <1>1 DEF TypeInv, EventNames
    <3> QED BY <1>4, <2>2, <3>1, OtherEvents
  <2> QED BY <1>2, <2>1, <2>2
<1> SUFFICES ASSUME NEW t \in Torrents, Safe(t), Meta(t) PROVE Meta(t)'
  BY DEF MetaStays
<1>7. CASE t # Alert.t
  <2>1. MapSame(t) /\ Recorded(t)
    BY <1>2, <1>4, <1>7, BesideRecorded
  <2>2. Alert \notin AddAlerts(t)
    BY <1>7 DEF AddAlerts
  <2> QED BY <1>3, <1>5, <1>6, <2>1, <2>2, TakesMeta
<1>8. CASE t = Alert.t
  <2>1. Good(t)
    BY <1>1 DEF Core
  <2>2. Tracked(AlertKey) /\ AlertKey = <<t, Alert.form>> /\ Alone(t, Alert.form)
    BY <1>1, <1>3, <1>4, <1>8, <2>1, AddSettles
  <2>3. PICK g \in Forms, f \in Forms : g = Alert.form /\ f = lt[t].form
    BY <1>4, <1>8
  <2>4. Tracked(<<t, g>>) /\ Settles(t, f, m_torrents[<<t, g>>]) /\ Remembers(t, f, m_torrents[<<t, g>>])
    BY <1>4, <1>8, <2>2, <2>3
  <2>5. m_torrents[<<t, g>>].announced => m_torrents'[<<t, f>>].announced
    BY <2>4 DEF Remembers
  <2>6. Follows(Waiting, Waiting', t)
    BY <1>3, HeadTaken
  <2> QED BY <1>5, <1>6, <2>4, <2>5, <2>6, SettledMeta
<1> QED BY <1>7, <1>8

\* A step that publishes metadata keeps the rest of what is said of t.
LEMMA KeptBesideEvents ==
    ASSUME NEW t \in Torrents, Meta(t), SessionKept, AnnouncedOf(t)', Follows(Waiting, Waiting', t),
           (\A f \in Forms : ~Tracked(<<t, f>>)') => \A f \in Forms : ~Tracked(<<t, f>>),
           Answered(t) => Answered(t)'
    PROVE  Meta(t)'
<1>1. adds'[t] = adds[t] /\ removing \subseteq removing' /\ lost \subseteq lost' /\ (Live(t)' <=> Live(t))
  BY DEF SessionKept, Live
<1>2. Items(calls') \cap AddCalls(t) \subseteq Items(calls)
  BY DEF SessionKept, NewCalls, SaveCalls, AddCalls
<1>3. Steady(t)
  BY <1>1, <1>2 DEF Steady
<1>4. ListedOf(t)' /\ MetaAlertsOf(t)'
  BY <1>3, ListedKept, MetaAlertsKept DEF Meta, Follows
<1>5. AnsweredOf(t)'
  BY <1>1 DEF AnsweredOf, Answered, Meta
<1> QED BY <1>4, <1>5 DEF Meta

\* The metadata of one add of t is published, unless b says it was announced.
Announces(t, id, b) ==
    /\ \A i \in Ids : i # id => events'[<<"metadata", t, i>>] = events[<<"metadata", t, i>>]
    /\ events'[<<"metadata", t, id>>] = IF b THEN events[<<"metadata", t, id>>] ELSE events[<<"metadata", t, id>>] + 1

\* What MetadataReceived publishes, on the map given.
LEMMA NewsOfMetadata ==
    ASSUME EventsAre(events), NEW map, NEW k, NEW t \in Torrents, NEW id \in Ids, MetadataReceived(map, k, t, id)
    PROVE  /\ Announces(t, id, map[k] # None /\ map[k].announced)
           /\ \A u \in Torrents \ {t} : MetaEventsSame(u)
<1>1. CASE map[k] # None /\ map[k].announced
  BY <1>1 DEF MetadataReceived, Announces, MetaEventsSame
<1>2. CASE ~(map[k] # None /\ map[k].announced)
  <2>1. Publish("metadata", t, id) /\ "metadata" \in EventNames
    BY <1>2 DEF MetadataReceived, EventNames
  <2>2. /\ events'[<<"metadata", t, id>>] = events[<<"metadata", t, id>>] + 1
        /\ \A e \in EventNames \X Torrents \X Ids : e # <<"metadata", t, id>> => events'[e] = events[e]
    BY <2>1, PublishIs
  <2>3. \A u \in Torrents, i \in Ids : <<"metadata", u, i>> \in EventNames \X Torrents \X Ids
    BY <2>1
  <2> QED BY <1>2, <2>2, <2>3 DEF Announces, MetaEventsSame
<1> QED BY <1>1, <1>2

\* An event of the last add: it is the first, the add alert was lost, or nothing is published.
LEMMA AnnouncedOnce ==
    ASSUME NEW t \in Torrents, AnnouncedOf(t), EventsAre(events), UNCHANGED <<adds, lost>>,
           NEW id \in Ids, id = adds[t], NEW b, Announces(t, id, b),
           \/ <<"add", t, id>> \in lost
           \/ \E g \in Forms : /\ Tracked(<<t, g>>) /\ (m_torrents[<<t, g>>].announced <=> b)
                               /\ \A x \in Forms : Tracked(<<t, x>>)' => m_torrents'[<<t, x>>].announced
    PROVE  AnnouncedOf(t)'
<1>1. /\ \A i \in Ids : i # id => events'[<<"metadata", t, i>>] = events[<<"metadata", t, i>>]
      /\ events'[<<"metadata", t, id>>] = IF b THEN events[<<"metadata", t, id>>] ELSE events[<<"metadata", t, id>>] + 1
  BY DEF Announces
<1>2. id \in Nat /\ adds'[t] = id
  BY IdsAre
<1>3. \A i \in Ids : i > adds'[t] => events'[<<"metadata", t, i>>] = 0
  BY <1>1, <1>2 DEF AnnouncedOf
<1>4. events[<<"metadata", t, id>>] \in Nat
  <2>1. <<"metadata", t, id>> \in EventNames \X Torrents \X Ids
    BY DEF EventNames
  <2> QED BY <2>1 DEF EventsAre
<1>5. ASSUME NEW i \in Ids, <<"add", t, i>> \notin lost'
      PROVE  /\ events'[<<"metadata", t, i>>] <= 1
             /\ i = adds'[t] /\ events'[<<"metadata", t, i>>] # 0 =>
                   \A x \in Forms : Tracked(<<t, x>>)' => m_torrents'[<<t, x>>].announced
  <2>1. <<"add", t, i>> \notin lost
    BY <1>5
  <2>2. events[<<"metadata", t, i>>] <= 1
    BY <2>1 DEF AnnouncedOf
  <2>3. CASE i # id
    BY <1>1, <1>2, <2>2, <2>3
  <2>4. CASE i = id
    <3>1. PICK g \in Forms : /\ Tracked(<<t, g>>) /\ (m_torrents[<<t, g>>].announced <=> b)
                             /\ \A x \in Forms : Tracked(<<t, x>>)' => m_torrents'[<<t, x>>].announced
      BY <2>1, <2>4
    <3>2. events[<<"metadata", t, id>>] # 0 => m_torrents[<<t, g>>].announced
      BY <2>1, <2>4, <3>1 DEF AnnouncedOf
    <3>3. events'[<<"metadata", t, id>>] <= 1
      <4>1. CASE b
        BY <1>1, <2>2, <2>4, <4>1
      <4>2. CASE ~b
        <5>1. events[<<"metadata", t, id>>] = 0
          BY <3>1, <3>2, <4>2
        <5> QED BY <1>1, <4>2, <5>1
      <4> QED BY <4>1, <4>2
    <3> QED BY <2>4, <3>1, <3>3
  <2> QED BY <2>3, <2>4
<1> QED BY <1>3, <1>5 DEF AnnouncedOf

\* MetadataReceived for the entry of t, which may move.
LEMMA AnnouncesMeta ==
    ASSUME TypeInv, NEW t \in Torrents, Good(t), Meta(t), SessionKept, Follows(Waiting, Waiting', t),
           Items(Waiting) \cap AddAlerts(t) \subseteq Items(Waiting'),
           NEW id \in Ids, id = adds[t], NEW g \in Forms, NEW f \in Forms, Tracked(<<t, g>>),
           SameEntry(m_torrents[<<t, g>>], m_torrents'[<<t, f>>]), m_torrents'[<<t, f>>].announced = TRUE,
           \A x \in Forms \ {f} : m_torrents'[<<t, x>>] = None,
           Announces(t, id, m_torrents[<<t, g>>].announced)
    PROVE  Meta(t)'
<1>1. EntryOf(t) /\ EventsAre(events) /\ UNCHANGED <<adds, lost>>
  BY DEF Good, LifeOf, TypeInv, SessionKept
<1>2. Tracked(<<t, f>>)' /\ (Current(<<t, g>>) => Current(<<t, f>>)') /\ \A x \in Forms : Tracked(<<t, x>>)' => x = f
  BY DEF Tracked, Current, SameEntry
<1>3. \A x \in Forms : Current(<<t, x>>) => x = g
  BY <1>1 DEF EntryOf, Current
<1>4. Answered(t) => Answered(t)'
  BY <1>2, <1>3 DEF Answered
<1>5. \A x \in Forms : Tracked(<<t, x>>)' => m_torrents'[<<t, x>>].announced
  BY <1>2
<1>6. AnnouncedOf(t)
  BY DEF Meta
<1>7. AnnouncedOf(t)'
  <2> DEFINE b == m_torrents[<<t, g>>].announced
  <2>1. Announces(t, id, b) /\ (m_torrents[<<t, g>>].announced <=> b)
    OBVIOUS
  <2> HIDE DEF b
  <2> QED BY <1>1, <1>5, <1>6, <2>1, AnnouncedOnce
<1> QED BY <1>2, <1>4, <1>7, KeptBesideEvents

\* The cases of OnMetadataReceivedAlert.
LEMMA MetadataCases ==
    ASSUME TypeInv, OnMetadata
    PROVE  \E t \in Torrents, id \in Ids :
              /\ Alert.t = t /\ Alert.id = id
              /\ \/ ~Valid(t, id) /\ UNCHANGED <<calls, m_torrents, events>>
                 \/ \E f \in Forms, g \in Forms :
                      /\ Valid(t, id) /\ f = lt[t].form /\ m_torrents[<<t, f>>] = None /\ <<t, g>> \in Olds
                      /\ MetadataReceived(Rekey(m_torrents, <<t, g>>, <<t, f>>), <<t, f>>, t, id)
                 \/ \E f \in Forms :
                      /\ Valid(t, id) /\ f = lt[t].form /\ (Tracked(<<t, f>>) \/ Olds = {})
                      /\ MetadataReceived(m_torrents, <<t, f>>, t, id)
<1>1. Alert \in AlertMsgs /\ Alert.type = "metadata" /\ LtIs(lt)
  BY HandlesIs DEF OnMetadata, TypeInv
<1>2. PICK t \in Torrents, id \in Ids : t = Alert.t /\ id = Alert.id
  BY <1>1, AlertFields
<1>3. Olds = {k \in Keys : Tracked(k) /\ k[1] = t /\ m_torrents[k].handle /\ m_torrents[k].id = Alert.id}
  BY <1>2 DEF Olds
<1>4. CASE ~Valid(t, id)
  BY <1>2, <1>4 DEF OnMetadata
<1>5. CASE Valid(t, id)
  <2>1. PICK f \in Forms : f = lt[t].form
    BY <1>1, <1>5, LtFields DEF Valid, Live
  <2>2. CASE ~Tracked(<<t, f>>) /\ Olds # {}
    <3>1. MetadataReceived(Rekey(m_torrents, CHOOSE k \in Olds : TRUE, <<t, f>>), <<t, f>>, t, id)
      BY <1>2, <1>3, <1>5, <2>1, <2>2 DEF OnMetadata
    <3>2. PICK k \in Olds : MetadataReceived(Rekey(m_torrents, k, <<t, f>>), <<t, f>>, t, id)
      BY <2>2, <3>1
    <3>3. PICK g \in Forms : k = <<t, g>>
      BY <1>2, KeyParts DEF Olds
    <3> QED BY <1>2, <1>5, <2>1, <2>2, <3>2, <3>3 DEF Tracked
  <2>3. CASE Tracked(<<t, f>>) \/ Olds = {}
    <3>1. MetadataReceived(m_torrents, <<t, f>>, t, id)
      BY <1>2, <1>3, <1>5, <2>1, <2>3 DEF OnMetadata
    <3> QED BY <1>2, <1>5, <2>1, <2>3, <3>1
  <2> QED BY <2>2, <2>3
<1> QED BY <1>4, <1>5

\* OnMetadataReceivedAlert finds the entry unless the add alert was lost.
LEMMA OnMetadataMeta ==
    ASSUME IInv, OnMetadata
    PROVE  MetaStays
<1>1. TypeInv /\ Core /\ Handles("metadata") /\ MapIs(m_torrents) /\ EventsAre(events) /\ LtIs(lt)
  BY DEF IInv, OnMetadata, TypeInv
<1>2. /\ QueuesAre /\ batch # <<>> /\ batch' = Tail(batch) /\ alerts' = alerts /\ Alert.type = "metadata"
      /\ UNCHANGED <<lt, adds, lost, removing>>
  BY <1>1, HandlerTakes
<1>3. PICK u \in Torrents, id \in Ids :
              /\ Alert.t = u /\ Alert.id = id
              /\ \/ ~Valid(u, id) /\ UNCHANGED <<calls, m_torrents, events>>
                 \/ \E f \in Forms, g \in Forms :
                      /\ Valid(u, id) /\ f = lt[u].form /\ m_torrents[<<u, f>>] = None /\ <<u, g>> \in Olds
                      /\ MetadataReceived(Rekey(m_torrents, <<u, g>>, <<u, f>>), <<u, f>>, u, id)
                 \/ \E f \in Forms :
                      /\ Valid(u, id) /\ f = lt[u].form /\ (Tracked(<<u, f>>) \/ Olds = {})
                      /\ MetadataReceived(m_torrents, <<u, f>>, u, id)
  BY <1>1, MetadataCases
<1>4. /\ Waiting \in Seq(AlertMsgs) /\ Waiting # <<>> /\ Head(Waiting) = Alert /\ Alert \in AlertMsgs
      /\ \A t : Follows(Waiting, Waiting', t)
      /\ Items(Waiting) = {Alert} \cup Items(Waiting')
  BY <1>2, HeadTaken
<1>5. \A t : Alert \notin AddAlerts(t)
  BY <1>2 DEF AddAlerts
<1>6. Items(Waiting) \cap AddAlerts(u) \subseteq Items(Waiting')
  BY <1>4, <1>5
<1>7. CASE UNCHANGED <<calls, m_torrents, events>>
  <2>1. SessionKept
    BY <1>2, <1>7, SavesKept DEF SessionKept
  <2> SUFFICES ASSUME NEW t \in Torrents, Meta(t) PROVE Meta(t)'
    BY DEF MetaStays
  <2>2. MapSame(t) /\ Recorded(t) /\ MetaEventsSame(t)
    BY <1>7, NothingRecorded
  <2> QED BY <1>2, <1>5, <2>1, <2>2, TakesMeta
<1>8. ASSUME NewCalls(SaveCalls), \A q \in Keys : q[1] # u => m_torrents'[q] = m_torrents[q],
             \A t \in Torrents \ {u} : MetaEventsSame(t),
             Safe(u) /\ Meta(u) => Meta(u)'
      PROVE  MetaStays
  <2>1. SessionKept
    BY <1>2, <1>8 DEF SessionKept
  <2> SUFFICES ASSUME NEW t \in Torrents \ {u}, Meta(t) PROVE Meta(t)'
    BY <1>8 DEF MetaStays
  <2>2. MapSame(t) /\ Recorded(t)
    BY <1>8, BesideRecorded
  <2> QED BY <1>2, <1>5, <1>8, <2>1, <2>2, TakesMeta
<1>9. ASSUME Safe(u), Valid(u, id) PROVE Good(u) /\ EntryOf(u) /\ id = adds[u] /\ Live(u)
  BY <1>1, <1>9 DEF Core, Good, LifeOf, EntryOf, Valid
<1>10. ASSUME NEW f \in Forms, NEW g \in Forms, Valid(u, id), f = lt[u].form, m_torrents[<<u, f>>] = None, <<u, g>> \in Olds,
              MetadataReceived(Rekey(m_torrents, <<u, g>>, <<u, f>>), <<u, f>>, u, id)
       PROVE  MetaStays
  <2> DEFINE p == <<u, g>>
             c == <<u, f>>
             y == m_torrents
             m == Rekey(y, p, c)
  <2>1. MapIs(y) /\ p \in Keys /\ c \in Keys /\ y[p] # None /\ y[c] = None /\ p # c /\ p[1] = u /\ c[1] = u /\ g # f
    BY <1>1, <1>3, <1>10, KeyParts DEF Olds, Tracked
  <2>2. /\ MapIs(m) /\ m[c] = y[p] /\ m[p] = None /\ \A q \in Keys \ {p, c} : m[q] = y[q]
    <3> HIDE DEF p, c, y
    <3>1. MapIs(m)
      BY ONLY <2>1, RekeyIs
    <3>2. m[c] = y[p] /\ m[p] = None
      BY ONLY <2>1, RekeyIs
    <3>3. \A q \in Keys \ {p, c} : m[q] = y[q]
      BY ONLY <2>1, RekeyIs
    <3> QED BY <3>1, <3>2, <3>3
  <2>3. MetadataReceived(m, c, u, id)
    BY <1>10
  <2> HIDE DEF m
  <2>4. /\ NewCalls(SaveCalls) /\ \A q \in Keys \ {c} : m_torrents'[q] = m[q]
        /\ SameEntry(m[c], m_torrents'[c]) /\ m_torrents'[c].announced = TRUE
    <3> HIDE DEF c
    <3> QED BY <1>1, <1>2, <2>1, <2>2, <2>3, MetadataIs
  <2>5. Announces(u, id, m[c] # None /\ m[c].announced) /\ \A t \in Torrents \ {u} : MetaEventsSame(t)
    <3> HIDE DEF c
    <3> QED BY <1>1, <2>3, NewsOfMetadata
  <2>6. \A q \in Keys : q[1] # u => m_torrents'[q] = m_torrents[q]
    BY <2>1, <2>2, <2>4
  <2>7. ASSUME Safe(u), Meta(u) PROVE Meta(u)'
    <3>1. Good(u) /\ id = adds[u]
      BY <1>9, <1>10, <2>7
    <3>2. SessionKept
      BY <1>2, <2>4 DEF SessionKept
    <3>3. Tracked(<<u, g>>) /\ SameEntry(m_torrents[<<u, g>>], m_torrents'[<<u, f>>]) /\ m_torrents'[<<u, f>>].announced = TRUE
      BY <2>1, <2>2, <2>4 DEF Tracked
    <3>4. Announces(u, id, m_torrents[<<u, g>>].announced)
      <4>1. m[c] = m_torrents[<<u, g>>] /\ m[c] # None
        BY <2>1, <2>2
      <4>2. Announces(u, id, m[c].announced)
        BY <2>5, <4>1 DEF Announces
      <4> QED BY <4>1, <4>2
    <3>5. \A x \in Forms \ {f} : m_torrents'[<<u, x>>] = None
      <4>1. \A x \in Forms \ {f} : x = g
        BY <2>1, FormsAre
      <4>2. m_torrents'[<<u, g>>] = None
        BY <2>1, <2>2, <2>4
      <4> QED BY <4>1, <4>2
    <3>6. Follows(Waiting, Waiting', u)
      BY <1>4
    <3> QED BY <1>1, <1>6, <2>7, <3>1, <3>2, <3>3, <3>4, <3>5, <3>6, AnnouncesMeta
  <2> QED BY <1>8, <2>4, <2>5, <2>6, <2>7
<1>11. ASSUME NEW f \in Forms, Valid(u, id), f = lt[u].form, Tracked(<<u, f>>) \/ Olds = {},
              MetadataReceived(m_torrents, <<u, f>>, u, id)
       PROVE  MetaStays
  <2> DEFINE c == <<u, f>>
  <2>1. c \in Keys /\ c[1] = u /\ MetadataReceived(m_torrents, c, u, id)
    BY <1>11, KeyParts
  <2>2. /\ NewCalls(SaveCalls) /\ \A q \in Keys \ {c} : m_torrents'[q] = m_torrents[q]
        /\ SameEntry(m_torrents[c], m_torrents'[c])
        /\ m_torrents[c] # None => m_torrents'[c].announced = TRUE
    <3> HIDE DEF c
    <3> QED BY <1>1, <1>2, <2>1, MetadataIs
  <2>3. Announces(u, id, m_torrents[c] # None /\ m_torrents[c].announced) /\ \A t \in Torrents \ {u} : MetaEventsSame(t)
    <3> HIDE DEF c
    <3> QED BY <1>1, <2>1, NewsOfMetadata
  <2>4. \A q \in Keys : q[1] # u => m_torrents'[q] = m_torrents[q]
    BY <2>1, <2>2
  <2>5. ASSUME Safe(u), Meta(u) PROVE Meta(u)'
    <3>1. Good(u) /\ EntryOf(u) /\ id = adds[u] /\ Live(u)
      BY <1>9, <1>11, <2>5
    <3>2. SessionKept
      BY <1>2, <2>2 DEF SessionKept
    <3>3. Follows(Waiting, Waiting', u)
      BY <1>4
    <3>4. CASE Tracked(<<u, f>>)
      <4>1. SameEntry(m_torrents[<<u, f>>], m_torrents'[<<u, f>>]) /\ m_torrents'[<<u, f>>].announced = TRUE
        BY <2>2, <3>4 DEF Tracked
      <4>2. Announces(u, id, m_torrents[<<u, f>>].announced)
        BY <2>3, <3>4 DEF Tracked, Announces
      <4>3. \A x \in Forms \ {f} : m_torrents'[<<u, x>>] = None
        <5> SUFFICES ASSUME NEW x \in Forms \ {f} PROVE m_torrents'[<<u, x>>] = None
          OBVIOUS
        <5>1. m_torrents[<<u, x>>] = None
          BY <3>1, <3>4 DEF EntryOf, Tracked
        <5>2. <<u, x>> \in Keys \ {c}
          BY KeyParts
        <5> QED BY <2>2, <5>1, <5>2
      <4> QED BY <1>1, <1>6, <2>5, <3>1, <3>2, <3>3, <3>4, <4>1, <4>2, <4>3, AnnouncesMeta
    <3>5. CASE ~Tracked(<<u, f>>)
      <4>1. Alert \in MetaAlerts(u, adds[u])
        BY <1>2, <1>3, <1>4, <3>1 DEF MetaAlerts
      <4>2. Items(Waiting) \cap AddAlerts(u) = {}
        <5>1. Before(Waiting, AddAlerts(u), MetaAlerts(u, adds[u]))
          BY <2>5 DEF Meta, MetaAlertsOf
        <5> QED BY <1>4, <4>1, <5>1, BeforeHead
      <4>3. ASSUME NEW x \in Forms, Current(<<u, x>>) PROVE FALSE
        <5>1. <<u, x>> \in Keys /\ m_torrents[<<u, x>>].id = id /\ Tracked(<<u, x>>)
          BY <3>1, <4>3, KeyParts DEF EntryOf, Current
        <5>2. m_torrents[<<u, x>>].handle
          BY <1>1, <4>3, <5>1 DEF MapIs, Current, Tracked
        <5>3. <<u, x>> \in Olds
          BY <1>3, <5>1, <5>2 DEF Olds
        <5> QED BY <1>11, <3>5, <5>3
      <4>4. <<"add", u, id>> \in lost
        BY <2>5, <3>1, <4>2, <4>3 DEF Meta, AnsweredOf
      <4>5. m_torrents' = m_torrents
        BY <2>1, <3>5 DEF MetadataReceived, Tracked
      <4>6. AnnouncedOf(u)'
        <5>1. PICK b : Announces(u, id, b)
          BY <2>3
        <5>2. AnnouncedOf(u)
          BY <2>5 DEF Meta
        <5> QED BY <1>1, <1>2, <3>1, <4>4, <5>1, <5>2, AnnouncedOnce
      <4>7. \A x \in Forms : (Tracked(<<u, x>>)' <=> Tracked(<<u, x>>)) /\ (Current(<<u, x>>)' <=> Current(<<u, x>>))
        BY <4>5 DEF Tracked, Current
      <4>8. Answered(u) => Answered(u)'
        BY <1>6, <4>7 DEF Answered
      <4> QED BY <2>5, <3>2, <3>3, <4>6, <4>7, <4>8, KeptBesideEvents
    <3> QED BY <3>4, <3>5
  <2> QED BY <1>8, <2>2, <2>3, <2>4, <2>5
<1> QED BY <1>3, <1>7, <1>10, <1>11

\* What OnStateUpdateAlert does with one status of the alert.
LEMMA UpdateCases ==
    ASSUME TypeInv, OnUpdate
    PROVE  /\ \/ batch' = Tail(batch)
              \/ \E x \in AlertMsgs : x.type = "update" /\ x.status \subseteq Alert.status /\ batch' = <<x>> \o Tail(batch)
           /\ \/ UNCHANGED <<calls, m_torrents, events>>
              \/ \E s \in Alert.status, u \in Torrents, f \in Forms, id \in Ids :
                    /\ s.t = u /\ s.id = id /\ Current(<<u, f>>)
                    /\ MetadataReceived(m_torrents, <<u, f>>, u, id)
<1>1. batch # <<>> /\ Alert.type = "update" /\ QueuesAre
  BY DEF OnUpdate, TypeInv
<1>2. Alert \in AlertMsgs
  BY <1>1, HeadTailProperties DEF QueuesAre, Alert
<1>3. Alert.status \subseteq Statuses /\ Alert = [type |-> "update", status |-> Alert.status]
  BY <1>1, <1>2, AlertFields
<1>4. CASE Alert.status = {}
  BY <1>4 DEF OnUpdate
<1>5. CASE Alert.status # {}
  <2> DEFINE s == CHOOSE s \in Alert.status : TRUE
             x == [Alert EXCEPT !.status = @ \ {s}]
  <2>1. s \in Alert.status
    BY <1>5
  <2>2. batch' = Tail(batch) \/ batch' = <<x>> \o Tail(batch)
    BY <1>5 DEF OnUpdate
  <2>3. (Current(<<s.t, s.form>>) /\ MetadataReceived(m_torrents, <<s.t, s.form>>, s.t, s.id)) \/ UNCHANGED <<calls, m_torrents, events>>
    BY <1>5 DEF OnUpdate
  <2>4. x = [type |-> "update", status |-> Alert.status \ {s}]
    <3> HIDE DEF s
    <3> QED BY <1>3
  <2> HIDE DEF s, x
  <2>5. x \in AlertMsgs /\ x.type = "update" /\ x.status \subseteq Alert.status
    <3>1. Alert.status \ {s} \in SUBSET Statuses
      BY <1>3
    <3> QED BY <2>4, <3>1, SetAlerts
  <2>6. s.t \in Torrents /\ s.form \in Forms /\ s.id \in Ids
    BY <1>3, <2>1 DEF Statuses
  <2>7. batch' = Tail(batch) \/ \E y \in AlertMsgs : y.type = "update" /\ y.status \subseteq Alert.status /\ batch' = <<y>> \o Tail(batch)
    BY <2>2, <2>5
  <2> QED BY <2>1, <2>3, <2>6, <2>7
<1> QED BY <1>4, <1>5

\* OnStateUpdateAlert: a status is of the last add, and its entry is current.
LEMMA OnUpdateMeta ==
    ASSUME IInv, OnUpdate
    PROVE  MetaStays
<1>1. TypeInv /\ Core /\ QueuesAre /\ MapIs(m_torrents) /\ EventsAre(events)
  BY DEF IInv, TypeInv
<1>2. batch # <<>> /\ Alert.type = "update" /\ UNCHANGED <<lt, alerts, dropped, adds, lost, removing>>
  BY DEF OnUpdate
<1>3. Alert \in AlertMsgs /\ Alert \in Items(Waiting) /\ \A t : /\ Follows(Waiting, Waiting', t)
                                                               /\ Items(Waiting) \cap AddAlerts(t) \subseteq Items(Waiting')
  <2>1. CASE batch' = Tail(batch)
    <3>1. Items(Waiting) = {Alert} \cup Items(Waiting') /\ Alert \in AlertMsgs /\ \A t : Follows(Waiting, Waiting', t)
      BY <1>1, <1>2, <2>1, HeadTaken
    <3>2. \A t : Alert \notin AddAlerts(t)
      BY <1>2 DEF AddAlerts
    <3> QED BY <3>1, <3>2
  <2>2. ASSUME NEW x \in AlertMsgs, x.type = "update", x.status \subseteq Alert.status, batch' = <<x>> \o Tail(batch)
        PROVE  Alert \in AlertMsgs /\ Alert \in Items(Waiting) /\ \A t : /\ Follows(Waiting, Waiting', t)
                                                               /\ Items(Waiting) \cap AddAlerts(t) \subseteq Items(Waiting')
    <3>1. /\ Waiting # <<>> /\ Waiting' = <<x>> \o Tail(Waiting) /\ Alert = Head(Waiting)
          /\ Alert \in AlertMsgs /\ Alert \in Items(Waiting)
      BY <1>1, <1>2, <2>2, AlertReplaced
    <3>2. Waiting \in Seq(AlertMsgs)
      BY <1>1, WaitingIs
    <3> DEFINE q == Waiting
               r == Waiting'
               h == Alert
    <3>3. q \in Seq(AlertMsgs) /\ q # <<>> /\ r = <<x>> \o Tail(q) /\ Head(q) = h /\ h.type = "update" /\ x.status \subseteq h.status
      BY <1>2, <2>2, <3>1, <3>2
    <3> HIDE DEF q, r, h
    <3>4. \A t : Follows(q, r, t)
      BY <2>2, <3>3, FollowsCons
    <3>5. Tail(q) \in Seq(AlertMsgs) /\ Items(q) = {h} \cup Items(Tail(q))
      BY <3>3, TailItems
    <3>6. Items(<<x>> \o Tail(q)) = {x} \cup Items(Tail(q))
      BY <3>5, ConsItems
    <3>7. \A t : h \notin AddAlerts(t)
      BY <3>3 DEF AddAlerts
    <3>8. \A t : Items(q) \cap AddAlerts(t) \subseteq Items(r)
      BY <3>3, <3>5, <3>6, <3>7
    <3> QED BY <3>1, <3>4, <3>8 DEF q, r
  <2> QED BY <1>1, <2>1, <2>2, UpdateCases
<1>4. CASE UNCHANGED <<calls, m_torrents, events>>
  <2>1. SessionKept
    BY <1>1, <1>2, <1>4, SavesKept DEF SessionKept
  <2> SUFFICES ASSUME NEW t \in Torrents, Meta(t) PROVE Meta(t)'
    BY DEF MetaStays
  <2>2. MapSame(t) /\ Recorded(t) /\ MetaEventsSame(t)
    BY <1>4, NothingRecorded
  <2> QED BY <1>3, <2>1, <2>2, TakenMeta
<1>5. ASSUME NEW s \in Alert.status, NEW u \in Torrents, NEW f \in Forms, NEW id \in Ids, s.t = u, s.id = id, Current(<<u, f>>),
             MetadataReceived(m_torrents, <<u, f>>, u, id)
      PROVE  MetaStays
  <2> DEFINE c == <<u, f>>
  <2>1. c \in Keys /\ c[1] = u /\ MetadataReceived(m_torrents, c, u, id) /\ m_torrents[c] # None
    BY <1>5, KeyParts DEF Current, Tracked
  <2>2. /\ NewCalls(SaveCalls) /\ \A q \in Keys \ {c} : m_torrents'[q] = m_torrents[q]
        /\ SameEntry(m_torrents[c], m_torrents'[c]) /\ m_torrents'[c].announced = TRUE
    <3> HIDE DEF c
    <3> QED BY <1>1, <2>1, MetadataIs
  <2>3. Announces(u, id, m_torrents[c] # None /\ m_torrents[c].announced) /\ \A t \in Torrents \ {u} : MetaEventsSame(t)
    <3> HIDE DEF c
    <3> QED BY <1>1, <2>1, NewsOfMetadata
  <2>4. \A q \in Keys : q[1] # u => m_torrents'[q] = m_torrents[q]
    BY <2>1, <2>2
  <2>5. SessionKept
    BY <1>2, <2>2 DEF SessionKept
  <2> SUFFICES ASSUME NEW t \in Torrents, Safe(t), Meta(t) PROVE Meta(t)'
    BY DEF MetaStays
  <2>6. CASE t # u
    <3>1. MapSame(t) /\ Recorded(t) /\ MetaEventsSame(t)
      BY <2>3, <2>4, <2>6, BesideRecorded
    <3> QED BY <1>3, <2>5, <3>1, TakenMeta
  <2>7. CASE t = u
    <3>1. Good(t) /\ EntryOf(t)
      BY <1>1 DEF Core, Good, LifeOf
    <3>2. id = adds[t]
      <4>1. Alert \in Items(Waiting) \cap Listings(t)
        BY <1>2, <1>3, <1>5, <2>7 DEF Listings
      <4> QED BY <1>5, <2>7, <4>1 DEF Meta, ListedOf
    <3>3. Tracked(<<t, f>>) /\ SameEntry(m_torrents[<<t, f>>], m_torrents'[<<t, f>>]) /\ m_torrents'[<<t, f>>].announced = TRUE
      BY <2>1, <2>2, <2>7 DEF Tracked
    <3>4. Announces(t, id, m_torrents[<<t, f>>].announced)
      BY <2>1, <2>3, <2>7 DEF Announces
    <3>5. \A x \in Forms \ {f} : m_torrents'[<<t, x>>] = None
      <4> SUFFICES ASSUME NEW x \in Forms \ {f} PROVE m_torrents'[<<t, x>>] = None
        OBVIOUS
      <4>1. m_torrents[<<t, x>>] = None
        BY <3>1, <3>3 DEF EntryOf, Tracked
      <4>2. <<t, x>> \in Keys \ {c}
        BY KeyParts
      <4> QED BY <2>2, <4>1, <4>2
    <3> QED BY <1>1, <1>3, <2>5, <3>1, <3>2, <3>3, <3>4, <3>5, AnnouncesMeta
  <2> QED BY <2>6, <2>7
<1> QED BY <1>1, <1>4, <1>5, UpdateCases

-----------------------------------------------------------------------------
(* Adds                                                                      *)

\* An add begins with nothing said of it: what was said of the add before is read.
LEMMA AddMeta ==
    ASSUME IInv, NEW t \in Torrents, NEW form \in Forms, \A f \in Forms : ~Tracked(<<t, f>>),
           NEW e, NEW c, AddedCall(t, form, c), Adds(t, form, e, c),
           UNCHANGED <<lt, alerts, batch, events, removing, lost>>
    PROVE  MetaStays
<1>1. TypeInv /\ Core /\ QueuesAre /\ adds \in [Torrents -> 0..Top] /\ m_torrents \in [Keys -> Maybe(Entries)]
  BY DEF IInv, TypeInv, CountIs, MapIs
<1>2. /\ adds' = [adds EXCEPT ![t] = @ + 1] /\ m_torrents' = [m_torrents EXCEPT ![<<t, form>>] = e] /\ calls' = Append(calls, c)
      /\ c \in CallMsgs /\ c.op = "add" /\ c.t = t
  BY DEF Adds, AddedCall, AddCalls
<1>3. Waiting' = Waiting
  BY DEF Waiting
<1>4. Items(calls') = Items(calls) \cup {c}
  BY <1>1, <1>2, CallPosted
<1>5. \A u \in Torrents : Follows(Waiting, Waiting', u)
  BY <1>3, FollowsSame
<1>6. adds[t] \in 0..Top /\ Top \in Nat /\ Ids = 1..Top /\ adds'[t] = adds[t] + 1
  BY <1>1, <1>2, IdsAre
<1> SUFFICES ASSUME NEW u \in Torrents, Safe(u), Safe(u)', Meta(u) PROVE Meta(u)'
  BY DEF MetaStays
<1>7. CASE u # t
  <2>1. Items(calls') \cap AddCalls(u) \subseteq Items(calls)
    BY <1>2, <1>4, <1>7 DEF AddCalls
  <2>2. adds'[u] = adds[u] /\ \A f \in Forms : m_torrents'[<<u, f>>] = m_torrents[<<u, f>>]
    BY <1>1, <1>2, <1>7, KeyParts
  <2>3. Live(u)' <=> Live(u)
    BY DEF Live
  <2>4. \A id \in Ids : events'[<<"metadata", u, id>>] = events[<<"metadata", u, id>>]
    OBVIOUS
  <2>5. Steady(u) /\ Recalls(u)
    BY <1>3, <2>1, <2>2, <2>3, <2>4, StillSteady
  <2> QED BY <1>5, <2>5, MetaKept
<1>8. CASE u = t
  <2> DEFINE n == adds[u]
             q == Waiting
  <2>1. ~Live(u)' /\ n \in Nat /\ adds'[u] = n + 1
    <3>1. EntryOf(u)
      BY <1>1 DEF Core, Good, LifeOf
    <3>2. ~Live(u)
      BY <1>8, <3>1 DEF EntryOf
    <3> QED BY <1>6, <1>8, <3>2 DEF Live
  <2>2. Items(q) \cap Listings(u) = {}
    <3>1. CASE Settled(u)'
      <4>1. Settled(u)
        BY <3>1 DEF Settled, Calm
      <4> QED BY <1>8, <4>1 DEF Meta, ListedOf
    <3>2. CASE ~Settled(u)'
      <4>1. n = 0
        BY <2>1, <3>2 DEF Safe
      <4>2. ASSUME NEW a \in Items(q) \cap Listings(u) PROVE FALSE
        <5>1. PICK s \in a.status : s.t = u
          BY DEF Listings
        <5>2. s.id = 0
          BY <4>1, <5>1 DEF Meta, ListedOf
        <5>3. a.status \subseteq Statuses
          BY AlertFields DEF Listings
        <5>4. s.id \in Ids
          BY <5>1, <5>3 DEF Statuses
        <5> QED BY <1>6, <5>2, <5>4
      <4> QED BY <4>2
    <3> QED BY <3>1, <3>2
  <2>3. \A id : id > n => Items(q) \cap MetaAlerts(u, id) = {}
    BY DEF Meta, MetaAlertsOf
  <2>4. ListedOf(u)'
    <3>1. Before(q, Listings(u), Removals(u))
      BY <2>2, BeforeNone
    <3> QED BY <1>3, <2>2, <3>1 DEF ListedOf
  <2>5. ASSUME NEW id, id > n + 1, NEW a \in Items(q) \cap MetaAlerts(u, id) PROVE FALSE
    <3>1. id \in Ids
      BY AlertFields DEF MetaAlerts
    <3>2. id > n
      BY <1>6, <2>1, <2>5, <3>1
    <3> QED BY <2>3, <2>5, <3>2
  <2>6. MetaAlertsOf(u)'
    <3>1. Items(q) \cap MetaAlerts(u, n + 1) = {}
      <4>1. n + 1 > n
        BY <2>1
      <4> QED BY <2>3, <4>1
    <3>2. Before(q, AddAlerts(u), MetaAlerts(u, n + 1))
      BY <3>1, BeforeNone
    <3>3. \A id : id > n + 1 => Items(q) \cap MetaAlerts(u, id) = {}
      BY <2>5
    <3> QED BY <1>3, <2>1, <3>1, <3>2, <3>3 DEF MetaAlertsOf
  <2>7. AnsweredOf(u)'
    BY <2>1 DEF AnsweredOf
  <2>8. AnnouncedOf(u)'
    <3>1. AnnouncedOf(u) /\ UNCHANGED <<events, lost>>
      BY DEF Meta
    <3>2. \A id \in Ids : id \in Nat /\ (id > n + 1 => id > n) /\ (id = n + 1 => id > n)
      BY <1>6, <2>1
    <3>3. \A id \in Ids : id > n => events[<<"metadata", u, id>>] = 0
      BY <3>1 DEF AnnouncedOf
    <3>4. \A id \in Ids : <<"add", u, id>> \notin lost => events[<<"metadata", u, id>>] <= 1
      BY <3>1 DEF AnnouncedOf
    <3> QED BY <2>1, <3>1, <3>2, <3>3, <3>4 DEF AnnouncedOf
  <2> QED BY <2>4, <2>6, <2>7, <2>8 DEF Meta
<1> QED BY <1>7, <1>8

\* A user adds a torrent.
LEMMA UserAddMeta ==
    ASSUME IInv, NEW t \in Torrents, UserAdd(t)
    PROVE  MetaStays
<1>1. adds[t] < MaxAdds /\ UNCHANGED <<lt, alerts, batch, events, removing, lost>>
  BY DEF UserAdd, ioVars
<1>2. PICK src \in {<<"half", FALSE>>, <<"full", TRUE>>, <<"full", FALSE>>} : Add(t, src[1], src[2], 0, 0, "Adding") /\ adds' # adds
  BY DEF UserAdd
<1>3. src[1] \in Forms /\ src[2] \in BOOLEAN
  <2>1. CASE src = <<"half", FALSE>>
    BY <2>1 DEF Forms
  <2>2. CASE src = <<"full", TRUE>>
    BY <2>2 DEF Forms
  <2>3. CASE src = <<"full", FALSE>>
    BY <2>3 DEF Forms
  <2> QED BY <2>1, <2>2, <2>3
<1>4. \A f \in Forms : ~Tracked(<<t, f>>)
  BY <1>2 DEF Add
<1>5. adds[t] \in 0..Top /\ Top \in Nat /\ MaxAdds \in Nat /\ MaxAdds <= Top /\ Ids = 1..Top /\ MaxChanges \in Nat
  BY IdsAre DEF IInv, TypeInv, CountIs
<1>6. adds[t] + 1 \in Ids /\ 0 \in 0..MaxChanges
  BY <1>1, <1>5
<1>7. 0 \in Maybe(0..MaxChanges)
  BY <1>6 DEF Maybe
<1>8. PICK form \in Forms, meta \in BOOLEAN : Add(t, form, meta, 0, 0, "Adding")
  BY <1>2, <1>3
<1>9. PICK e, c : AddedEntry(t, form, "Adding", e) /\ AddedCall(t, form, c) /\ Adds(t, form, e, c)
  BY <1>4, <1>6, <1>7, <1>8, AddIs
<1> QED BY <1>1, <1>4, <1>9, AddMeta

\* The load job adds a row.
LEMMA LoadRowMeta ==
    ASSUME IInv, NEW t \in Torrents, LoadRow(t)
    PROVE  MetaStays
<1>1. t \in toLoad /\ UNCHANGED <<lt, alerts, batch, events, removing, lost>>
  BY DEF LoadRow
<1>2. TypeInv /\ toLoad # None /\ adds \in [Torrents -> 0..Top] /\ adds[t] <= MaxAdds /\ StoredForms # {} /\ TableIs(rows)
  BY <1>1 DEF IInv, TypeInv, CountIs, LoadRow
<1>3. CASE UNCHANGED <<m_torrents, calls, adds>>
  <2>1. SessionStill /\ Waiting' = Waiting
    BY <1>1, <1>3 DEF SessionStill, Waiting
  <2> QED BY <1>2, <1>3, <2>1, StillMeta
<1>4. CASE ~UNCHANGED <<m_torrents, calls, adds>>
  <2> DEFINE form == IF rows[t].info = None THEN rows[t].key ELSE rows[t].info
             meta == rows[t].info # None
             cfg == rows[t].cfg
             pos == rows[t].pos
  <2>1. rows[t] # None /\ Add(t, form, meta, cfg, pos, "Loading")
    BY <1>4 DEF LoadRow
  <2>2. form \in Forms /\ cfg \in Maybe(0..MaxChanges) /\ pos \in 0..MaxChanges /\ meta \in BOOLEAN
    BY <1>2, <2>1, RowFields DEF Maybe
  <2> HIDE DEF form, meta, cfg, pos
  <2>3. \A f \in Forms : ~Tracked(<<t, f>>)
    BY <1>4, <2>1 DEF Add
  <2>4. adds[t] + 1 \in Ids
    BY <1>2, IdsAre
  <2>5. PICK e, c : AddedEntry(t, form, "Loading", e) /\ AddedCall(t, form, c) /\ Adds(t, form, e, c)
    BY <2>1, <2>2, <2>3, <2>4, AddIs
  <2> QED BY <1>1, <2>2, <2>3, <2>5, AddMeta
<1> QED BY <1>3, <1>4

-----------------------------------------------------------------------------
(* The reconcile                                                             *)

\* A reconciled torrent has a current entry that remembers what was announced.
LEMMA ReconciledMeta ==
    ASSUME IInv, NEW t \in Torrents, NEW id \in Ids, NEW f \in Forms, ReconcileNext(<<t, id>>, <<t, f>>),
           \A u \in Torrents : MetaEventsSame(u),
           \A q \in Keys : q[1] # t => m_torrents'[q] = m_torrents[q],
           Good(t) => \/ UNCHANGED m_torrents
                      \/ \E g \in Forms : /\ Tracked(<<t, g>>) /\ Settles(t, f, m_torrents[<<t, g>>])
                                          /\ m_torrents[<<t, g>>].announced => m_torrents'[<<t, f>>].announced
    PROVE  MetaStays
<1>1. TypeInv /\ Core /\ QueuesAre
  BY DEF IInv, TypeInv
<1>2. UNCHANGED <<lt, calls, alerts, batch, adds, lost, removing>>
  BY DEF ReconcileNext, ltVars
<1>3. SessionKept
  BY <1>1, <1>2, SavesKept DEF SessionKept
<1>4. Waiting' = Waiting
  BY <1>2 DEF Waiting
<1>5. \A u : Follows(Waiting, Waiting', u)
  BY <1>4, FollowsSame
<1> SUFFICES ASSUME NEW u \in Torrents, Safe(u), Meta(u) PROVE Meta(u)'
  BY DEF MetaStays
<1>6. CASE u # t
  <2>1. MapSame(u) /\ Recorded(u)
    BY <1>6, BesideRecorded
  <2> QED BY <1>3, <1>4, <1>5, <2>1, TakenMeta
<1>7. CASE u = t
  <2>1. Good(t)
    BY <1>1, <1>7 DEF Core
  <2>2. CASE UNCHANGED m_torrents
    <3>1. MapSame(u) /\ Recorded(u)
      BY <2>2, MapBeside DEF Recorded
    <3> QED BY <1>3, <1>4, <1>5, <3>1, TakenMeta
  <2>3. ASSUME NEW g \in Forms, Tracked(<<t, g>>), Settles(t, f, m_torrents[<<t, g>>]),
               m_torrents[<<t, g>>].announced => m_torrents'[<<t, f>>].announced
        PROVE  Meta(u)'
    BY <1>3, <1>5, <1>7, <2>3, SettledMeta
  <2> QED BY <2>1, <2>2, <2>3
<1> QED BY <1>6, <1>7

\* It was current already.
LEMMA ReconcileCurrentMeta ==
    ASSUME IInv, NEW t \in Torrents, NEW id \in Ids, NEW f \in Forms, ReconcileCurrent(<<t, id>>, <<t, f>>)
    PROVE  MetaStays
<1>1. ReconcileNext(<<t, id>>, <<t, f>>) /\ UNCHANGED <<m_torrents, events>>
  BY DEF ReconcileCurrent
<1>2. \A u \in Torrents : MetaEventsSame(u)
  BY <1>1 DEF MetaEventsSame
<1> QED BY <1>1, <1>2, ReconciledMeta

\* Its hash had changed.
LEMMA ReconcileRehashedMeta ==
    ASSUME IInv, NEW t \in Torrents, NEW id \in Ids, NEW f \in Forms, ReconcileRehashed(<<t, id>>, <<t, f>>)
    PROVE  MetaStays
<1> DEFINE map == ReconciledMap(<<t, id>>, <<t, f>>)
<1>1. /\ ReconcileNext(<<t, id>>, <<t, f>>) /\ map[<<t, f>>] # None /\ map[<<t, f>>].state = "Current"
      /\ m_torrents' = MarkSaved(map, <<t, f>>, lt[t].meta)
      /\ UNCHANGED events
  BY DEF ReconcileRehashed, ReconciledState, MarkSaved
<1>2. TypeInv /\ MapIs(m_torrents) /\ DirtyIs(m_dirty) /\ LtIs(lt)
  BY DEF IInv, TypeInv
<1>3. lt[t] # None
  BY <1>1, NextIs
<1>4. MapIs(map)
  BY <1>2, ReconciledIs
<1>5. PICK b \in BOOLEAN : b = lt[t].meta
  BY <1>2, <1>3, LtFields
<1> DEFINE k == <<t, f>>
           y == MarkSaved(map, k, b)
<1>6. k \in Keys /\ m_torrents' = y /\ map[k] # None /\ map[k].state = "Current"
  BY <1>1, <1>5, KeyParts
<1>7. map[k].handle = TRUE
  <2>1. map[k].handle \in BOOLEAN /\ map[k].handle
    BY <1>4, <1>6, EntryFields
  <2> QED BY <2>1
<1> HIDE DEF k, map
<1>8. \A q \in Keys \ {k} : y[q] = map[q]
  BY ONLY <1>4, <1>6, b \in BOOLEAN, MarkSavedIs
<1>9. y[k] # None /\ y[k].id = map[k].id /\ y[k].state = map[k].state /\ y[k].handle = map[k].handle /\ y[k].announced = map[k].announced
  BY ONLY <1>4, <1>6, b \in BOOLEAN, MarkSavedIs
<1> HIDE DEF y
<1>10. /\ \A q \in Keys : q[1] # t => m_torrents'[q] = m_torrents[q]
       /\ Good(t) => \E g \in Forms : Tracked(<<t, g>>) /\ map[<<t, f>>] = m_torrents[<<t, g>>] /\ Settles(t, f, m_torrents[<<t, g>>])
  <2>1. /\ \A q \in Keys \ {k} : m_torrents'[q] = map[q]
        /\ m_torrents'[k] # None /\ m_torrents'[k].id = map[k].id
        /\ m_torrents'[k].state = "Current" /\ m_torrents'[k].handle = TRUE
    BY <1>6, <1>7, <1>8, <1>9
  <2> QED BY <1>1, <2>1, ReconciledSettles DEF k, map
<1>11. m_torrents'[<<t, f>>].announced = map[<<t, f>>].announced
  BY <1>6, <1>9 DEF k
<1>12. Good(t) => \E g \in Forms : /\ Tracked(<<t, g>>) /\ Settles(t, f, m_torrents[<<t, g>>])
                                   /\ m_torrents[<<t, g>>].announced => m_torrents'[<<t, f>>].announced
  BY <1>10, <1>11
<1>13. \A u \in Torrents : MetaEventsSame(u)
  BY <1>1 DEF MetaEventsSame
<1> QED BY <1>1, <1>10, <1>12, <1>13, ReconciledMeta

\* An entry that the reconcile promotes.
LEMMA ReconcilePromotesMeta ==
    ASSUME IInv, NEW t \in Torrents, NEW id \in Ids, NEW f \in Forms, ReconcileNext(<<t, id>>, <<t, f>>),
           ReconciledMap(<<t, id>>, <<t, f>>)[<<t, f>>] # None,
           m_torrents' = Promote(ReconciledMap(<<t, id>>, <<t, f>>), <<t, f>>, "Current"),
           \A u \in Torrents : MetaEventsSame(u)
    PROVE  MetaStays
<1>1. TypeInv /\ MapIs(m_torrents) /\ DirtyIs(m_dirty)
  BY DEF IInv, TypeInv
<1> DEFINE map == ReconciledMap(<<t, id>>, <<t, f>>)
           k == <<t, f>>
           y == Promote(map, k, "Current")
<1>2. MapIs(map)
  BY <1>1, ReconciledIs
<1>3. k \in Keys /\ m_torrents' = y /\ map[k] # None /\ "Current" \in {"Adding", "Current"}
  BY KeyParts
<1> HIDE DEF k, map
<1>4. \A q \in Keys \ {k} : y[q] = map[q]
  BY ONLY <1>2, <1>3, PromotedBeside
<1>5. y[k] # None
  BY ONLY <1>2, <1>3, MapPromoted
<1>6. y[k].id = map[k].id /\ y[k].state = "Current"
  BY ONLY <1>2, <1>3, MapPromoted
<1>7. y[k].handle = TRUE /\ y[k].announced = map[k].announced
  BY ONLY <1>2, <1>3, MapPromoted
<1> HIDE DEF y
<1>8. /\ \A q \in Keys \ {k} : m_torrents'[q] = map[q]
      /\ m_torrents'[k] # None /\ m_torrents'[k].id = map[k].id /\ m_torrents'[k].state = "Current" /\ m_torrents'[k].handle = TRUE
  BY <1>3, <1>4, <1>5, <1>6, <1>7
<1>9. /\ \A q \in Keys : q[1] # t => m_torrents'[q] = m_torrents[q]
      /\ Good(t) => \E g \in Forms : Tracked(<<t, g>>) /\ map[<<t, f>>] = m_torrents[<<t, g>>] /\ Settles(t, f, m_torrents[<<t, g>>])
  BY <1>8, ReconciledSettles DEF k, map
<1>10. m_torrents'[<<t, f>>].announced = map[<<t, f>>].announced
  BY <1>3, <1>7 DEF k
<1>11. Good(t) => \E g \in Forms : /\ Tracked(<<t, g>>) /\ Settles(t, f, m_torrents[<<t, g>>])
                                   /\ m_torrents[<<t, g>>].announced => m_torrents'[<<t, f>>].announced
  BY <1>9, <1>10
<1> QED BY <1>9, <1>11, ReconciledMeta

\* Its add alert was lost.
LEMMA ReconcileLoadedMeta ==
    ASSUME IInv, NEW t \in Torrents, NEW id \in Ids, NEW f \in Forms, ReconcileLoaded(<<t, id>>, <<t, f>>)
    PROVE  MetaStays
<1>1. /\ ReconcileNext(<<t, id>>, <<t, f>>) /\ ReconciledMap(<<t, id>>, <<t, f>>)[<<t, f>>] # None
      /\ m_torrents' = Promote(ReconciledMap(<<t, id>>, <<t, f>>), <<t, f>>, "Current") /\ UNCHANGED events
  BY DEF ReconcileLoaded, ReconciledState, Promote
<1>2. \A u \in Torrents : MetaEventsSame(u)
  BY <1>1 DEF MetaEventsSame
<1> QED BY <1>1, <1>2, ReconcilePromotesMeta

\* So was that of a new torrent.
LEMMA ReconcileAddMeta ==
    ASSUME IInv, NEW t \in Torrents, NEW id \in Ids, NEW f \in Forms, ReconcileAdd(<<t, id>>, <<t, f>>)
    PROVE  MetaStays
<1> DEFINE map == ReconciledMap(<<t, id>>, <<t, f>>)
           k == <<t, f>>
<1>1. ReconcileNext(<<t, id>>, <<t, f>>) /\ Publish("added", t, id) /\ m_torrents' = ReconciledAdd(<<t, id>>, k)
  BY DEF ReconcileAdd
<1>2. TypeInv /\ MapIs(m_torrents) /\ DirtyIs(m_dirty) /\ EventsAre(events) /\ k \in Keys
  BY KeyParts DEF IInv, TypeInv
<1>3. \A u \in Torrents : MetaEventsSame(u)
  <2>1. "added" \in EventNames \ {"metadata"}
    BY DEF EventNames
  <2> QED BY <1>1, <1>2, <2>1, OtherEvents
<1>4. MapIs(map)
  BY <1>2, ReconciledIs
<1>5. CASE map[k] = None
  <2>1. \A q \in Keys : q[1] # t => m_torrents'[q] = m_torrents[q]
    <3>1. ReconciledState(<<t, id>>, k) = "none"
      BY <1>5 DEF ReconciledState
    <3>2. PICK e : m_torrents' = [m_torrents EXCEPT ![k] = e]
      BY <1>1, <3>1 DEF ReconciledAdd
    <3> QED BY <1>2, <3>2 DEF MapIs
  <2>2. ~Good(t)
    <3> SUFFICES ASSUME Good(t) PROVE FALSE
      OBVIOUS
    <3>1. PICK g \in Forms : Tracked(<<t, g>>)
      BY <1>1, NextIs
    <3>2. Alone(t, g) /\ m_torrents[<<t, g>>].id = id
      BY <1>1, <3>1, NextIs
    <3>3. map[<<t, f>>] = m_torrents[<<t, g>>]
      BY <1>2, <3>1, <3>2, ReconciledIs
    <3> QED BY <1>5, <3>1, <3>3 DEF Tracked
  <2> QED BY <1>1, <1>3, <2>1, <2>2, ReconciledMeta
<1>6. CASE map[k] # None
  <2>1. map[k].state \in {"Adding", "Loading", "Current"}
    BY <1>2, <1>4, <1>6, EntryFields
  <2>2. ReconciledState(<<t, id>>, k) # "none"
    BY <1>6, <2>1 DEF ReconciledState
  <2>3. m_torrents' = Promote(map, k, "Current")
    BY <1>1, <2>2 DEF ReconciledAdd, Promote
  <2> QED BY <1>1, <1>3, <1>6, <2>3, ReconcilePromotesMeta
<1> QED BY <1>5, <1>6

\* The next torrent of the list.
LEMMA ReconcileTorrentMeta ==
    ASSUME IInv, ReconcileTorrent
    PROVE  MetaStays
<1>1. PICK h \in handles, k \in Keys : \/ ReconcileCurrent(h, k) \/ ReconcileRehashed(h, k)
                                       \/ ReconcileLoaded(h, k) \/ ReconcileAdd(h, k)
  BY DEF ReconcileTorrent
<1>2. ReconcileNext(h, k)
  BY <1>1 DEF ReconcileCurrent, ReconcileRehashed, ReconcileLoaded, ReconcileAdd
<1>3. PICK t \in Torrents, id \in Ids : h = <<t, id>>
  BY DEF IInv, TypeInv
<1>4. PICK f \in Forms : k = <<t, f>>
  BY <1>2, <1>3, KeyParts DEF ReconcileNext
<1>5. \/ ReconcileCurrent(<<t, id>>, <<t, f>>) \/ ReconcileRehashed(<<t, id>>, <<t, f>>)
      \/ ReconcileLoaded(<<t, id>>, <<t, f>>) \/ ReconcileAdd(<<t, id>>, <<t, f>>)
  BY <1>1, <1>3, <1>4
<1> QED BY <1>5, ReconcileCurrentMeta, ReconcileRehashedMeta, ReconcileLoadedMeta, ReconcileAddMeta

\* The entries that go together are those of other torrents, or t is gone and its last
\* status was handled.
LEMMA UntrackAllMeta ==
    ASSUME TypeInv, NEW keys \in SUBSET Keys, UntrackAll(keys),
           UNCHANGED <<lt, adds, removing, lost, alerts, batch>>,
           NEW t \in Torrents, Items(calls') \cap AddCalls(t) \subseteq Items(calls), Meta(t),
           \/ \A f \in Forms : <<t, f>> \notin keys
           \/ ~Live(t) /\ (Items(Waiting) \cap Listings(t) = {} \/ ~Settled(t))
    PROVE  Meta(t)'
<1>1. Waiting' = Waiting
  BY DEF Waiting
<1>2. Follows(Waiting, Waiting', t)
  BY <1>1, FollowsSame
<1>3. (Live(t)' <=> Live(t)) /\ (Settled(t)' <=> Settled(t))
  BY DEF Live, Settled, Calm
<1>4. \A f \in Forms : m_torrents'[<<t, f>>] = None \/ m_torrents'[<<t, f>>] = m_torrents[<<t, f>>]
  BY UntrackAllIs, KeyParts
<1>5. \A id \in Ids : events'[<<"metadata", t, id>>] = events[<<"metadata", t, id>>]
  <2> TAKE id \in Ids
  <2>1. <<"metadata", t, id>> \in DOMAIN events
    BY DEF TypeInv, EventsAre, EventNames
  <2>2. events' = [e \in DOMAIN events |->
            IF \E k \in keys : Current(k) /\ e = <<"removed", k[1], m_torrents[k].id>>
            THEN events[e] + 1 ELSE events[e]]
    BY DEF UntrackAll
  <2>3. ~\E k \in keys : Current(k) /\ <<"metadata", t, id>> = <<"removed", k[1], m_torrents[k].id>>
    OBVIOUS
  <2> QED BY <2>1, <2>2, <2>3
<1>6. CASE \A f \in Forms : <<t, f>> \notin keys
  <2>1. \A f \in Forms : m_torrents'[<<t, f>>] = m_torrents[<<t, f>>]
    BY <1>6, UntrackAllIs, KeyParts
  <2>2. Items(Waiting) \cap AddAlerts(t) \subseteq Items(Waiting')
    BY <1>1
  <2>3. Steady(t) /\ Recalls(t)
    BY <1>3, <1>5, <2>1, <2>2, StillSteady
  <2> QED BY <1>2, <2>3, MetaKept
<1>7. CASE ~Live(t) /\ (Items(Waiting) \cap Listings(t) = {} \/ ~Settled(t))
  <2>1. Steady(t)
    BY <1>3, <1>7 DEF Steady
  <2>2. \A f \in Forms : Tracked(<<t, f>>)' => Tracked(<<t, f>>) /\ m_torrents'[<<t, f>>] = m_torrents[<<t, f>>]
    BY <1>4 DEF Tracked
  <2>3. Recalls(t)
    BY <1>5, <2>2 DEF Recalls
  <2> QED BY <1>2, <2>1, <2>3, MetaKept
<1> QED BY <1>6, <1>7

\* ReconcileGone: no status waits, and a torrent of the session was seen.
LEMMA ReconcileGoneMeta ==
    ASSUME IInv, ReconcileGone
    PROVE  MetaStays
<1>1. /\ pc = "reconcile" /\ handles = {} /\ UntrackAll(Gone)
      /\ calls' = Append(calls, [op |-> "updates"]) \/ calls' = calls
      /\ UNCHANGED <<lt, adds, removing, lost, alerts, batch>>
  BY DEF ReconcileGone, PostUpdates
<1>2. /\ TypeInv /\ Core /\ QueuesAre /\ batch = <<>> /\ HandlesOK /\ QuietOK
      /\ Reconciling /\ Quiet
  BY <1>1 DEF IInv, TypeInv, Reconciling, Quiet
<1>3. PICK keys \in SUBSET Keys : keys = Gone
  BY DEF Gone
<1>4. UntrackAll(keys)
  BY <1>1, <1>3
<1>5. \A t \in Torrents : Items(calls') \cap AddCalls(t) \subseteq Items(calls)
  <2>1. CASE calls' = calls
    BY <2>1
  <2>2. CASE calls' = Append(calls, [op |-> "updates"])
    <3> DEFINE c == [op |-> "updates"]
    <3>1. c \in CallMsgs /\ c.op = "updates" /\ calls' = Append(calls, c)
      BY <2>2, UpdatesCall
    <3> HIDE DEF c
    <3>2. calls \in Seq(CallMsgs)
      BY <1>2 DEF QueuesAre
    <3>3. Items(calls') = Items(calls) \cup {c}
      BY <3>1, <3>2, AppendItems
    <3>4. \A t \in Torrents : c \notin AddCalls(t)
      BY <3>1 DEF AddCalls
    <3> QED BY <3>3, <3>4
  <2> QED BY <1>1, <2>1, <2>2
<1>6. \A t \in Torrents : Items(Waiting) \cap Listings(t) = {}
  <2>1. Items(Waiting) = Items(batch) \cup Items(alerts)
    BY <1>2, WaitingIs
  <2>2. Items(Waiting) \subseteq QuietAlerts
    BY <1>2, <2>1, NoItems DEF QuietOK
  <2> QED BY <2>2 DEF QuietAlerts, Listings
<1> SUFFICES ASSUME NEW t \in Torrents, Safe(t), Meta(t) PROVE Meta(t)'
  BY DEF MetaStays
<1>7. CASE ~Live(t)
  BY <1>1, <1>2, <1>4, <1>5, <1>6, <1>7, UntrackAllMeta
<1>8. CASE Live(t)
  <2>1. \A f \in Forms : Tracked(<<t, f>>) => <<t, f>> \in seen
    BY <1>1, <1>2, <1>8 DEF HandlesOK, Live
  <2>2. \A f \in Forms : <<t, f>> \notin keys
    BY <1>3, <2>1 DEF Gone
  <2> QED BY <1>1, <1>2, <1>4, <1>5, <2>2, UntrackAllMeta
<1> QED BY <1>7, <1>8

\* SaveStateUntrack: the entry of a removed torrent goes, after which it is settled no more.
LEMMA SaveStateUntrackMeta ==
    ASSUME IInv, SaveStateUntrack
    PROVE  MetaStays
<1>1. /\ "saveState" \in Ops /\ UntrackAll(Orphans)
      /\ UNCHANGED <<lt, calls, adds, removing, lost, alerts, batch>>
  BY DEF SaveStateUntrack, ltVars
<1>2. TypeInv /\ Core
  BY DEF IInv
<1>3. PICK keys \in SUBSET Keys : keys = Orphans
  BY DEF Orphans
<1>4. UntrackAll(keys)
  BY <1>1, <1>3
<1> SUFFICES ASSUME NEW t \in Torrents, Safe(t), Meta(t) PROVE Meta(t)'
  BY DEF MetaStays
<1>5. EntryOf(t)
  BY <1>2 DEF Core, Good, LifeOf
<1>6. Items(calls') \cap AddCalls(t) \subseteq Items(calls)
  BY <1>1
<1>7. ASSUME NEW f \in Forms, <<t, f>> \in keys PROVE ~Live(t) /\ ~Settled(t)
  <2>1. Current(<<t, f>>) /\ ~Valid(t, m_torrents[<<t, f>>].id)
    BY <1>3, <1>7 DEF Orphans
  <2>2. Tracked(<<t, f>>) /\ m_torrents[<<t, f>>].id = adds[t]
    BY <1>5, <2>1 DEF EntryOf, Current
  <2>3. ~Live(t)
    BY <1>5, <2>1, <2>2 DEF EntryOf, Valid, Live
  <2>4. m_torrents[<<t, f>>].id \in Ids
    BY <1>2, <2>2, EntryFields, KeyParts DEF TypeInv, Tracked
  <2>5. adds[t] \in Ids /\ <<t, adds[t]>> \in removing
    BY <1>5, <2>1, <2>2, <2>3, <2>4 DEF EntryOf
  <2> QED BY <1>1, <2>3, <2>5 DEF Settled, Calm
<1> QED BY <1>1, <1>2, <1>4, <1>6, <1>7, UntrackAllMeta

-----------------------------------------------------------------------------
(* The metadata is announced once                                            *)

\* What every step keeps, one case per action.
LEMMA NextMeta ==
    ASSUME IInv, [Next]_vars
    PROVE  MetaStays
<1>1. CASE LtStep \/ \E t \in Torrents : LtMetadata(t)
  BY <1>1, LtAddMeta, LtAddFailsMeta, LtRemoveMeta, LtOtherMeta, LtPostUpdatesMeta, LtMetadataMeta DEF LtStep
<1>2. CASE ProcessAlert
  BY <1>2, OnAddFailedMeta, OnAddMeta, OnRemovedMeta, OnMetadataMeta, OnSavedMeta, OnNotSavedMeta,
     OnUpdateMeta DEF ProcessAlert
<1>3. CASE ReadAlerts \/ CommitAlerts
  BY <1>3, ReadsMeta, QuietMeta
<1>4. CASE Load
  BY <1>4, ReadsMeta, LoadRowMeta, PostUpdatesMeta DEF Load
<1>5. CASE Reconcile
  BY <1>5, ReadsMeta, ReconcileTorrentMeta, ReconcileGoneMeta DEF Reconcile
<1>6. CASE SaveDirty \/ SaveStateUntrack \/ SaveStateSave \/ PostTorrentUpdates
  BY <1>6, QuietMeta, SaveStateUntrackMeta, PostUpdatesMeta
<1>7. CASE Stopping
  BY <1>7, QuietMeta, ReadsMeta, OnSavedMeta DEF Stopping
<1>8. CASE Stop
  BY <1>8, ReadsMeta
<1>9. CASE Requests
  <2>1. ASSUME NEW k \in Keys, NEW op \in {"configure", "queue"} \cap Ops, UserChange(k, op) PROVE MetaStays
    BY <2>1, UserChangeMeta
  <2> QED BY <1>9, <2>1, UserAddMeta, UserRemoveMeta DEF Requests
<1>10. CASE UNCHANGED vars
  BY <1>10, QuietMeta
<1> QED BY <1>1, <1>2, <1>3, <1>4, <1>5, <1>6, <1>7, <1>8, <1>9, <1>10 DEF Next, IoThread

\* The invariant of the metadata.
MetaInv == \A t \in Torrents : Safe(t) => Meta(t)

\* Nothing waits and nothing was published.
LEMMA MetaInit == Init => MetaInv
<1> SUFFICES ASSUME Init, NEW t \in Torrents PROVE Meta(t)
  BY DEF MetaInv
<1>1. IInv
  BY InitHolds
<1>2. Items(Waiting) = {}
  <2>1. Items(Waiting) = Items(batch) \cup Items(alerts)
    BY <1>1, WaitingIs DEF IInv, TypeInv
  <2> QED BY <2>1, NoItems DEF Init
<1>3. ListedOf(t) /\ MetaAlertsOf(t)
  BY <1>2, BeforeNone DEF ListedOf, MetaAlertsOf
<1>4. ~Live(t)
  BY DEF Init, Live
<1>5. \A id \in Ids : events[<<"metadata", t, id>>] = 0
  BY DEF Init, EventNames
<1> QED BY <1>3, <1>4, <1>5 DEF Meta, AnsweredOf, AnnouncedOf

\* Every step keeps it.
LEMMA MetaStep == IInv /\ MetaInv /\ [Next]_vars => MetaInv'
<1> SUFFICES ASSUME IInv, MetaInv, [Next]_vars, NEW t \in Torrents, Safe(t)' PROVE Meta(t)'
  BY DEF MetaInv
<1>1. StepOK
  BY NextKeeps DEF Keeps
<1>2. Safe(t)
  BY <1>1 DEF StepOK
<1> QED BY <1>2, NextMeta DEF MetaInv, MetaStays

\* The statuses and metadata alerts that wait are of the last add, in order, and the
\* entry remembers what was announced of it.
THEOREM MetaInductive == Spec => []MetaInv
<1> QED BY MetaInit, MetaStep, Inductive, PTL DEF Spec

\* The events match the alerts: an add, its metadata and its removal are published once,
\* whether a metadata alert, a state update or the reconcile is first to tell of them.
THEOREM EventsAreRight == Spec => [](NotAddedAgain => EventsMatch)
<1>1. ASSUME MetaInv, NotAddedAgain PROVE MetadataOnce
  <2>1. \A t \in Torrents : AnnouncedOf(t)
    BY <1>1 DEF MetaInv, Meta, NotAddedAgain, Safe, Settled
  <2> QED BY <2>1 DEF AnnouncedOf, MetadataOnce
<1>2. TypeOK /\ AddedOnce /\ RemovedMatches /\ AddAlertIsLive /\ MetadataOnce => EventsMatch
  BY DEF EventsMatch
<1> QED BY <1>1, <1>2, SessionIsTyped, LifeEventsMatch, MetaInductive, PTL
=============================================================================
