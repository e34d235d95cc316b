------------------------------- MODULE Queries -------------------------------
(***************************************************************************)
(* Queries for torrents: the filters of the query language                  *)
(* (src/query/pql.cpp), its limit on nesting, and the filters, the order    *)
(* and the pages of torrents.list and the sums of torrents.count            *)
(* (src/rpc/methods/torrents.cpp, src/fields.cpp).                          *)
(*                                                                         *)
(* The matcher for globs and the scan for nesting are loops, and are steps  *)
(* here.  What the rest computes is stated as operators over all bounded    *)
(* inputs, which Init enumerates: question says which of them a behaviour   *)
(* is about.                                                                *)
(***************************************************************************)
EXTENDS Integers, FiniteSets, Sequences, SequencesExt

CONSTANTS
    Letters,       \* the characters of texts; patterns have "*" too
    MaxText,       \* bound on the length of texts and patterns
    MaxQueryDepth, \* kMaxQueryDepth
    MaxNumber,     \* bound on the numbers that are compared
    Listed,        \* the torrents of a session, as numbers that order their hashes
    PageSizes

ASSUME QueriesAssumption ==
    /\ MaxText \in Nat /\ MaxQueryDepth \in Nat \ {0} /\ MaxNumber \in Nat
    /\ Listed \subseteq Nat /\ PageSizes \subseteq Nat \ {0} /\ "*" \notin Letters

VARIABLES
    question,  \* "glob", "nest", "number", "flags", "list" or "status"
    glob,      \* GlobMatch: pattern, text, its indices from 0, and the result
    nest,      \* CheckDepth: its counters, and the parser's recursion at this token
    ask        \* the inputs of the other questions

queryVars == <<question, glob, nest, ask>>

-----------------------------------------------------------------------------
(* Globs                                                                      *)

NoValue == -1

At(s, i, c) == i < Len(s) /\ s[i + 1] = c

\* The iterations of GlobMatch, in the order of their conditions.
GlobStar(g) == At(g.pattern, g.p, "*")
GlobSame(g) == ~GlobStar(g) /\ g.p < Len(g.pattern) /\ g.pattern[g.p + 1] = g.text[g.t + 1]

\* Mutant: after a mismatch the text goes on where it is.
BugGlobBack(g) == [g EXCEPT !.p = g.star + 1, !.t = g.t + 1, !.mark = g.t + 1]

\* A mismatch: the last star takes one more character.
GlobBack(g) == [g EXCEPT !.p = g.star + 1, !.t = g.mark + 1, !.mark = g.mark + 1]

GlobIteration(g) ==
    IF GlobStar(g) THEN [g EXCEPT !.star = g.p, !.p = g.p + 1, !.mark = g.t]
    ELSE IF GlobSame(g) THEN [g EXCEPT !.p = g.p + 1, !.t = g.t + 1]
    ELSE IF g.star # NoValue THEN GlobBack(g)
    ELSE [g EXCEPT !.result = "no"]

\* The text is used up: the rest of the pattern is stars.
GlobEnd(g) ==
    [g EXCEPT !.result = IF \A i \in g.p + 1..Len(g.pattern) : g.pattern[i] = "*" THEN "yes" ELSE "no"]

GlobStep ==
    /\ question = "glob" /\ glob.result = "run"
    /\ glob' = IF glob.t < Len(glob.text) THEN GlobIteration(glob) ELSE GlobEnd(glob)
    /\ UNCHANGED <<question, nest, ask>>

-----------------------------------------------------------------------------
(* Nesting                                                                    *)

TooDeep(n) == n.depth > MaxQueryDepth \/ n.nots > MaxQueryDepth

\* The counters of CheckDepth after a token.
Counted(n, token) ==
    CASE token = "(" -> [n EXCEPT !.depth = @ + 1, !.nots = 0]
      [] token = ")" -> [n EXCEPT !.depth = @ - 1, !.nots = 0]
      [] token = "NOT" -> [n EXCEPT !.nots = @ + 1]
      [] OTHER -> [n EXCEPT !.nots = 0]

\* The grammar (PqlParser.g4): open has, per group that is open, the NOTs that wait for what
\* follows; a ")" too many ends the parser.
Parsed(n, token) ==
    LET now == Len(n.open)
    IN  IF n.broken THEN n ELSE
        CASE token = "(" -> [n EXCEPT !.open = Append(@, 0)]
          [] token = ")" /\ now = 1 -> [n EXCEPT !.broken = TRUE, !.open = <<0>>]
          [] token = ")" /\ now > 1 -> [n EXCEPT !.open = [SubSeq(@, 1, now - 1) EXCEPT ![now - 1] = 0]]
          [] token = "NOT" -> [n EXCEPT !.open[now] = @ + 1]
          [] OTHER -> [n EXCEPT !.open[now] = 0]

\* CheckDepth looks at a token, and the query is refused when it is too deep.
NestStep(token) ==
    /\ question = "nest" /\ ~nest.refused /\ nest.depth > -2
    /\ LET n == Counted(nest, token)
       IN  nest' = IF TooDeep(n) THEN [n EXCEPT !.refused = TRUE] ELSE Parsed(n, token)
    /\ UNCHANGED <<question, glob, ask>>

-----------------------------------------------------------------------------
(* Numbers, dates and flags                                                   *)

Infinity == 10 * (MaxNumber + 1)
Interval(lo, hi, rel, loOpen, hiOpen) == [lo |-> lo, hi |-> hi, rel |-> rel, loOpen |-> loOpen, hiOpen |-> hiOpen]

\* ParseScalar: a number or an absolute time is an interval of absolute bounds, a number with
\* one point and a date with many; a relative time is before now.
Scalars ==
    {Interval(n, n + w, FALSE, FALSE, FALSE) : n \in 0..MaxNumber, w \in {0, 2}}
        \cup {Interval(-n, -n, TRUE, FALSE, FALSE) : n \in 0..MaxNumber}

\* Interval::Contains, where an infinite bound is not relative.
InInterval(iv, v, now) ==
    LET l == IF iv.rel /\ iv.lo # -Infinity THEN now + iv.lo ELSE iv.lo
        h == IF iv.rel /\ iv.hi # Infinity THEN now + iv.hi ELSE iv.hi
    IN  (IF iv.loOpen THEN v > l ELSE v >= l) /\ (IF iv.hiOpen THEN v < h ELSE v <= h)

Greater(s) == Interval(s.hi, Infinity, s.rel, TRUE, FALSE)

\* BuildNumeric: the interval of an operator.
OperInterval(oper, s) ==
    CASE oper = "" /\ s.rel -> Interval(s.lo, Infinity, TRUE, FALSE, FALSE)
      [] oper = "=" \/ (oper = "" /\ ~s.rel) -> s
      [] oper = ">" -> Greater(s)
      [] oper = ">=" -> Interval(s.lo, Infinity, s.rel, FALSE, FALSE)
      [] oper = "<" -> Interval(-Infinity, s.lo, s.rel, FALSE, TRUE)
      [] oper = "<=" -> Interval(-Infinity, s.hi, s.rel, FALSE, FALSE)

\* A torrent that has no value matches no comparison.
Compares(oper, s, v, now) == v # NoValue /\ InInterval(OperInterval(oper, s), v, now)

\* BuildFlags: the flags of a list, some of them negated; one that is named twice is an error.
FlagsMatch(items, flagged) ==
    LET mask == {items[n].flag : n \in DOMAIN items}
        want == {items[n].flag : n \in {k \in DOMAIN items : ~items[k].not}}
    IN  flagged \cap mask = want

FlagsValid(items) == \A m, n \in DOMAIN items : items[m].flag = items[n].flag => m = n

-----------------------------------------------------------------------------
(* torrents.list and torrents.count                                           *)

Loading == {"downloading", "downloading_metadata"}
Seeding == {"finished", "seeding"}
States == Loading \cup Seeding \cup {"checking_files", "checking_resume_data"}
Statuses == {"downloading", "downloading_queued", "error", "finished", "paused", "seeding", "seeding_queued"}

\* The filter status of List; ts has the state of a torrent, its error and two of its flags.
HasStatus(status, ts) ==
    CASE status = "downloading" -> ts.state \in Loading /\ ~ts.paused
      [] status = "downloading_queued" -> ts.state \in Loading /\ ts.managed /\ ts.paused
      [] status = "error" -> ts.errc
      [] status = "finished" -> ts.state \in Seeding /\ ~ts.managed /\ ts.paused
      [] status = "paused" -> ts.state \in Loading /\ ~ts.managed /\ ts.paused
      [] status = "seeding" -> ts.state \in Seeding /\ ~ts.paused
      [] status = "seeding_queued" -> ts.state \in Seeding /\ ts.managed /\ ts.paused

\* The sums of Count that a torrent adds one to.
CountedAs(ts) ==
    {s \in {"downloading"} : ts.state \in Loading /\ ~ts.paused}
        \cup {s \in {"downloading_queued"} : ts.state \in Loading /\ ts.managed /\ ts.paused}
        \cup {s \in {"error"} : ts.errc}
        \cup {s \in {"finished"} : ts.state \in Seeding /\ ~ts.managed /\ ts.paused}
        \cup {s \in {"paused"} : ts.state \in Loading /\ ~ts.managed /\ ts.paused}
        \cup {s \in {"seeding"} : ts.state \in Seeding /\ ~ts.paused}
        \cup {s \in {"seeding_queued"} : ts.state \in Seeding /\ ts.managed /\ ts.paused}

\* Fields::Compare: a missing value is last in both directions.
ComesFirst(a, b, ascending) ==
    IF a = NoValue \/ b = NoValue THEN a # NoValue /\ b = NoValue
    ELSE IF ascending THEN a < b ELSE b < a

\* cmp of List: hashes decide between equal keys.
Before(key, ascending, x, y) ==
    \/ ComesFirst(key[x], key[y], ascending)
    \/ ~ComesFirst(key[x], key[y], ascending) /\ ~ComesFirst(key[y], key[x], ascending) /\ x < y

Sorted(S, key, ascending) ==
    CHOOSE s \in [1..Cardinality(S) -> S] :
        \A m, n \in 1..Cardinality(S) : m < n => Before(key, ascending, s[m], s[n])

Smaller(a, b) == IF a < b THEN a ELSE b

\* The middle of partial_sort.
Middle(end, size) == end

\* What sort, or partial_sort for the pages of the first half, may leave: from the middle on
\* the order is open.  The model takes the sorted order, and its reverse where it is open.
Arranged(S, key, ascending, end, size) ==
    LET s == Sorted(S, key, ascending)
        k == Smaller(Middle(end, size), Len(s))
    IN  IF end >= Len(s) \div 2 THEN s ELSE SubSeq(s, 1, k) \o Reverse(SubSeq(s, k + 1, Len(s)))

\* The torrents of a page, counted from 0.
Page(S, key, ascending, page, size) ==
    LET total == Cardinality(S)
        beg == Smaller(page * size, total)
        end == Smaller(beg + size, total)
    IN  SubSeq(Arranged(S, key, ascending, end, size), beg + 1, end)

-----------------------------------------------------------------------------
Texts(S) == UNION {[1..n -> S] : n \in 0..MaxText}
NoGlob == [pattern |-> <<>>, text |-> <<>>, p |-> 0, t |-> 0, star |-> NoValue, mark |-> 0, result |-> "no"]
Flat == [depth |-> 0, nots |-> 0, open |-> <<0>>, broken |-> FALSE, refused |-> FALSE]

GlobInit ==
    /\ question = "glob" /\ nest = Flat /\ ask = <<>>
    /\ \E p \in Texts(Letters \cup {"*"}), t \in Texts(Letters) :
          glob = [NoGlob EXCEPT !.pattern = p, !.text = t, !.result = "run"]

NumberInit ==
    /\ question = "number" /\ glob = NoGlob /\ nest = Flat
    /\ ask \in [s : Scalars, v : NoValue..MaxNumber, now : 0..MaxNumber]

FlagsQueryInit ==
    /\ question = "flags" /\ glob = NoGlob /\ nest = Flat
    /\ \E n \in 0..2, flagged \in SUBSET {1, 2} :
          \E items \in [1..n -> [flag : {1, 2}, not : BOOLEAN]] : ask = [items |-> items, flagged |-> flagged]

ListInit ==
    /\ question = "list" /\ glob = NoGlob /\ nest = Flat
    /\ \E S \in SUBSET Listed : \E key \in [S -> NoValue..1] :
          ask \in [torrents : {S}, key : {key}, ascending : BOOLEAN, size : PageSizes]

StatusInit ==
    /\ question = "status" /\ glob = NoGlob /\ nest = Flat
    /\ ask \in [state : States, paused : BOOLEAN, managed : BOOLEAN, errc : BOOLEAN]

QueriesInit ==
    \/ GlobInit \/ NumberInit \/ FlagsQueryInit \/ ListInit \/ StatusInit
    \/ question = "nest" /\ glob = NoGlob /\ nest = Flat /\ ask = <<>>

QueriesNext == GlobStep \/ \E token \in {"(", ")", "NOT", "word"} : NestStep(token)

-----------------------------------------------------------------------------
(* Properties                                                                 *)

\* A glob matches a text by definition when the text is the pattern with texts for its stars.
GlobMatches(pattern, text) ==
    LET match[i \in 0..Len(pattern), j \in 0..Len(text)] ==
            IF i = 0 THEN j = 0
            ELSE IF pattern[i] = "*" THEN match[i - 1, j] \/ (j > 0 /\ match[i, j - 1])
            ELSE j > 0 /\ pattern[i] = text[j] /\ match[i - 1, j - 1]
    IN  match[Len(pattern), Len(text)]

\* GlobMatch, which only remembers its last star, finds a match when there is one.
GlobRight == glob.result # "run" /\ question = "glob" => (glob.result = "yes") = GlobMatches(glob.pattern, glob.text)

\* CheckDepth counts groups and runs of NOT apart; together they bound the recursion of the
\* parser and of Build on a query that is not refused.
NestBounded ==
    ~nest.refused =>
        Len(nest.open) - 1 + FoldSeq(LAMBDA a, b : a + b, 0, nest.open)
            <= MaxQueryDepth + (MaxQueryDepth + 1) * MaxQueryDepth

\* BuildNumeric: of a torrent with a value, exactly one of <, = and > is true for a number or
\* a date, <= and >= are their unions, a relative time alone means >=; of one without a value
\* all are false.  BuildFlags: a list of flags that is accepted means all of its items.
FiltersRight ==
    /\ question = "number" =>
          LET Is(oper) == Compares(oper, ask.s, ask.v, ask.now)
          IN  IF ask.v = NoValue THEN \A oper \in {"", "=", "<", "<=", ">", ">="} : ~Is(oper)
              ELSE /\ Is("<=") = ~Is(">") /\ Is(">=") = ~Is("<") /\ ~(Is("<") /\ Is(">"))
                   /\ IF ask.s.rel THEN Is("") = Is(">=") ELSE Is("=") = (~Is("<") /\ ~Is(">")) /\ Is("") = Is("=")
    /\ question = "flags" =>
          (FlagsValid(ask.items) =>
              FlagsMatch(ask.items, ask.flagged) =
                  \A n \in DOMAIN ask.items : (ask.items[n].flag \in ask.flagged) # ask.items[n].not)

\* The pages of List, each of its own request with its own sort, are together the torrents in
\* one order without a gap or a repetition.
PagesAreList ==
    question = "list" =>
        LET all == Sorted(ask.torrents, ask.key, ask.ascending)
        IN  /\ \A page \in 0..Cardinality(ask.torrents) :
                  Page(ask.torrents, ask.key, ask.ascending, page, ask.size) =
                      SubSeq(all, page * ask.size + 1, Smaller((page + 1) * ask.size, Len(all)))
            /\ \A m, n \in DOMAIN all : m < n => ~(ask.key[all[m]] = NoValue /\ ask.key[all[n]] # NoValue)

\* Count and the filter status of List, which spell out the statuses twice, agree, and a torrent
\* that is not being checked has exactly one, besides an error.
CountMatchesList ==
    question = "status" =>
        /\ CountedAs(ask) = {s \in Statuses : HasStatus(s, ask)}
        /\ ask.state \in Loading \cup Seeding => Cardinality(CountedAs(ask) \ {"error"}) = 1

\* The loops and case distinctions of the queries compute what they are meant to.
QueriesRight == GlobRight /\ NestBounded /\ FiltersRight /\ PagesAreList /\ CountMatchesList
=============================================================================
