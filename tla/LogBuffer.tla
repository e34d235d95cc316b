------------------------------ MODULE LogBuffer ------------------------------
(***************************************************************************)
(* The log in memory (Log::Buffer in src/logger.cpp) and a user who follows *)
(* it with logs.list (src/rpc/methods/logs.cpp).  Any thread logs; Push and *)
(* List hold the mutex, so they are steps.  An entry is a level and a size. *)
(* The user asks for what came after the cursor of the last page, and       *)
(* starts over when the run id shows that the program was restarted.        *)
(***************************************************************************)
EXTENDS Naturals, Sequences, SequencesExt

CONSTANTS
    Levels,       \* severities, as numbers
    EntrySizes,   \* what SizeOf gives
    Capacity,     \* m_capacity
    Limit,        \* the limit of the user's queries
    MinLevel,     \* their min_level
    MaxLogged,    \* bound on the entries of a run
    MaxRuns       \* bound on the runs

ASSUME LogAssumption ==
    /\ Levels \subseteq Nat /\ MinLevel \in Nat /\ EntrySizes \subseteq Nat \ {0}
    /\ Capacity \in Nat /\ Limit \in Nat \ {0} /\ MaxLogged \in Nat /\ MaxRuns \in Nat

VARIABLES
    entries,   \* m_entries
    lastSeq,   \* m_last_seq
    size,      \* m_size
    run,       \* m_run_id
    logLevel,  \* the filter that Setup sets
    reader,    \* the user: the run and the cursor of the last page, and the cursor of the first
    got        \* history: the entries of the run that the user has, in the order they came

logVars == <<entries, lastSeq, size, run, logLevel, reader, got>>

NoReader == [run |-> 0, after |-> 0, base |-> 0]

Matches(e) == e.level >= MinLevel

\* The entries that the loop of Push drops: from the front, until the rest fits or is one.
Dropped(es, total) ==
    LET SizeFrom(n) == total - FoldLeft(LAMBDA sum, e : sum + e.size, 0, SubSeq(es, 1, n))
    IN  CHOOSE n \in 0..Len(es) - 1 :
            /\ SizeFrom(n) <= Capacity \/ n = Len(es) - 1
            /\ \A k \in 0..n - 1 : SizeFrom(k) > Capacity

\* Push gives the entry the next number and makes room.
Push(level, sz) ==
    LET es == Append(entries, [seq |-> lastSeq + 1, level |-> level, size |-> sz])
        n == Dropped(es, size + sz)
    IN  /\ lastSeq' = lastSeq + 1
        /\ entries' = SubSeq(es, n + 1, Len(es))
        /\ size' = size + sz - FoldLeft(LAMBDA sum, e : sum + e.size, 0, SubSeq(es, 1, n))
        /\ UNCHANGED <<run, logLevel, reader, got>>

\* Write: a record below the level of the program is not opened.
Write(level, sz) ==
    /\ level >= logLevel /\ lastSeq < MaxLogged
    /\ Push(level, sz)

\* List without a cursor: the newest entries that match.
Newest ==
    LET hits == SelectSeq(entries, Matches)
    IN  [entries |-> IF Len(hits) <= Limit THEN hits ELSE SubSeq(hits, Len(hits) - Limit + 1, Len(hits)),
         cursor |-> lastSeq]

\* Mutant: a full page has the cursor of a page that has everything.
BugCursor(hits) == lastSeq

\* The cursor of a page from a scan that found hits: a full page ends where the scan stopped.
Cursor(hits) == IF Len(hits) >= Limit THEN hits[Limit].seq ELSE lastSeq

\* The entries that a scan skips, by arithmetic on the numbers.
Skip(after, first) == IF after < first THEN 0 ELSE after - first + 1

\* List with a cursor: the oldest entries after it that match.
After(after) ==
    IF after >= lastSeq \/ entries = <<>> THEN [entries |-> <<>>, cursor |-> lastSeq]
    ELSE LET rest == SubSeq(entries, Skip(after, entries[1].seq) + 1, Len(entries))
             hits == SelectSeq(rest, Matches)
         IN  [entries |-> SubSeq(hits, 1, IF Len(hits) < Limit THEN Len(hits) ELSE Limit), cursor |-> Cursor(hits)]

Numbers(es) == [n \in DOMAIN es |-> es[n].seq]

\* logs.list: the first request, and the first one after a restart, has no cursor.  A page
\* of another run than the one of the cursor only tells the user of the restart.
Open ==
    /\ reader.run # run
    /\ reader' = [run |-> run, after |-> Newest.cursor, base |-> Newest.cursor]
    /\ got' = Numbers(Newest.entries)
    /\ UNCHANGED <<entries, lastSeq, size, run, logLevel>>

Follow ==
    /\ reader.run = run
    /\ LET page == After(reader.after)
       IN  /\ reader' = [reader EXCEPT !.after = page.cursor]
           /\ got' = got \o Numbers(page.entries)
    /\ UNCHANGED <<entries, lastSeq, size, run, logLevel>>

\* The program starts again: Setup makes a buffer, with a new run id.
RestartLog(level) ==
    /\ run < MaxRuns
    /\ run' = run + 1
    /\ logLevel' = level
    /\ entries' = <<>> /\ lastSeq' = 0 /\ size' = 0 /\ got' = <<>>
    /\ UNCHANGED reader

LogInit ==
    /\ entries = <<>> /\ lastSeq = 0 /\ size = 0 /\ run = 1 /\ logLevel \in Levels
    /\ reader = NoReader /\ got = <<>>

LogNext ==
    \/ \E level \in Levels, sz \in EntrySizes : Write(level, sz)
    \/ Open \/ Follow
    \/ \E level \in Levels : RestartLog(level)

-----------------------------------------------------------------------------

\* Buffer::Push and List: a user who follows the cursors gets every entry that matches, once and
\* in order, but for the ones that made room before the user asked, whatever is logged and dropped
\* between two requests; the numbers in the buffer have no gap, which Skip rests on; and m_size
\* is the size of the entries, which stays within the capacity but for a single entry.
LogFollowed ==
    /\ \A m, n \in DOMAIN got : m < n => got[m] < got[n]
    /\ reader.run = run =>
          \A e \in ToSet(entries) :
              Matches(e) /\ e.seq > reader.base /\ e.seq <= reader.after => e.seq \in ToSet(got)
    /\ \A n \in DOMAIN entries : entries[n].seq = lastSeq - Len(entries) + n
    /\ size = FoldLeft(LAMBDA sum, e : sum + e.size, 0, entries)
    /\ size <= Capacity \/ Len(entries) = 1
=============================================================================
