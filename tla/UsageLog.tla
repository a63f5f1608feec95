------------------------------- MODULE UsageLog -------------------------------
(***************************************************************************)
(* The content-free log of tool calls (usage.py): each server process      *)
(* keeps a bounded table, best effort, and the dashboard aggregates the    *)
(* tables it is given.  A search writes one row for each edition it found. *)
(***************************************************************************)
EXTENDS Naturals, FiniteSets, FiniteSetsExt

CONSTANTS
    Collectors,  \* server processes, each with a database of its own
    Metrics,     \* operation, zoom and outcome of a call; "search" is one
    FoundEditions,       \* the editions a search may find
    LogRoom,        \* rows in 80% of max_bytes
    Batch,       \* 1000: rows a trim takes at once
    Retention,   \* days
    LastDay,     \* bound: the clock
    LastCall     \* bound: calls

ASSUME UsageAssumption ==
    /\ "search" \in Metrics /\ LogRoom \in Nat /\ Batch \in Nat \ {0}
    /\ Retention \in Nat /\ LastDay \in Nat /\ LastCall \in Nat
    /\ IsFiniteSet(Collectors) /\ IsFiniteSet(Metrics) /\ IsFiniteSet(FoundEditions)

VARIABLES
    day,
    events,   \* events table: rows [call, index, at, metric, source]; its key is call and index
    lost,     \* self.lost and the table's known_lost
    writing,  \* the rows of the call that holds self.lock, of each process
    made      \* history: the calls that ended, [call, by, at, metric]; and the losses

usageVars == <<day, events, lost, writing, made>>

UsageInit ==
    /\ day = 0
    /\ events = [c \in Collectors |-> {}]
    /\ lost = [c \in Collectors |-> [memory |-> 0, known |-> 0]]
    /\ writing = [c \in Collectors |-> {}]
    /\ made = {}

----------------------------------------------------------------------------
(* record *)

\* One row for each edition found, or one row.
RowsOf(call, metric, sources) ==
    IF sources = {}
    THEN {[call |-> call, index |-> 0, at |-> day, metric |-> metric, source |-> 0]}
    ELSE {[call |-> call, index |-> s, at |-> day, metric |-> metric, source |-> s] : s \in sources}

CountLost(c) == lost' = [lost EXCEPT ![c].memory = @ + 1]

NextCall == Cardinality(made) + 1

EndOfCall(c, metric) == made' = made \cup {[call |-> NextCall, by |-> c, at |-> day, metric |-> metric]}

\* A tool call ends; another thread may hold the lock.
ToolCall == \E c \in Collectors, metric \in Metrics, sources \in SUBSET FoundEditions :
    /\ NextCall <= LastCall
    /\ sources # {} => metric = "search"
    /\ EndOfCall(c, metric)
    /\ IF writing[c] = {}
       THEN /\ writing' = [writing EXCEPT ![c] = RowsOf(NextCall, metric, sources)]
            /\ UNCHANGED lost
       ELSE CountLost(c) /\ UNCHANGED writing
    /\ UNCHANGED <<day, events>>

Recent(rows) == {r \in rows : r.at + Retention >= day}

\* ORDER BY at, id
Older(r, s) == r.at < s.at \/ (r.at = s.at /\ (r.call < s.call \/ (r.call = s.call /\ r.index < s.index)))
RowsLeft(rows, batches) == {r \in rows : Cardinality({s \in rows : Older(s, r)}) >= Batch * batches}

\* What is left when the oldest rows went, batch by batch, until there is room.
Trimmed(rows) ==
    RowsLeft(rows, Min({n \in 0..Cardinality(rows) : Cardinality(RowsLeft(rows, n)) <= LogRoom}))

\* INSERT OR IGNORE
Inserted(rows, new) ==
    rows \cup {r \in new : ~\E s \in rows : s.call = r.call /\ s.index = r.index}

\* The transaction: old rows out, room made, the rows in, the losses noted.
CommitCall(c) ==
    /\ writing[c] # {}
    /\ events' = [events EXCEPT ![c] = Inserted(Trimmed(Recent(@)), writing[c])]
    /\ lost' = [lost EXCEPT ![c].known = lost[c].memory]
    /\ writing' = [writing EXCEPT ![c] = {}]
    /\ UNCHANGED <<day, made>>

\* The database is busy with a reader, or full: nothing is stored.
TableBusy(c) ==
    /\ writing[c] # {}
    /\ CountLost(c)
    /\ writing' = [writing EXCEPT ![c] = {}]
    /\ UNCHANGED <<day, events, made>>

\* A crash may take the call that is being written; what memory counted starts again.
CollectorRestarts(c) ==
    /\ writing' = [writing EXCEPT ![c] = {}]
    /\ events' = [events EXCEPT ![c] = Recent(@)]
    /\ lost' = [lost EXCEPT ![c].memory = 0]
    /\ UNCHANGED <<day, made>>

NextDay ==
    /\ day < LastDay
    /\ day' = day + 1
    /\ UNCHANGED <<events, lost, writing, made>>

UsageNext ==
    \/ ToolCall \/ NextDay
    \/ \E c \in Collectors : CommitCall(c) \/ TableBusy(c) \/ CollectorRestarts(c)

UsageSpec == UsageInit /\ [][UsageNext]_usageVars

----------------------------------------------------------------------------
(* aggregate, over all the tables *)

Merged(window) == {r \in UNION {events[c] : c \in Collectors} : r.at + window >= day}

NoTotals == [calls |-> {}, totals |-> [m \in Metrics |-> 0], appearances |-> 0,
             daily |-> [d \in 0..LastDay |-> 0]]

\* mutant: every row counts
FirstAlways(r, sum) == TRUE

\* first_call: a call counts with the first of its rows.
FirstCall(r, sum) == r.call \notin sum.calls

Tally(r, sum) ==
    LET n == IF FirstCall(r, sum) THEN 1 ELSE 0
    IN  [calls |-> sum.calls \cup {r.call},
         totals |-> [sum.totals EXCEPT ![r.metric] = @ + n],
         appearances |-> sum.appearances + (IF r.metric = "search" /\ r.source # 0 THEN 1 ELSE 0),
         daily |-> [sum.daily EXCEPT ![r.at] = @ + n]]

Aggregate(window) == FoldSet(Tally, NoTotals, Merged(window))

----------------------------------------------------------------------------
(* Properties *)

Sum(f) == FoldSet(LAMBDA i, n : f[i] + n, 0, DOMAIN f)

\* However rows were trimmed, the totals never count a call twice and count only calls that
\* were made with that outcome in the window, the days add up to the totals, and an edition
\* appears as often as it was found (usage.py:203-235).
TotalsAreCalls ==
    \A window \in 0..LastDay :
        LET seen == Aggregate(window) IN
        /\ \A m \in Metrics :
              seen.totals[m] <= Cardinality({c \in made : c.metric = m /\ c.at + window >= day})
        /\ Sum(seen.totals) = Sum(seen.daily)
        /\ seen.appearances = Cardinality({r \in Merged(window) : r.source # 0})
=============================================================================
