----------------------------- MODULE ReportTriage -----------------------------
(***************************************************************************)
(* Reports of suspected misreads, settled by blind re-reading              *)
(* (triage_reports.py) under the recovery ledger.  A run lists the pending *)
(* reports once, then takes them oldest first: it asks the ledger, crops   *)
(* the page, reads the crop up to three times and writes the decision, or  *)
(* leaves the report for a later run.  A run may be killed anywhere.       *)
(***************************************************************************)
EXTENDS RecoveryLedger, FiniteSetsExt, SequencesExt

CONSTANTS
    Reports,       \* report numbers, in the order they were filed
    FiledBefore,   \* the reports in the store when the script first runs
    ScopeOf,       \* each report's source, page, box and book
    ClaimOf,       \* each report's correction key (ledger.key)
    Registered,    \* the sources the guarded helper can crop
    Runners,       \* runs of the script
    Samples,       \* blind readings per dispatch (3)
    Needed,        \* votes that decide (2)
    Interruptions, \* bound: runs killed or interrupted
    Seconds        \* bound: the clock of decided_at

ASSUME TriageAssumption ==
    /\ Reports \subseteq Nat /\ FiledBefore \subseteq Reports
    /\ Samples \in Nat /\ Needed \in Nat /\ Interruptions \in Nat /\ Seconds \in Nat

VARIABLES
    filed,     \* the reports in the store
    decisions, \* decisions/<report>.json: outcome and decided_at
    rows,      \* ledger.jsonl: the reports of its rows
    run,       \* each run's batch, report, attempt and readings
    second,
    killed

triageVars == <<attempts, barred, filed, decisions, rows, run, second, killed>>

Undecided == [outcome |-> "none", at |-> 0]
NoRun == [pc |-> "idle", batch |-> {}, rep |-> 0, attempt |-> 0, at |-> 0,
          proposed |-> 0, current |-> 0, read |-> 0, failed |-> FALSE]

TriageInit ==
    /\ LedgerInit
    /\ filed = FiledBefore
    /\ decisions = [rep \in Reports |-> Undecided]
    /\ rows = <<>>
    /\ run = [r \in Runners |-> NoRun]
    /\ second = 0
    /\ killed = 0

----------------------------------------------------------------------------

\* A report is filed; filing it again changes nothing.
File == \E rep \in Reports \ filed :
    /\ \A other \in filed : other < rep
    /\ filed' = filed \cup {rep}
    /\ UNCHANGED <<attempts, barred, decisions, rows, run, second, killed>>

TriageSecond ==
    /\ second < Seconds
    /\ second' = second + 1
    /\ UNCHANGED <<attempts, barred, filed, decisions, rows, run, killed>>

Pending == {rep \in filed : decisions[rep] = Undecided}

Start(r) ==
    /\ run[r].pc = "idle"
    /\ run' = [run EXCEPT ![r] = [NoRun EXCEPT !.pc = "next", !.batch = Pending]]
    /\ UNCHANGED <<attempts, barred, filed, decisions, rows, second, killed>>

Earlier(a, b) ==
    \/ decisions[a].at < decisions[b].at
    \/ decisions[a].at = decisions[b].at /\ a < b

Accepted == {rep \in Reports : decisions[rep].outcome = "correction"}

\* A correction decided again is kept once, at its first decision.
FirstDecided ==
    {rep \in Accepted : \A other \in Accepted \ {rep} : ClaimOf[other] = ClaimOf[rep] => Earlier(rep, other)}

\* corrections: in the order of their decisions.
Corrections ==
    CHOOSE s \in [1..Cardinality(FirstDecided) -> FirstDecided] :
        \A i, j \in DOMAIN s : i < j => Earlier(s[i], s[j])

\* The batch is done or the run stopped: the ledger is rebuilt from the decisions.
Rebuild(r) ==
    /\ \/ run[r].pc = "rebuild"
       \/ run[r].pc = "next" /\ run[r].batch = {}
    /\ rows' = Corrections
    /\ run' = [run EXCEPT ![r] = NoRun]
    /\ UNCHANGED <<attempts, barred, filed, decisions, second, killed>>

----------------------------------------------------------------------------
(* One report *)

OldestPending(r) == Min(run[r].batch)

Decided(rep, outcome, at) ==
    decisions' = [decisions EXCEPT ![rep] = [outcome |-> outcome, at |-> at]]

\* mutant: a report the ledger refuses is left to a later run
QueuedLater(rep) == UNCHANGED decisions

Queued(rep) == Decided(rep, "owner_queue", second)

LedgerRefused(r) ==
    /\ run[r].pc = "next" /\ run[r].batch # {}
    /\ TerminalUnavailable(ScopeOf[OldestPending(r)]) \/ BudgetExhausted(ScopeOf[OldestPending(r)])
    /\ Queued(OldestPending(r))
    /\ run' = [run EXCEPT ![r].batch = @ \ {OldestPending(r)}]
    /\ UNCHANGED <<filed, rows, second, killed>>

Admitted(r) ==
    /\ run[r].pc = "next" /\ run[r].batch # {}
    /\ Dispatch(ScopeOf[OldestPending(r)])
    /\ run' = [run EXCEPT ![r] = [NoRun EXCEPT
           !.pc = "read", !.batch = run[r].batch \ {OldestPending(r)}, !.rep = OldestPending(r),
           !.attempt = Len(attempts) + 1, !.at = second]]
    /\ UNCHANGED <<filed, decisions, rows, second, killed>>

\* A reading votes for one of the texts, for neither, or fails (a timeout, an empty reply).
Reading(r, vote) ==
    /\ run[r].pc = "read" /\ run[r].read < Samples
    /\ ScopeOf[run[r].rep].source \in Registered
    /\ run' = [run EXCEPT ![r] =
           [@ EXCEPT !.read = @ + 1,
                     !.proposed = @ + (IF vote = "proposed" THEN 1 ELSE 0),
                     !.current = @ + (IF vote = "current" THEN 1 ELSE 0),
                     !.failed = @ \/ vote = "failed"]]
    /\ UNCHANGED <<attempts, barred, filed, decisions, rows, second, killed>>

Votes(r) ==
    IF run[r].proposed >= Needed THEN "correction"
    ELSE IF run[r].current >= Needed THEN "rejected" ELSE "owner_queue"

\* unsettled: a technical failure that left the votes short.
Unsettled(r) == Votes(r) = "owner_queue" /\ run[r].failed

\* The outcome is recorded in the ledger, then the decision written, or the report left.
Conclude(r, outcome) ==
    /\ Decided(run[r].rep, outcome, run[r].at)
    /\ run' = [run EXCEPT ![r] = [NoRun EXCEPT !.pc = "next", !.batch = run[r].batch]]

LeaveRun(r, pc) ==
    /\ run' = [run EXCEPT ![r] = [NoRun EXCEPT !.pc = pc, !.batch = run[r].batch]]
    /\ UNCHANGED decisions

Counted(r) ==
    /\ run[r].pc = "read"
    /\ run[r].read = Samples
    /\ RecordOutcome(run[r].attempt, FALSE)
    /\ IF Unsettled(r) THEN LeaveRun(r, "next") ELSE Conclude(r, Votes(r))
    /\ UNCHANGED <<filed, rows, second, killed>>

\* The source is not the helper's: the owner decides.
Unregistered(r) ==
    /\ run[r].pc = "read"
    /\ ScopeOf[run[r].rep].source \notin Registered
    /\ RecordOutcome(run[r].attempt, FALSE)
    /\ Conclude(r, "owner_queue")
    /\ UNCHANGED <<filed, rows, second, killed>>

\* The crop or a reading is refused for good: nobody tries again.
ReaderRefused(r) ==
    /\ run[r].pc = "read" /\ run[r].read < Samples
    /\ ScopeOf[run[r].rep].source \in Registered
    /\ RecordOutcome(run[r].attempt, TRUE)
    /\ Conclude(r, "owner_queue")
    /\ UNCHANGED <<filed, rows, second, killed>>

\* The crop fails, or an exception leaves _triage.
ReadingFailed(r) ==
    /\ run[r].pc = "read"
    /\ ScopeOf[run[r].rep].source \in Registered
    /\ RecordOutcome(run[r].attempt, FALSE)
    /\ LeaveRun(r, "next")
    /\ UNCHANGED <<filed, rows, second, killed>>

\* A usage or rate limit: the report waits and the run ends.
Limited(r) ==
    /\ run[r].pc = "read" /\ run[r].read < Samples
    /\ ScopeOf[run[r].rep].source \in Registered
    /\ RecordOutcome(run[r].attempt, FALSE)
    /\ LeaveRun(r, "rebuild")
    /\ UNCHANGED <<filed, rows, second, killed>>

\* The process is interrupted (the attempt's outcome is recorded) or killed: with nothing in the
\* ledger, or with the outcome or the alias there and no decision written.
Killed(r) ==
    /\ run[r].pc # "idle" /\ killed < Interruptions
    /\ \/ UNCHANGED ledgerVars
       \/ run[r].pc = "read" /\ RecordOutcome(run[r].attempt, FALSE)
       \/ /\ run[r].pc = "read" /\ run[r].read < Samples
          /\ ScopeOf[run[r].rep].source \in Registered
          /\ RecordOutcome(run[r].attempt, TRUE)
       \/ run[r].pc = "next" /\ run[r].batch # {} /\ TerminalUnavailable(ScopeOf[OldestPending(r)])
    /\ run' = [run EXCEPT ![r] = NoRun]
    /\ killed' = killed + 1
    /\ UNCHANGED <<filed, decisions, rows, second>>

Work(r) ==
    \/ Start(r) \/ Rebuild(r) \/ LedgerRefused(r) \/ Admitted(r) \/ Counted(r)
    \/ Unregistered(r) \/ ReaderRefused(r) \/ ReadingFailed(r) \/ Limited(r)
    \/ \E vote \in {"proposed", "current", "neither", "failed"} : Reading(r, vote)

TriageNext == File \/ TriageSecond \/ \E r \in Runners : Work(r) \/ Killed(r)

\* A run under way goes on, and the owner runs the script again as long as reports are pending.
TriageFairness == \A r \in Runners : WF_triageVars(Work(r))

TriageSpec == TriageInit /\ [][TriageNext]_triageVars /\ TriageFairness

----------------------------------------------------------------------------
(* Properties *)

\* However often readings fail, limits end runs and runs are killed, the pending reports run out
\* again: retries use up the allowance and then the owner gets the report
\* (triage_reports.py:313 "retried within the durable recovery allowance").
Settles == []<>(Pending = {})

\* A correction the ledger carries is never lost from it: later decisions and rebuilds keep one
\* row for its claim (ledger.py:1, triage_reports.py:25-27).
ClaimsKept == [][{ClaimOf[rows[i]] : i \in DOMAIN rows}
                    \subseteq {ClaimOf[rows'[i]] : i \in DOMAIN rows'}]_triageVars

\* No report is left over, and no correction is lost on the way.
ReportsServed == Settles /\ ClaimsKept
=============================================================================
