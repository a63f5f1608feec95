------------------------------ MODULE Dashboard ------------------------------
(***************************************************************************)
(* The dashboard's observations (dashboard/runtime.py): each source of     *)
(* metadata is read by a thread of its own, within a deadline; what was    *)
(* read is kept with the time of its observation, saved whole before it is *)
(* shown, and put together for an edition (dashboard/metadata.py).         *)
(*                                                                         *)
(* What a source says of an edition is a set of facts, [dimension, state]; *)
(* the files and the remote catalogue they are read from are left out.     *)
(* A step of the clock is a few seconds.                                   *)
(***************************************************************************)
EXTENDS Naturals, FiniteSets

CONSTANTS
    Sources,    \* configured sources
    Saying,     \* for each source, what it may say: sets of facts
    Deadline,   \* for each source, after which a reader is given up: 5 or 20 seconds
    FreshFor,   \* for each source, how long an observation is current: 60 or 600
    Every,      \* for each source, the time between readings: 30 or 300
    LastTick,   \* bound: the clock
    Changed,    \* bound: changes of what sources say
    Reopenings  \* bound: restarts of the dashboard

ASSUME DashboardAssumption ==
    \A s \in Sources : Deadline[s] \in Nat /\ FreshFor[s] \in Nat /\ Every[s] \in Nat

VARIABLES
    now,
    truth,         \* what each source says now
    flights,       \* the reader of each source: [pc, started, read, late]
    due,           \* when each source is read again
    observations,  \* what is shown: [status, at, data]
    saved,         \* snapshot.json
    edits, reopened

dashboardVars == <<now, truth, flights, due, observations, saved, edits, reopened>>

Dimensions == {"processing", "review", "publication", "access", "eligibility"}

\* Data is what was said, and when (the time is not in the code's record).
NoData == [said |-> {}, when |-> 0]
NoFlight == [pc |-> "none", started |-> 0, read |-> NoData, late |-> FALSE]
NotObserved == [status |-> "unknown", at |-> 0, data |-> NoData]

DashboardInit ==
    /\ now = 0
    /\ truth \in [Sources -> UNION {Saying[s] : s \in Sources}]
    /\ \A s \in Sources : truth[s] \in Saying[s]
    /\ flights = [s \in Sources |-> NoFlight]
    /\ due = [s \in Sources |-> 0]
    /\ observations = [s \in Sources |-> NotObserved]
    /\ saved = observations
    /\ edits = 0
    /\ reopened = 0

----------------------------------------------------------------------------
(* Readers *)

\* The reader has what the source says at this moment, or an error.
FinishReading(s) ==
    /\ flights[s].pc = "running"
    /\ \/ flights' = [flights EXCEPT ![s].pc = "done",
                                     ![s].read = [said |-> {truth[s]}, when |-> now]]
       \/ flights' = [flights EXCEPT ![s].pc = "failed"]
    /\ UNCHANGED <<now, truth, due, observations, saved, edits, reopened>>

----------------------------------------------------------------------------
(* tick *)

Finished(s) == flights[s].pc \in {"done", "failed"}
TimedOut(s) == flights[s].pc # "none" /\ now - flights[s].started > Deadline[s]

\* A reader is heard once when it is late, and once more when it has ended.
Heard(s) == Finished(s) \/ (TimedOut(s) /\ ~flights[s].late)

\* mutant: an answer counts however late it comes
FailedOnly(s) == flights[s].pc = "failed" \/ ~Finished(s)

ReadFailed(s) == flights[s].pc = "failed" \/ TimedOut(s) \/ flights[s].late

Observation(s) ==
    IF ReadFailed(s) THEN [observations[s] EXCEPT !.status = "unknown"]
    ELSE [status |-> "ok", at |-> now, data |-> flights[s].read]

Started == [pc |-> "running", started |-> now, read |-> NoData, late |-> FALSE]

\* One reader of a source at a time: a late one that is still stuck is not joined by another.
NextFlight(s, force) ==
    CASE Finished(s) -> IF force \/ Every[s] = 0 THEN Started ELSE NoFlight
      [] flights[s].pc = "none" -> IF force \/ now >= due[s] THEN Started ELSE NoFlight
      [] OTHER -> IF Heard(s) THEN [flights[s] EXCEPT !.late = TRUE] ELSE flights[s]

\* previous_observations
TakesBack(new) == UNCHANGED observations

\* The snapshot is written to the side and moved into place, or the disk or its cap refuse.
DashboardTick(force) ==
    LET new == [s \in Sources |-> IF Heard(s) THEN Observation(s) ELSE observations[s]] IN
    /\ flights' = [s \in Sources |-> NextFlight(s, force)]
    /\ due' = [s \in Sources |-> IF Finished(s) THEN now + Every[s] ELSE due[s]]
    /\ IF \E s \in Sources : Heard(s)
       THEN \/ observations' = new /\ saved' = new
            \/ TakesBack(new) /\ UNCHANGED saved
       ELSE UNCHANGED <<observations, saved>>
    /\ UNCHANGED <<now, truth, edits, reopened>>

\* __init__: what was saved is shown as unknown.
Reopen ==
    /\ reopened < Reopenings
    /\ reopened' = reopened + 1
    /\ flights' = [s \in Sources |-> NoFlight]
    /\ due' = [s \in Sources |-> 0]
    /\ observations' = [s \in Sources |-> [saved[s] EXCEPT !.status = "unknown"]]
    /\ UNCHANGED <<now, truth, saved, edits>>

SourceChanges(s) == \E said \in Saying[s] \ {truth[s]} :
    /\ edits < Changed
    /\ edits' = edits + 1
    /\ truth' = [truth EXCEPT ![s] = said]
    /\ UNCHANGED <<now, flights, due, observations, saved, reopened>>

ClockMoves ==
    /\ now < LastTick
    /\ now' = now + 1
    /\ UNCHANGED <<truth, flights, due, observations, saved, edits, reopened>>

DashboardNext ==
    \/ ClockMoves \/ Reopen
    \/ \E force \in BOOLEAN : DashboardTick(force)
    \/ \E s \in Sources : FinishReading(s) \/ SourceChanges(s)

DashboardSpec == DashboardInit /\ [][DashboardNext]_dashboardVars

----------------------------------------------------------------------------
(* assemble, for one edition *)

Current(s) == observations[s].status = "ok" /\ now - observations[s].at <= FreshFor[s]

\* The sources whose current observation has a fact of the dimension: none is "unknown".
Stated(dimension) ==
    {s \in Sources : Current(s) /\ \E said \in observations[s].data.said :
        \E f \in said : f.dimension = dimension}

----------------------------------------------------------------------------
(* Properties *)

\* What is shown as a current state was read from its source no longer ago than its time of
\* being current and the reader's deadline allow, however late threads answer; and what is
\* shown is what is saved, so a restart shows the same evidence (runtime.py:122-168).
ShownAsRead ==
    /\ \A d \in Dimensions : \A s \in Stated(d) :
          now - observations[s].data.when <= FreshFor[s] + Deadline[s]
    /\ \A s \in Sources :
          /\ saved[s].data = observations[s].data /\ saved[s].at = observations[s].at
          /\ observations[s].status = "ok" => saved[s].status = "ok"
=============================================================================
