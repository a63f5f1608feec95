----------------------------- MODULE OwnerReports -----------------------------
(***************************************************************************)
(* The intake of an owner's observations (owner_reports.py): a place in    *)
(* the hour is reserved by compare-and-swap, then the report is created    *)
(* once.  Replicas share both through the store; a device sends the        *)
(* submission again when it has not seen a receipt.                        *)
(***************************************************************************)
EXTENDS Naturals, FiniteSets

CONSTANTS
    Submissions,   \* submission ids
    Payloads,      \* what a submission may carry: reference and text
    Intakes,       \* request threads, of any replica
    PerHour,       \* max_per_hour
    AdmitTries,    \* submit's range(5)
    LastHour,      \* bound: the clock
    IntakeFaults,  \* bound: lost answers, store errors
    Nothing

ASSUME IntakeAssumption ==
    /\ PerHour \in Nat /\ AdmitTries \in Nat \ {0}
    /\ LastHour \in Nat /\ IntakeFaults \in Nat
    /\ Nothing \notin Payloads

VARIABLES
    hour,      \* the clock
    places,    \* limits/<owner>/<hour>: the submissions that hold a place
    receipts,  \* receipts/<identity>: what the receipt binds
    intake,    \* where each thread is in submit
    received,  \* history: submissions answered with a receipt, and for what
    losses

intakeVars == <<hour, places, receipts, intake, received, losses>>

Hours == 0..LastHour
NoIntake == [pc |-> "free", id |-> Nothing, payload |-> Nothing, hour |-> 0, seen |-> {}, try |-> 0]

OwnerInit ==
    /\ hour = 0
    /\ places = [h \in Hours |-> {}]
    /\ receipts = [s \in Submissions |-> Nothing]
    /\ intake = [t \in Intakes |-> NoIntake]
    /\ received = {}
    /\ losses = 0

----------------------------------------------------------------------------

LeaveIntake(t) == intake' = [intake EXCEPT ![t] = NoIntake]

\* previous: the receipt, if it is for the same payload; else 409.
Previous(id, payload) ==
    received' = received \cup {r \in {<<id, payload>>} : receipts[id] = payload}

Submit(t) == \E id \in Submissions, payload \in Payloads :
    /\ intake[t].pc = "free"
    /\ IF receipts[id] # Nothing
       THEN Previous(id, payload) /\ UNCHANGED intake
       ELSE /\ intake' = [intake EXCEPT ![t] = [pc |-> "admit", id |-> id, payload |-> payload,
                                                hour |-> hour, seen |-> {}, try |-> 0]]
            /\ UNCHANGED received
    /\ UNCHANGED <<hour, places, receipts, losses>>

Holds(t) == intake[t].id \in places[intake[t].hour]

HourRoom(t) == Cardinality(places[intake[t].hour]) < PerHour

\* The hour's list is read: a place is held, there is room for one, or 429.
Look(t) ==
    /\ intake[t].pc = "admit"
    /\ \/ Holds(t) /\ intake' = [intake EXCEPT ![t].pc = "create"]
       \/ ~Holds(t) /\ HourRoom(t)
          /\ intake' = [intake EXCEPT ![t] = [@ EXCEPT !.pc = "reserve",
                                                       !.seen = places[intake[t].hour]]]
       \/ ~Holds(t) /\ ~HourRoom(t) /\ LeaveIntake(t)
    /\ UNCHANGED <<hour, places, receipts, received, losses>>

\* The conditional write of the list that was read, with the submission appended.
Takes(t) ==
    /\ places[intake[t].hour] = intake[t].seen
    /\ places' = [places EXCEPT ![intake[t].hour] = @ \cup {intake[t].id}]

ReserveIn(t) ==
    /\ intake[t].pc = "reserve"
    /\ Takes(t)
    /\ intake' = [intake EXCEPT ![t].pc = "create"]
    /\ UNCHANGED <<hour, receipts, received, losses>>

\* After a conflict: look again, or 503.
LookAgain(t) ==
    intake' = [intake EXCEPT ![t] =
        IF intake[t].try + 1 = AdmitTries THEN NoIntake
        ELSE [intake[t] EXCEPT !.pc = "admit", !.try = @ + 1]]

Overtaken(t) ==
    /\ intake[t].pc = "reserve"
    /\ places[intake[t].hour] # intake[t].seen
    /\ LookAgain(t)
    /\ UNCHANGED <<hour, places, receipts, received, losses>>

\* mutant: the record is overwritten
CreatesOver(t) ==
    /\ receipts' = [receipts EXCEPT ![intake[t].id] = intake[t].payload]
    /\ received' = received \cup {<<intake[t].id, intake[t].payload>>}

\* The receipt is created, unless there is one by now.
Creates(t) ==
    IF receipts[intake[t].id] = Nothing
    THEN /\ receipts' = [receipts EXCEPT ![intake[t].id] = intake[t].payload]
         /\ received' = received \cup {<<intake[t].id, intake[t].payload>>}
    ELSE Previous(intake[t].id, intake[t].payload) /\ UNCHANGED receipts

Create(t) ==
    /\ intake[t].pc = "create"
    /\ Creates(t)
    /\ LeaveIntake(t)
    /\ UNCHANGED <<hour, places, losses>>

Loss ==
    /\ losses < IntakeFaults
    /\ losses' = losses + 1
    /\ UNCHANGED hour

\* The place is taken, the write sent again, and refused.
StoredOvertaken(t) ==
    /\ intake[t].pc = "reserve"
    /\ Takes(t)
    /\ LookAgain(t)
    /\ UNCHANGED <<receipts, received>>
    /\ Loss

\* receipt_unconfirmed: the store fails before or after a write.
ReceiptUnconfirmed(t) ==
    /\ intake[t].pc # "free"
    /\ \/ UNCHANGED <<places, receipts>>
       \/ intake[t].pc = "reserve" /\ Takes(t) /\ UNCHANGED receipts
       \/ /\ intake[t].pc = "create" /\ receipts[intake[t].id] = Nothing
          /\ receipts' = [receipts EXCEPT ![intake[t].id] = intake[t].payload]
          /\ UNCHANGED places
    /\ LeaveIntake(t)
    /\ UNCHANGED received
    /\ Loss

NextHour ==
    /\ hour < LastHour
    /\ hour' = hour + 1
    /\ UNCHANGED <<places, receipts, intake, received, losses>>

OwnerNext ==
    \/ NextHour
    \/ \E t \in Intakes :
          \/ Submit(t) \/ Look(t) \/ ReserveIn(t) \/ Overtaken(t) \/ Create(t)
          \/ StoredOvertaken(t) \/ ReceiptUnconfirmed(t)

OwnerSpec == OwnerInit /\ [][OwnerNext]_intakeVars

----------------------------------------------------------------------------
(* Properties *)

\* However many replicas take reports, an hour admits no more than its limit, nothing is stored
\* that was not admitted (owner_reports.py:48 "durable CAS admission"), and a receipt that was
\* answered binds what is stored: two payloads under one submission never both get one.
ReceiptsHold ==
    /\ \A h \in Hours : Cardinality(places[h]) <= PerHour
    /\ \A s \in Submissions : receipts[s] # Nothing => \E h \in Hours : s \in places[h]
    /\ \A r \in received : receipts[r[1]] = r[2]
=============================================================================
