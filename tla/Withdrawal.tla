----------------------------- MODULE Withdrawal -----------------------------
(***************************************************************************)
(* From a saved withdrawal to the readers: ReviewStore.decide saves it in  *)
(* a book's review file, record_withdrawal of withdrawal.py appends it to  *)
(* the one control object all books share, and library.py reads that       *)
(* object in every request, whichever publication the request names.       *)
(*                                                                         *)
(* A book has one reviewed section and the page it stands on.  A review is *)
(* the sequence of its approvals and withdrawals; a decision's digest is   *)
(* its book and position.  What a withdrawal affects is ContentReview's    *)
(* concern: here it is any set of earlier approvals.                       *)
(***************************************************************************)
EXTENDS Naturals, Sequences, FiniteSets

CONSTANTS
    Books,
    Operators,   \* processes that run the review commands
    Attempts,    \* record_withdrawal's range(8)
    None,
    MaxReview,   \* bound: decisions in one review
    MaxFaults    \* bound: crashes, store errors and lost answers

ASSUME BoundsAssumption ==
    /\ Attempts \in Nat \ {0}
    /\ MaxReview \in Nat /\ MaxFaults \in Nat

VARIABLES
    review,     \* book -> its decisions (the review file)
    enforced,   \* the control object: the withdrawals in order
    operator,   \* where each command is
    succeeded,  \* history: withdrawals whose command reported success
    faults

vars == <<review, enforced, operator, succeeded, faults>>

Positions == 1..MaxReview
Decision  == [kind : {"approve", "withdraw"}, affected : SUBSET Positions]
Event     == [book : Books, id : Positions, affected : SUBSET Positions]

\* A section of a book: the approved one, by its approval, or the bare page.
Page     == 0
Sections == Books \X (Positions \cup {Page})

Idle == [pc |-> "idle", event |-> None, holds |-> FALSE, seen |-> <<>>, attempt |-> 0]

\* A command about to record a withdrawal, with or without the book's lock.
Recording(e, holds) == [pc |-> "read", event |-> e, holds |-> holds, seen |-> <<>>, attempt |-> 0]

Elements(s) == {s[i] : i \in 1..Len(s)}

WithdrawalTypeOK ==
    /\ review \in [Books -> Seq(Decision)]
    /\ \A b \in Books : Len(review[b]) <= MaxReview
    /\ enforced \in Seq(Event)
    /\ operator \in [Operators -> [pc : {"idle", "read", "put"}, event : Event \cup {None},
                                   holds : BOOLEAN, seen : Seq(Event), attempt : 0..(Attempts - 1)]]
    /\ succeeded \subseteq Event
    /\ faults \in 0..MaxFaults

Init ==
    /\ review = [b \in Books |-> <<>>]
    /\ enforced = <<>>
    /\ operator = [o \in Operators |-> Idle]
    /\ succeeded = {}
    /\ faults = 0

----------------------------------------------------------------------------
(* The review file *)

Locked(b) == \E o \in Operators : operator[o].holds /\ operator[o].event.book = b

Approvals(b) == {i \in 1..Len(review[b]) : review[b][i].kind = "approve"}

Withdrawals(b) == {i \in 1..Len(review[b]) : review[b][i].kind = "withdraw"}

Revoked(b) == UNION {review[b][i].affected : i \in Withdrawals(b)}

\* The approval in force: the latest, unless it is revoked.
InForce(b) == {i \in Approvals(b) \ Revoked(b) : \A j \in Approvals(b) : j <= i}

WithdrawalOf(b, i) == [book |-> b, id |-> i, affected |-> review[b][i].affected]

Save(b, decision) ==
    /\ ~Locked(b)
    /\ Len(review[b]) < MaxReview
    /\ review' = [review EXCEPT ![b] = Append(@, decision)]

\* An approval, however it came about.
Approve(b) ==
    /\ Save(b, [kind |-> "approve", affected |-> {}])
    /\ UNCHANGED <<enforced, operator, succeeded, faults>>

----------------------------------------------------------------------------
(* Recording a withdrawal *)

\* decide: the decision is saved first; its lock is held until it is recorded too.
Decide(o, b) == \E affected \in SUBSET Approvals(b) :
    /\ operator[o].pc = "idle"
    /\ Save(b, [kind |-> "withdraw", affected |-> affected])
    /\ operator' = [operator EXCEPT ![o] =
          Recording([book |-> b, id |-> Len(review[b]) + 1, affected |-> affected], TRUE)]
    /\ UNCHANGED <<enforced, succeeded, faults>>

\* --withdrawal-id: a saved decision is recorded again, without the lock.
Retry(o, b) == \E i \in Withdrawals(b) :
    /\ operator[o].pc = "idle"
    /\ operator' = [operator EXCEPT ![o] = Recording(WithdrawalOf(b, i), FALSE)]
    /\ UNCHANGED <<review, enforced, succeeded, faults>>

Succeed(o) ==
    /\ succeeded' = succeeded \cup {operator[o].event}
    /\ operator' = [operator EXCEPT ![o] = Idle]

\* What an attempt of the loop starts from.
Current(o) == enforced

\* It is there already: an earlier command recorded it.
Recorded(o) == operator[o].event \in Elements(Current(o))

Read(o) ==
    /\ operator[o].pc = "read"
    /\ IF Recorded(o)
       THEN Succeed(o)
       ELSE /\ operator' = [operator EXCEPT ![o].pc = "put", ![o].seen = Current(o)]
            /\ UNCHANGED succeeded
    /\ UNCHANGED <<review, enforced, faults>>

\* mutant: the write is unconditional
StoresAlways(o) == enforced' = Append(operator[o].seen, operator[o].event)

\* The conditional write of what was read with the withdrawal appended.
Stores(o) ==
    /\ enforced = operator[o].seen
    /\ enforced' = Append(enforced, operator[o].event)

Put(o) ==
    /\ operator[o].pc = "put"
    /\ Stores(o)
    /\ Succeed(o)
    /\ UNCHANGED <<review, faults>>

\* After a conflict: read again, or give up and raise.
Loop(o) ==
    /\ operator' = [operator EXCEPT ![o] =
          IF operator[o].attempt + 1 = Attempts THEN Idle
          ELSE [operator[o] EXCEPT !.pc = "read", !.attempt = @ + 1]]
    /\ UNCHANGED succeeded

Conflict(o) ==
    /\ operator[o].pc = "put"
    /\ enforced # operator[o].seen
    /\ Loop(o)
    /\ UNCHANGED <<review, enforced, faults>>

Fault ==
    /\ faults < MaxFaults
    /\ faults' = faults + 1
    /\ UNCHANGED <<review>>

\* The write is stored; the client library sends it again and gets a conflict.
StoredConflict(o) ==
    /\ operator[o].pc = "put"
    /\ Stores(o)
    /\ Loop(o)
    /\ Fault

\* The command dies, or the store cannot be reached, before or after the write.
Lost(o) ==
    /\ operator[o].pc # "idle"
    /\ operator' = [operator EXCEPT ![o] = Idle]
    /\ \/ UNCHANGED enforced
       \/ operator[o].pc = "put" /\ Stores(o)
    /\ UNCHANGED succeeded
    /\ Fault

----------------------------------------------------------------------------
(* Readers *)

\* mutant: a withdrawal of anything on the page suppresses every section on it
AffectsPage(e, section) == e.book = section[1] /\ e.affected # {}

\* mutant: the page is left as it was
AffectsApproval(e, section) == e.book = section[1] /\ section[2] \in e.affected

\* A withdrawal suppresses the approvals it affects and the bare page they stand on.
Affects(e, section) ==
    /\ e.book = section[1]
    /\ IF section[2] = Page THEN e.affected # {} ELSE section[2] \in e.affected

Suppressed(section, events) == \E e \in events : Affects(e, section)

\* The sections a retained publication may have: each approval was in force when it was
\* made, and may have been published then.
Published == UNION {{b} \X (Approvals(b) \cup {Page}) : b \in Books}

\* A request observes the control object once: the sections whose text its answer may carry.
Shown == {s \in Published : ~Suppressed(s, Elements(enforced))}

----------------------------------------------------------------------------

Next ==
    \/ \E b \in Books : Approve(b) \/ \E o \in Operators : Decide(o, b) \/ Retry(o, b)
    \/ \E o \in Operators : Read(o) \/ Put(o) \/ Conflict(o) \/ StoredConflict(o) \/ Lost(o)

Spec == Init /\ [][Next]_vars

----------------------------------------------------------------------------
(* Properties *)

\* A withdrawal whose command reported success is in the control object, and stays there
\* whatever other commands, lost answers and crashes follow (record_withdrawal).
SucceededIsEnforced == succeeded \subseteq Elements(enforced)

\* docs/scanned-transcription-review.md:282: repeated retries are idempotent, also while the
\* first command is still running.
EnforcedOnce == \A i, j \in 1..Len(enforced) : enforced[i] = enforced[j] => i = j

\* What a command reports as recorded is in the control object, once, for good
\* (record_withdrawal, withdrawal.py:110-153).
EnforcementHolds == SucceededIsEnforced /\ EnforcedOnce

\* Each conflict a command meets is another withdrawal recorded since it read: it gives up,
\* with the withdrawal unenforced, only to as many others as it made attempts.
ConflictsAreProgress == \A o \in Operators : operator[o].attempt <= Len(enforced)

\* withdrawal.py:121: no answer shows an approval that a command has reported withdrawn, or
\* the page of one, however old the publication the request names.
WithdrawnNotShown == \A e \in succeeded :
    /\ Shown \cap ({e.book} \X e.affected) = {}
    /\ e.affected # {} => <<e.book, Page>> \notin Shown

\* docs/scanned-transcription-review.md:277: a repair is served once it is approved and
\* published: what the control object holds never suppresses the approval in force.
RepairIsServed == \A b \in Books : \A i \in InForce(b) :
    ~Suppressed(<<b, i>>, Elements(enforced))
=============================================================================
