--------------------------- MODULE WithdrawalProofs ---------------------------
(***************************************************************************)
(* Theorems about Withdrawal, for any books, commands, attempts and        *)
(* bounds.                                                                 *)
(*                                                                         *)
(* The argument: the control object only grows, by one saved withdrawal at *)
(* a time, and what a command read is a part of it from the front.  So a   *)
(* write that finds what it read replaces nothing, and one that does not   *)
(* has been overtaken by another withdrawal.                               *)
(***************************************************************************)
EXTENDS Withdrawal, TLAPS

\* A withdrawal that its book's review holds, word for word.
Saved(e) ==
    /\ e \in Event
    /\ e.id \in Withdrawals(e.book)
    /\ e.affected = review[e.book][e.id].affected

\* What a command knows: its withdrawal is saved; each conflict it met left something in
\* the control object; what it is about to replace is all there was when it looked.
Informed(o) ==
    /\ operator[o].pc # "idle" => Saved(operator[o].event)
    /\ operator[o].attempt <= Len(enforced)
    /\ operator[o].pc = "put" =>
         /\ operator[o].event \notin Elements(operator[o].seen)
         /\ operator[o].attempt <= Len(operator[o].seen)
         /\ Len(operator[o].seen) <= Len(enforced)
         /\ Len(operator[o].seen) = Len(enforced) => operator[o].seen = enforced

IInv ==
    /\ WithdrawalTypeOK
    /\ \A e \in Elements(enforced) : Saved(e)
    /\ \A o \in Operators : Informed(o)
    /\ SucceededIsEnforced
    /\ EnforcedOnce

----------------------------------------------------------------------------
(* The control object and the review *)

\* What an appended sequence holds.
LEMMA AppendElements ==
    ASSUME NEW S, NEW s \in Seq(S), NEW x \in S
    PROVE  /\ Elements(Append(s, x)) = Elements(s) \cup {x}
           /\ Len(Append(s, x)) = Len(s) + 1
           /\ \A i \in 1..Len(s) : Append(s, x)[i] = s[i]
           /\ Append(s, x)[Len(s) + 1] = x
<1>1. /\ Len(Append(s, x)) = Len(s) + 1
      /\ \A i \in 1..Len(s) : Append(s, x)[i] = s[i]
      /\ Append(s, x)[Len(s) + 1] = x
  OBVIOUS
<1>2. 1..(Len(s) + 1) = (1..Len(s)) \cup {Len(s) + 1}
  OBVIOUS
<1>3. Elements(Append(s, x)) = Elements(s) \cup {x}
  BY <1>1, <1>2 DEF Elements
<1> QED
  BY <1>1, <1>3

\* A saved withdrawal stays saved while the review is appended to.
LEMMA SaveKeepsSaved ==
    ASSUME WithdrawalTypeOK, NEW b \in Books, NEW d \in Decision, Save(b, d)
    PROVE  /\ review' \in [Books -> Seq(Decision)]
           /\ \A c \in Books : Len(review'[c]) <= MaxReview
           /\ Len(review[b]) + 1 \in Positions
           /\ review'[b][Len(review[b]) + 1] = d
           /\ \A e \in Event : Saved(e) => Saved(e)'
<1>1. review[b] \in Seq(Decision) /\ Len(review[b]) \in Nat
  BY DEF WithdrawalTypeOK
<1>2. review' = [review EXCEPT ![b] = Append(review[b], d)] /\ Len(review[b]) < MaxReview
  BY DEF Save
<1>3. /\ Len(review'[b]) = Len(review[b]) + 1
      /\ \A i \in 1..Len(review[b]) : review'[b][i] = review[b][i]
      /\ review'[b][Len(review[b]) + 1] = d
      /\ review'[b] \in Seq(Decision)
  BY <1>1, <1>2, AppendElements DEF WithdrawalTypeOK
<1>4. \A c \in Books \ {b} : review'[c] = review[c]
  BY <1>2 DEF WithdrawalTypeOK
<1>5. review' \in [Books -> Seq(Decision)]
  BY <1>2, <1>3, <1>4 DEF WithdrawalTypeOK
<1>6. \A c \in Books : Len(review'[c]) <= MaxReview
  BY <1>1, <1>2, <1>3, <1>4, BoundsAssumption DEF WithdrawalTypeOK
<1>7. Len(review[b]) + 1 \in Positions
  BY <1>1, <1>2, BoundsAssumption DEF Positions
<1>8. ASSUME NEW e \in Event, Saved(e) PROVE Saved(e)'
  <2>1. e.book \in Books
    BY DEF Event
  <2>2. e.id \in 1..Len(review[e.book]) /\ review[e.book][e.id].kind = "withdraw"
    BY <1>8 DEF Saved, Withdrawals
  <2>3. review'[e.book][e.id] = review[e.book][e.id] /\ e.id \in 1..Len(review'[e.book])
    <3>1. CASE e.book = b
      BY <3>1, <2>2, <1>1, <1>3
    <3>2. CASE e.book # b
      BY <3>2, <2>1, <2>2, <1>4
    <3> QED
      BY <3>1, <3>2
  <2> QED
    BY <2>2, <2>3, <1>8 DEF Saved, Withdrawals
<1> QED
  BY <1>3, <1>5, <1>6, <1>7, <1>8

\* While the review stays as it is, so does what is saved.
LEMMA SavedUnchanged ==
    ASSUME UNCHANGED review, NEW e
    PROVE  Saved(e) <=> Saved(e)'
  BY DEF Saved, Withdrawals

----------------------------------------------------------------------------
(* The invariant *)

LEMMA InitIInv == Init => IInv
  BY BoundsAssumption
  DEF Init, IInv, WithdrawalTypeOK, Informed, Idle, SucceededIsEnforced, EnforcedOnce, Elements

\* The control object is left alone: what it holds, and what is known of it, stays true.
LEMMA QuietStep ==
    ASSUME IInv, WithdrawalTypeOK', UNCHANGED enforced,
           \A e \in Event : Saved(e) => Saved(e)',
           succeeded' \subseteq succeeded \cup Elements(enforced),
           \A o \in Operators : operator'[o] = operator[o] \/ Informed(o)'
    PROVE  IInv'
<1>1. \A e \in Elements(enforced)' : Saved(e)'
  BY DEF IInv, Elements, Saved
<1>2. \A o \in Operators : Informed(o)'
  <2>1. ASSUME NEW o \in Operators, operator'[o] = operator[o] PROVE Informed(o)'
    BY <2>1 DEF IInv, Informed, Elements, Saved
  <2> QED
    BY <2>1
<1>3. SucceededIsEnforced' /\ EnforcedOnce'
  BY DEF IInv, SucceededIsEnforced, EnforcedOnce, Elements
<1> QED
  BY <1>1, <1>2, <1>3 DEF IInv

\* A withdrawal is appended that was not there.
LEMMA StoringStep ==
    ASSUME IInv, WithdrawalTypeOK', NEW o \in Operators, operator[o].pc = "put", Stores(o),
           UNCHANGED review,
           succeeded' \subseteq succeeded \cup {operator[o].event},
           \A p \in Operators \ {o} : operator'[p] = operator[p],
           operator'[o] = Idle
             \/ operator'[o] = [operator[o] EXCEPT !.pc = "read", !.attempt = @ + 1]
    PROVE  IInv'
<1> DEFINE e == operator[o].event
<1>1. /\ enforced \in Seq(Event) /\ e \in Event /\ Saved(e)
      /\ operator[o].seen = enforced /\ e \notin Elements(enforced)
  BY DEF IInv, Informed, WithdrawalTypeOK, Stores, Saved
<1>2. /\ enforced' = Append(enforced, e)
      /\ Elements(enforced') = Elements(enforced) \cup {e}
      /\ Len(enforced') = Len(enforced) + 1 /\ Len(enforced) \in Nat
      /\ \A i \in 1..Len(enforced) : enforced'[i] = enforced[i]
      /\ enforced'[Len(enforced) + 1] = e
  BY <1>1, AppendElements DEF Stores
<1>3. \A d \in Elements(enforced') : Saved(d)'
  BY <1>1, <1>2, SavedUnchanged DEF IInv
<1>4. SucceededIsEnforced'
  BY <1>2 DEF IInv, SucceededIsEnforced, Elements
<1>5. EnforcedOnce'
  <2>1. \A i \in 1..Len(enforced) : enforced'[i] # e
    BY <1>1, <1>2 DEF Elements
  <2>2. 1..Len(enforced') = (1..Len(enforced)) \cup {Len(enforced) + 1}
    BY <1>2
  <2> QED
    BY <1>2, <2>1, <2>2 DEF IInv, EnforcedOnce
<1>6. ASSUME NEW p \in Operators \ {o} PROVE Informed(p)'
  <2>1. /\ Informed(p) /\ operator'[p] = operator[p]
        /\ Len(operator[p].seen) \in Nat /\ operator[p].attempt \in Nat
    BY BoundsAssumption DEF IInv, WithdrawalTypeOK
  <2> QED
    BY <2>1, <1>2, SavedUnchanged DEF Informed, Elements
<1>7. Informed(o)'
  <2>1. operator[o].attempt \in Nat /\ operator[o].attempt <= Len(enforced)
    BY BoundsAssumption DEF IInv, WithdrawalTypeOK, Informed
  <2>2. CASE operator'[o] = Idle
    BY <2>2, <1>2 DEF Informed, Idle
  <2>3. CASE operator'[o] = [operator[o] EXCEPT !.pc = "read", !.attempt = @ + 1]
    <3>1. /\ operator'[o].pc = "read" /\ operator'[o].event = e
          /\ operator'[o].attempt = operator[o].attempt + 1
      BY <2>3 DEF IInv, WithdrawalTypeOK
    <3> QED
      BY <3>1, <2>1, <1>1, <1>2, SavedUnchanged DEF Informed
  <2> QED
    BY <2>2, <2>3
<1> QED
  BY <1>3, <1>4, <1>5, <1>6, <1>7 DEF IInv

----------------------------------------------------------------------------
(* One lemma per action *)

LEMMA ApproveInv ==
    ASSUME IInv, NEW b \in Books, Approve(b)
    PROVE  IInv'
<1> DEFINE d == [kind |-> "approve", affected |-> {}]
<1>1. d \in Decision /\ Save(b, d) /\ UNCHANGED <<enforced, operator, succeeded, faults>>
  BY DEF Approve, Decision
<1>2. /\ review' \in [Books -> Seq(Decision)]
      /\ \A c \in Books : Len(review'[c]) <= MaxReview
      /\ \A e \in Event : Saved(e) => Saved(e)'
  BY <1>1, SaveKeepsSaved DEF IInv
<1>3. WithdrawalTypeOK'
  BY <1>1, <1>2 DEF IInv, WithdrawalTypeOK
<1> QED
  BY <1>1, <1>2, <1>3, QuietStep

LEMMA DecideInv ==
    ASSUME IInv, NEW o \in Operators, NEW b \in Books, Decide(o, b)
    PROVE  IInv'
<1>1. PICK affected \in SUBSET Approvals(b) :
        /\ Save(b, [kind |-> "withdraw", affected |-> affected])
        /\ operator' = [operator EXCEPT ![o] =
              Recording([book |-> b, id |-> Len(review[b]) + 1, affected |-> affected], TRUE)]
        /\ UNCHANGED <<enforced, succeeded, faults>>
  BY DEF Decide
<1> DEFINE d == [kind |-> "withdraw", affected |-> affected]
<1>2. review[b] \in Seq(Decision) /\ Len(review[b]) \in Nat /\ Len(review[b]) <= MaxReview
  BY DEF IInv, WithdrawalTypeOK
<1>3. affected \in SUBSET Positions
  BY <1>2, BoundsAssumption DEF Approvals, Positions
<1>4. d \in Decision
  BY <1>3 DEF Decision
<1>5. /\ review' \in [Books -> Seq(Decision)]
      /\ \A c \in Books : Len(review'[c]) <= MaxReview
      /\ Len(review[b]) + 1 \in Positions
      /\ review'[b][Len(review[b]) + 1] = d
      /\ \A x \in Event : Saved(x) => Saved(x)'
  BY <1>1, <1>4, SaveKeepsSaved DEF IInv
<1>6. PICK e \in Event : e = [book |-> b, id |-> Len(review[b]) + 1, affected |-> affected]
  BY <1>3, <1>5 DEF Event
<1>7. Saved(e)'
  <2>1. Len(review'[b]) = Len(review[b]) + 1
    BY <1>1, <1>2, <1>4, AppendElements DEF Save, IInv, WithdrawalTypeOK
  <2> QED
    BY <2>1, <1>2, <1>5, <1>6 DEF Saved, Withdrawals
<1>8. /\ operator'[o] = Recording(e, TRUE)
      /\ \A p \in Operators \ {o} : operator'[p] = operator[p]
  BY <1>1, <1>6 DEF IInv, WithdrawalTypeOK
<1>9. operator' \in [Operators -> [pc : {"idle", "read", "put"}, event : Event \cup {None},
                                   holds : BOOLEAN, seen : Seq(Event), attempt : 0..(Attempts - 1)]]
  BY <1>1, <1>6, BoundsAssumption DEF IInv, WithdrawalTypeOK, Recording
<1>10. WithdrawalTypeOK'
  BY <1>1, <1>5, <1>9 DEF IInv, WithdrawalTypeOK
<1>11. Informed(o)'
  <2>1. Len(enforced') \in Nat
    BY <1>1 DEF IInv, WithdrawalTypeOK
  <2> QED
    BY <2>1, <1>7, <1>8 DEF Informed, Recording
<1> QED
  BY <1>1, <1>5, <1>8, <1>10, <1>11, QuietStep

LEMMA RetryInv ==
    ASSUME IInv, NEW o \in Operators, NEW b \in Books, Retry(o, b)
    PROVE  IInv'
<1>1. PICK i \in Withdrawals(b) :
        /\ operator' = [operator EXCEPT ![o] = Recording(WithdrawalOf(b, i), FALSE)]
        /\ UNCHANGED <<review, enforced, succeeded, faults>>
  BY DEF Retry
<1> DEFINE e == WithdrawalOf(b, i)
<1>2. review[b] \in Seq(Decision) /\ Len(review[b]) \in Nat /\ Len(review[b]) <= MaxReview
  BY DEF IInv, WithdrawalTypeOK
<1>3. i \in 1..Len(review[b]) /\ i \in Positions
  BY <1>2, BoundsAssumption DEF Withdrawals, Positions
<1>4. e \in Event
  <2>1. review[b][i] \in Decision
    BY <1>2, <1>3
  <2> QED
    BY <2>1, <1>3 DEF WithdrawalOf, Event, Decision
<1>5. Saved(e)
  BY <1>4 DEF Saved, WithdrawalOf
<1>6. /\ operator'[o] = Recording(e, FALSE)
      /\ \A p \in Operators \ {o} : operator'[p] = operator[p]
  BY <1>1 DEF IInv, WithdrawalTypeOK
<1>7. operator' \in [Operators -> [pc : {"idle", "read", "put"}, event : Event \cup {None},
                                   holds : BOOLEAN, seen : Seq(Event), attempt : 0..(Attempts - 1)]]
  BY <1>1, <1>4, BoundsAssumption DEF IInv, WithdrawalTypeOK, Recording
<1>8. WithdrawalTypeOK'
  BY <1>1, <1>7 DEF IInv, WithdrawalTypeOK
<1>9. Informed(o)'
  <2>1. Len(enforced') \in Nat
    BY <1>1 DEF IInv, WithdrawalTypeOK
  <2> QED
    BY <2>1, <1>1, <1>5, <1>6, SavedUnchanged DEF Informed, Recording
<1> QED
  BY <1>1, <1>6, <1>8, <1>9, SavedUnchanged, QuietStep

LEMMA ReadInv ==
    ASSUME IInv, NEW o \in Operators, Read(o)
    PROVE  IInv'
<1>1. /\ operator[o].pc = "read" /\ Saved(operator[o].event)
      /\ UNCHANGED <<review, enforced, faults>>
  BY DEF IInv, Informed, Read
<1>2. operator[o].event \in Event /\ Len(enforced) \in Nat
  BY <1>1 DEF Saved, IInv, WithdrawalTypeOK
<1>3. CASE Recorded(o)
  <2>1. /\ operator' = [operator EXCEPT ![o] = Idle]
        /\ succeeded' = succeeded \cup {operator[o].event}
        /\ operator[o].event \in Elements(enforced)
    BY <1>3 DEF Read, Recorded, Current, Succeed
  <2>2. WithdrawalTypeOK'
    BY <2>1, <1>1, <1>2, BoundsAssumption DEF IInv, WithdrawalTypeOK, Idle
  <2>3. Informed(o)'
    BY <2>1, <1>1, <1>2 DEF IInv, WithdrawalTypeOK, Informed, Idle
  <2> QED
    BY <2>1, <2>2, <2>3, <1>1, SavedUnchanged, QuietStep DEF IInv, WithdrawalTypeOK
<1>4. CASE ~Recorded(o)
  <2>1. /\ operator' = [operator EXCEPT ![o].pc = "put", ![o].seen = enforced]
        /\ UNCHANGED succeeded
        /\ operator[o].event \notin Elements(enforced)
    BY <1>4 DEF Read, Recorded, Current
  <2>2. operator'[o] = [operator[o] EXCEPT !.pc = "put", !.seen = enforced]
    BY <2>1 DEF IInv, WithdrawalTypeOK
  <2>3. WithdrawalTypeOK'
    <3>1. operator'[o] \in [pc : {"idle", "read", "put"}, event : Event \cup {None},
                            holds : BOOLEAN, seen : Seq(Event), attempt : 0..(Attempts - 1)]
      BY <2>2 DEF IInv, WithdrawalTypeOK
    <3>2. operator' = [operator EXCEPT ![o] = operator'[o]]
      BY <2>1, <2>2 DEF IInv, WithdrawalTypeOK
    <3> QED
      BY <3>1, <3>2, <1>1, <1>4, <2>1 DEF IInv, WithdrawalTypeOK
  <2>4. Informed(o)'
    BY <2>1, <2>2, <1>1, <1>2, SavedUnchanged DEF IInv, WithdrawalTypeOK, Informed, Elements
  <2> QED
    BY <2>1, <2>3, <2>4, <1>1, SavedUnchanged, QuietStep DEF IInv, WithdrawalTypeOK
<1> QED
  BY <1>3, <1>4

\* What the loop does after a conflict: it ends, or starts over with one attempt less.
LEMMA LoopStep ==
    ASSUME WithdrawalTypeOK, NEW o \in Operators, Loop(o)
    PROVE  /\ operator' \in [Operators -> [pc : {"idle", "read", "put"}, event : Event \cup {None},
                                   holds : BOOLEAN, seen : Seq(Event), attempt : 0..(Attempts - 1)]]
           /\ \/ operator'[o] = Idle
              \/ operator'[o] = [operator[o] EXCEPT !.pc = "read", !.attempt = @ + 1]
           /\ \A p \in Operators \ {o} : operator'[p] = operator[p]
           /\ UNCHANGED succeeded
<1> DEFINE Command == [pc : {"idle", "read", "put"}, event : Event \cup {None},
                       holds : BOOLEAN, seen : Seq(Event), attempt : 0..(Attempts - 1)]
<1>1. operator \in [Operators -> Command] /\ operator[o] \in Command
  BY DEF WithdrawalTypeOK
<1>2. UNCHANGED succeeded
  BY DEF Loop
<1>3. CASE operator[o].attempt + 1 = Attempts
  <2>1. operator' = [operator EXCEPT ![o] = Idle]
    BY <1>3 DEF Loop
  <2>2. Idle \in Command
    BY BoundsAssumption DEF Idle
  <2> QED
    BY <2>1, <2>2, <1>1, <1>2
<1>4. CASE operator[o].attempt + 1 # Attempts
  <2> DEFINE next == [operator[o] EXCEPT !.pc = "read", !.attempt = @ + 1]
  <2>1. operator' = [operator EXCEPT ![o] = next]
    BY <1>4 DEF Loop
  <2>2. operator[o].attempt + 1 \in 0..(Attempts - 1)
    BY <1>1, <1>4, BoundsAssumption
  <2>3. next \in Command
    BY <1>1, <2>2
  <2> QED
    BY <2>1, <2>3, <1>1, <1>2
<1> QED
  BY <1>3, <1>4

LEMMA PutInv ==
    ASSUME IInv, NEW o \in Operators, Put(o)
    PROVE  IInv'
<1>1. /\ operator[o].pc = "put" /\ Stores(o) /\ UNCHANGED <<review, faults>>
      /\ operator' = [operator EXCEPT ![o] = Idle]
      /\ succeeded' = succeeded \cup {operator[o].event}
  BY DEF Put, Succeed
<1>2. operator[o].event \in Event
  BY <1>1 DEF IInv, Informed, Saved
<1>3. enforced' \in Seq(Event)
  BY <1>1, <1>2 DEF Stores, IInv, WithdrawalTypeOK
<1>4. WithdrawalTypeOK'
  BY <1>1, <1>2, <1>3, BoundsAssumption DEF IInv, WithdrawalTypeOK, Idle
<1>5. operator'[o] = Idle /\ \A p \in Operators \ {o} : operator'[p] = operator[p]
  BY <1>1 DEF IInv, WithdrawalTypeOK
<1> QED
  BY <1>1, <1>4, <1>5, StoringStep

\* A conflict without a write of its own: what was read is a proper part of what is there.
LEMMA ConflictInv ==
    ASSUME IInv, NEW o \in Operators, Conflict(o)
    PROVE  IInv'
<1>1. /\ operator[o].pc = "put" /\ enforced # operator[o].seen /\ Loop(o)
      /\ UNCHANGED <<review, enforced, faults>>
  BY DEF Conflict
<1>2. /\ \/ operator'[o] = Idle
         \/ operator'[o] = [operator[o] EXCEPT !.pc = "read", !.attempt = @ + 1]
      /\ \A p \in Operators \ {o} : operator'[p] = operator[p]
      /\ UNCHANGED succeeded
      /\ WithdrawalTypeOK'
  BY <1>1, LoopStep DEF IInv, WithdrawalTypeOK
<1>3. /\ operator[o].attempt \in Nat
      /\ Len(operator[o].seen) \in Nat /\ Len(enforced) \in Nat
  BY BoundsAssumption DEF IInv, WithdrawalTypeOK
<1>4. Saved(operator[o].event) /\ operator[o].attempt + 1 <= Len(enforced)
  BY <1>1, <1>3 DEF IInv, Informed
<1>5. Informed(o)'
  <2>1. CASE operator'[o] = Idle
    BY <2>1, <1>1, <1>3 DEF Informed, Idle
  <2>2. CASE operator'[o] = [operator[o] EXCEPT !.pc = "read", !.attempt = @ + 1]
    <3>1. /\ operator'[o].pc = "read" /\ operator'[o].event = operator[o].event
          /\ operator'[o].attempt = operator[o].attempt + 1
      BY <2>2 DEF IInv, WithdrawalTypeOK
    <3> QED
      BY <3>1, <1>1, <1>4, SavedUnchanged DEF Informed
  <2> QED
    BY <1>2, <2>1, <2>2
<1> QED
  BY <1>1, <1>2, <1>5, SavedUnchanged, QuietStep DEF IInv, WithdrawalTypeOK

LEMMA StoredConflictInv ==
    ASSUME IInv, NEW o \in Operators, StoredConflict(o)
    PROVE  IInv'
<1>1. /\ operator[o].pc = "put" /\ Stores(o) /\ Loop(o)
      /\ UNCHANGED review /\ faults < MaxFaults /\ faults' = faults + 1
  BY DEF StoredConflict, Fault
<1>2. enforced' \in Seq(Event)
  BY <1>1 DEF Stores, IInv, Informed, Saved, WithdrawalTypeOK
<1>3. faults' \in 0..MaxFaults
  BY <1>1, BoundsAssumption DEF IInv, WithdrawalTypeOK
<1>4. /\ \/ operator'[o] = Idle
         \/ operator'[o] = [operator[o] EXCEPT !.pc = "read", !.attempt = @ + 1]
      /\ \A p \in Operators \ {o} : operator'[p] = operator[p]
      /\ UNCHANGED succeeded
      /\ WithdrawalTypeOK'
  BY <1>1, <1>2, <1>3, LoopStep DEF IInv, WithdrawalTypeOK
<1> QED
  BY <1>1, <1>4, StoringStep

LEMMA LostInv ==
    ASSUME IInv, NEW o \in Operators, Lost(o)
    PROVE  IInv'
<1>1. /\ operator' = [operator EXCEPT ![o] = Idle]
      /\ UNCHANGED <<review, succeeded>> /\ faults < MaxFaults /\ faults' = faults + 1
      /\ \/ UNCHANGED enforced
         \/ operator[o].pc = "put" /\ Stores(o)
  BY DEF Lost, Fault
<1>2. faults' \in 0..MaxFaults
  BY <1>1, BoundsAssumption DEF IInv, WithdrawalTypeOK
<1>3. enforced' \in Seq(Event)
  <2>1. enforced \in Seq(Event)
    BY DEF IInv, WithdrawalTypeOK
  <2>2. CASE operator[o].pc = "put" /\ Stores(o)
    <3>1. operator[o].event \in Event
      BY <2>2 DEF IInv, Informed, Saved
    <3> QED
      BY <2>1, <2>2, <3>1 DEF Stores
  <2> QED
    BY <1>1, <2>1, <2>2
<1>4. operator'[o] = Idle /\ \A p \in Operators \ {o} : operator'[p] = operator[p]
  BY <1>1 DEF IInv, WithdrawalTypeOK
<1>5. WithdrawalTypeOK'
  BY <1>1, <1>2, <1>3, BoundsAssumption DEF IInv, WithdrawalTypeOK, Idle
<1>6. CASE UNCHANGED enforced
  <2>1. Len(enforced) \in Nat
    BY DEF IInv, WithdrawalTypeOK
  <2>2. Informed(o)'
    BY <2>1, <1>4, <1>6 DEF Informed, Idle
  <2> QED
    BY <2>2, <1>1, <1>4, <1>5, <1>6, SavedUnchanged, QuietStep DEF IInv, WithdrawalTypeOK
<1>7. CASE operator[o].pc = "put" /\ Stores(o)
  BY <1>1, <1>4, <1>5, <1>7, StoringStep
<1> QED
  BY <1>1, <1>6, <1>7

LEMMA StutterInv ==
    ASSUME IInv, UNCHANGED vars
    PROVE  IInv'
  BY DEF IInv, WithdrawalTypeOK, Informed, Saved, Withdrawals, SucceededIsEnforced, EnforcedOnce,
         Elements, vars

----------------------------------------------------------------------------
(* Theorems *)

\* Every reachable state satisfies the invariant.
THEOREM WithdrawalInvariance == Spec => []IInv
<1>1. IInv /\ [Next]_vars => IInv'
  BY ApproveInv, DecideInv, RetryInv, ReadInv, PutInv, ConflictInv, StoredConflictInv, LostInv,
     StutterInv
  DEF Next
<1> QED
  BY <1>1, InitIInv, PTL DEF Spec

\* The review, the control object and the commands keep their types and bounds.
THEOREM WithdrawalTypeCorrect == Spec => []WithdrawalTypeOK
<1>1. IInv => WithdrawalTypeOK
  BY DEF IInv
<1> QED
  BY <1>1, WithdrawalInvariance, PTL

\* What record_withdrawal reported as recorded stays in the control object, through any
\* number of concurrent commands, conflicts, lost answers and crashes.
THEOREM ReportedIsEnforced == Spec => []SucceededIsEnforced
<1>1. IInv => SucceededIsEnforced
  BY DEF IInv
<1> QED
  BY <1>1, WithdrawalInvariance, PTL

\* A withdrawal is in the control object at most once, however often it is retried.
THEOREM RecordedOnce == Spec => []EnforcedOnce
<1>1. IInv => EnforcedOnce
  BY DEF IInv
<1> QED
  BY <1>1, WithdrawalInvariance, PTL

\* The two together: a withdrawal reported as recorded is in the control object, once.
THEOREM EnforcementStands == Spec => []EnforcementHolds
  BY ReportedIsEnforced, RecordedOnce, PTL DEF EnforcementHolds

\* record_withdrawal's attempts are used up only by withdrawals others recorded.
THEOREM GivesUpToOthers == Spec => []ConflictsAreProgress
<1>1. IInv => ConflictsAreProgress
  BY DEF IInv, Informed, ConflictsAreProgress
<1> QED
  BY <1>1, WithdrawalInvariance, PTL

\* No answer of Library carries a section whose withdrawal was reported, whichever
\* publication the request names.
THEOREM NoWithdrawnAnswer == Spec => []WithdrawnNotShown
<1>1. ASSUME IInv PROVE WithdrawnNotShown
  <2> SUFFICES ASSUME NEW e \in succeeded
               PROVE  /\ Shown \cap ({e.book} \X e.affected) = {}
                      /\ e.affected # {} => <<e.book, Page>> \notin Shown
    BY DEF WithdrawnNotShown
  <2>1. e \in Elements(enforced) /\ e.affected \subseteq Positions
    BY <1>1 DEF IInv, WithdrawalTypeOK, SucceededIsEnforced, Event
  <2>2. ASSUME NEW i \in e.affected PROVE <<e.book, i>> \notin Shown
    <3>1. i # Page
      BY <2>1, BoundsAssumption DEF Positions, Page
    <3>2. Affects(e, <<e.book, i>>)
      BY <3>1 DEF Affects
    <3> QED
      BY <3>2, <2>1 DEF Shown, Suppressed
  <2>3. ASSUME e.affected # {} PROVE <<e.book, Page>> \notin Shown
    <3>1. Affects(e, <<e.book, Page>>)
      BY <2>3 DEF Affects
    <3> QED
      BY <3>1, <2>1 DEF Shown, Suppressed
  <2> QED
    BY <2>2, <2>3
<1> QED
  BY <1>1, WithdrawalInvariance, PTL

\* The control object never suppresses the approval a review has in force: what it holds
\* was saved in the review before, so it revokes there what it suppresses here.
THEOREM RepairsServed == Spec => []RepairIsServed
<1>1. ASSUME IInv PROVE RepairIsServed
  <2> SUFFICES ASSUME NEW b \in Books, NEW i \in InForce(b),
                      NEW e \in Elements(enforced), Affects(e, <<b, i>>)
               PROVE  FALSE
    BY DEF RepairIsServed, Suppressed
  <2>1. i \in Approvals(b) /\ i \notin Revoked(b)
    BY DEF InForce
  <2>2. i # Page
    BY <1>1, <2>1 DEF Approvals, Page, IInv, WithdrawalTypeOK
  <2>3. e.book = b /\ i \in e.affected
    BY <2>2 DEF Affects
  <2>4. e.id \in Withdrawals(b) /\ e.affected = review[b][e.id].affected
    BY <1>1, <2>3 DEF IInv, Saved
  <2> QED
    BY <2>1, <2>3, <2>4 DEF Revoked
<1> QED
  BY <1>1, WithdrawalInvariance, PTL
=============================================================================
