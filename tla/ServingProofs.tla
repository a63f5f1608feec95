---------------------------- MODULE ServingProofs -----------------------------
(***************************************************************************)
(* Proofs about what serves readers: the intake of owner reports, the     *)
(* search engine's collections, the cache of manifests, the dashboard,     *)
(* paged listings and the log of tool calls.  For any number of threads,   *)
(* replicas, publications, restarts and changes, the hourly limit of the   *)
(* intake holds, a prepared publication is searched whole, a manifest is   *)
(* answered as its file was during the call, what the dashboard shows as   *)
(* current was read in time, a listing followed to its end is whole, and   *)
(* the totals of the log count each call once.                             *)
(***************************************************************************)
EXTENDS OwnerReports, BookSearch, ManifestCache, Dashboard, LibraryWalk, UsageLog,
        FiniteSetTheorems, SequenceTheorems, WellFoundedInduction, TLAPS

----------------------------------------------------------------------------
(* The intake of owner reports *)

IntakeTypeOK ==
    /\ hour \in Hours
    /\ places \in [Hours -> SUBSET Submissions]
    /\ receipts \in [Submissions -> Payloads \cup {Nothing}]
    /\ intake \in [Intakes -> [pc : {"free", "admit", "reserve", "create"},
                               id : Submissions \cup {Nothing}, payload : Payloads \cup {Nothing},
                               hour : Hours, seen : SUBSET Submissions, try : Nat]]
    /\ received \subseteq Submissions \X Payloads
    /\ losses \in Nat

\* What a thread knows where it is: the list it read had room, the place it took is held.
Fits(t) ==
    /\ intake[t].pc # "free" => intake[t].id \in Submissions /\ intake[t].payload \in Payloads
    /\ intake[t].pc = "reserve" =>
         IsFiniteSet(intake[t].seen) /\ Cardinality(intake[t].seen) < PerHour
    /\ intake[t].pc = "create" => intake[t].id \in places[intake[t].hour]

HoursLimited == \A h \in Hours : IsFiniteSet(places[h]) /\ Cardinality(places[h]) <= PerHour
StoredAdmitted == \A s \in Submissions : receipts[s] # Nothing => \E h \in Hours : s \in places[h]
AnsweredStored == \A r \in received : receipts[r[1]] = r[2]

OwnerInv == /\ IntakeTypeOK
            /\ \A t \in Intakes : Fits(t)
            /\ HoursLimited /\ StoredAdmitted /\ AnsweredStored

----------------------------------------------------------------------------
(* What the writes do *)

\* No place is ever given back.
PlacesKept == \A h \in Hours : places[h] \subseteq places'[h]

LEMMA FitsKept ==
    ASSUME IntakeTypeOK, PlacesKept, NEW t \in Intakes, Fits(t), intake'[t] = intake[t]
    PROVE  Fits(t)'
  BY DEF IntakeTypeOK, PlacesKept, Fits

\* A place is taken where the list that was read had room.
LEMMA TakesFit ==
    ASSUME OwnerInv, NEW t \in Intakes, intake[t].pc = "reserve", Takes(t)
    PROVE  /\ places' \in [Hours -> SUBSET Submissions]
           /\ PlacesKept /\ HoursLimited'
           /\ intake[t].id \in places'[intake[t].hour]
<1> DEFINE h == intake[t].hour
<1>1. h \in Hours /\ intake[t].id \in Submissions /\ places[h] \in SUBSET Submissions
  BY DEF OwnerInv, IntakeTypeOK, Fits
<1>2. IsFiniteSet(places[h]) /\ Cardinality(places[h]) < PerHour
  BY DEF OwnerInv, Fits, Takes
<1>3. /\ places'[h] = places[h] \cup {intake[t].id}
      /\ \A g \in Hours \ {h} : places'[g] = places[g]
      /\ places' \in [Hours -> SUBSET Submissions]
  BY <1>1 DEF OwnerInv, IntakeTypeOK, Takes
<1>4. IsFiniteSet(places'[h]) /\ Cardinality(places'[h]) <= PerHour
  <2>1. /\ IsFiniteSet(places'[h])
        /\ \/ Cardinality(places'[h]) = Cardinality(places[h])
           \/ Cardinality(places'[h]) = Cardinality(places[h]) + 1
    <3>1. /\ IsFiniteSet(places[h] \cup {intake[t].id})
          /\ Cardinality(places[h] \cup {intake[t].id}) =
               IF intake[t].id \in places[h] THEN Cardinality(places[h])
               ELSE Cardinality(places[h]) + 1
      BY <1>2, FS_AddElement
    <3>2. QED BY <3>1, <1>3
  <2>2. Cardinality(places[h]) \in Nat
    BY <1>2, FS_CardinalityType
  <2>3. QED BY <2>1, <2>2, <1>2, IntakeAssumption
<1>5. HoursLimited'
  BY <1>3, <1>4 DEF OwnerInv, HoursLimited
<1>6. QED BY <1>1, <1>3, <1>5 DEF PlacesKept

\* A receipt is created where there is none, for a submission that holds a place.
LEMMA StoresFit ==
    ASSUME OwnerInv, NEW t \in Intakes, intake[t].pc = "create",
           receipts[intake[t].id] = Nothing, UNCHANGED places,
           receipts' = [receipts EXCEPT ![intake[t].id] = intake[t].payload]
    PROVE  /\ receipts' \in [Submissions -> Payloads \cup {Nothing}]
           /\ StoredAdmitted'
           /\ receipts'[intake[t].id] = intake[t].payload
           /\ \A r \in received : receipts'[r[1]] = r[2]
<1>1. /\ intake[t].id \in Submissions /\ intake[t].payload \in Payloads
      /\ intake[t].hour \in Hours /\ intake[t].id \in places[intake[t].hour]
  BY DEF OwnerInv, IntakeTypeOK, Fits
<1>2. /\ receipts' \in [Submissions -> Payloads \cup {Nothing}]
      /\ receipts'[intake[t].id] = intake[t].payload
      /\ \A s \in Submissions \ {intake[t].id} : receipts'[s] = receipts[s]
  BY <1>1 DEF OwnerInv, IntakeTypeOK
<1>3. StoredAdmitted'
  BY <1>1, <1>2 DEF OwnerInv, StoredAdmitted
<1>4. ASSUME NEW r \in received PROVE receipts'[r[1]] = r[2]
  <2>1. r[1] \in Submissions /\ r[2] \in Payloads /\ receipts[r[1]] = r[2]
    BY DEF OwnerInv, IntakeTypeOK, AnsweredStored
  <2>2. r[1] # intake[t].id
    BY <2>1, IntakeAssumption
  <2>3. QED BY <2>1, <2>2, <1>2
<1>5. QED BY <1>2, <1>3, <1>4

\* A receipt is shown only for the payload it binds.
LEMMA PreviousFits ==
    ASSUME OwnerInv, NEW id \in Submissions, NEW payload \in Payloads, Previous(id, payload),
           UNCHANGED receipts
    PROVE  AnsweredStored' /\ received' \subseteq Submissions \X Payloads
  BY DEF OwnerInv, IntakeTypeOK, AnsweredStored, Previous

\* A thread that leaves, or looks again, carries no claim.
LEMMA LeaveFits ==
    ASSUME IntakeTypeOK, PlacesKept, \A u \in Intakes : Fits(u), NEW t \in Intakes,
           LeaveIntake(t) \/ (LookAgain(t) /\ intake[t].pc # "free")
    PROVE  /\ intake' \in [Intakes -> [pc : {"free", "admit", "reserve", "create"},
                               id : Submissions \cup {Nothing}, payload : Payloads \cup {Nothing},
                               hour : Hours, seen : SUBSET Submissions, try : Nat]]
           /\ \A u \in Intakes : Fits(u)'
<1> DEFINE Rec == [pc : {"free", "admit", "reserve", "create"},
                   id : Submissions \cup {Nothing}, payload : Payloads \cup {Nothing},
                   hour : Hours, seen : SUBSET Submissions, try : Nat]
<1>0. NoIntake \in Rec
  BY IntakeAssumption DEF NoIntake, Hours
<1>1. \A u \in Intakes \ {t} : intake'[u] = intake[u]
  BY DEF IntakeTypeOK, LeaveIntake, LookAgain
<1>2. \/ intake'[t] = NoIntake
      \/ /\ intake[t].pc # "free"
         /\ intake'[t] = [intake[t] EXCEPT !.pc = "admit", !.try = intake[t].try + 1]
  BY DEF IntakeTypeOK, LeaveIntake, LookAgain
<1>3. intake[t] \in Rec
  BY DEF IntakeTypeOK
<1>4. intake'[t] \in Rec /\ Fits(t)'
  <2>1. CASE intake'[t] = NoIntake
    BY <2>1, <1>0 DEF NoIntake, Fits
  <2>2. CASE /\ intake[t].pc # "free"
             /\ intake'[t] = [intake[t] EXCEPT !.pc = "admit", !.try = intake[t].try + 1]
    <3>1. intake[t].try + 1 \in Nat
      BY <1>3
    <3>2. /\ intake'[t] \in Rec /\ intake'[t].pc = "admit"
          /\ intake'[t].id = intake[t].id /\ intake'[t].payload = intake[t].payload
      BY <2>2, <1>3, <3>1
    <3>3. QED BY <3>2, <2>2 DEF Fits
  <2>3. QED BY <1>2, <2>1, <2>2
<1>5. intake' \in [Intakes -> Rec]
  BY <1>1, <1>4 DEF IntakeTypeOK, LeaveIntake, LookAgain
<1>6. \A u \in Intakes \ {t} : Fits(u)'
  BY <1>1, FitsKept
<1>7. QED BY <1>4, <1>5, <1>6

----------------------------------------------------------------------------
(* The inductive invariant *)

LEMMA OwnerInitInv == OwnerInit => OwnerInv
<1> SUFFICES ASSUME OwnerInit PROVE OwnerInv
  OBVIOUS
<1> USE DEF OwnerInit
<1>1. 0 \in Hours
  BY IntakeAssumption DEF Hours
<1>2. IntakeTypeOK
  BY <1>1 DEF IntakeTypeOK, NoIntake
<1>3. HoursLimited
  BY FS_EmptySet, IntakeAssumption DEF HoursLimited
<1>4. QED BY <1>2, <1>3 DEF OwnerInv, Fits, NoIntake, StoredAdmitted, AnsweredStored

LEMMA SubmitInv ==
    ASSUME OwnerInv, NEW t \in Intakes, Submit(t)
    PROVE  OwnerInv'
<1>1. PICK id \in Submissions, payload \in Payloads :
        /\ intake[t].pc = "free"
        /\ IF receipts[id] # Nothing
           THEN Previous(id, payload) /\ UNCHANGED intake
           ELSE /\ intake' = [intake EXCEPT ![t] = [pc |-> "admit", id |-> id, payload |-> payload,
                                                    hour |-> hour, seen |-> {}, try |-> 0]]
                /\ UNCHANGED received
        /\ UNCHANGED <<hour, places, receipts, losses>>
  BY DEF Submit
<1>2. AnsweredStored' /\ received' \subseteq Submissions \X Payloads
  BY <1>1, PreviousFits DEF OwnerInv, IntakeTypeOK, AnsweredStored
<1>3. IntakeTypeOK'
  BY <1>1, <1>2 DEF OwnerInv, IntakeTypeOK
<1>4. ASSUME NEW u \in Intakes PROVE Fits(u)'
  <2>1. CASE intake'[u] = intake[u]
    BY <2>1, <1>1, FitsKept DEF OwnerInv, PlacesKept
  <2>2. CASE /\ intake'[u].pc = "admit"
             /\ intake'[u].id = id /\ intake'[u].payload = payload
    BY <2>2 DEF Fits
  <2>3. QED BY <1>1, <2>1, <2>2 DEF OwnerInv, IntakeTypeOK
<1>5. QED
  BY <1>1, <1>2, <1>3, <1>4 DEF OwnerInv, HoursLimited, StoredAdmitted

LEMMA LookInv ==
    ASSUME OwnerInv, NEW t \in Intakes, Look(t)
    PROVE  OwnerInv'
<1>1. UNCHANGED <<hour, places, receipts, received, losses>> /\ PlacesKept /\ intake[t].pc = "admit"
  BY DEF Look, PlacesKept
<1>2. IntakeTypeOK' /\ \A u \in Intakes : Fits(u)'
  <2>1. CASE LeaveIntake(t)
    BY <2>1, <1>1, LeaveFits DEF OwnerInv, IntakeTypeOK
  <2>2. CASE Holds(t) /\ intake' = [intake EXCEPT ![t].pc = "create"]
    BY <2>2, <1>1 DEF OwnerInv, IntakeTypeOK, Fits, Holds
  <2>3. CASE HourRoom(t) /\ intake' = [intake EXCEPT ![t] = [@ EXCEPT !.pc = "reserve",
                                                   !.seen = places[intake[t].hour]]]
    <3>1. /\ intake[t].hour \in Hours /\ places[intake[t].hour] \in SUBSET Submissions
          /\ IsFiniteSet(places[intake[t].hour])
      BY DEF OwnerInv, IntakeTypeOK, HoursLimited
    <3>2. QED BY <2>3, <3>1, <1>1 DEF OwnerInv, IntakeTypeOK, Fits, HourRoom
  <2>4. QED BY <2>1, <2>2, <2>3 DEF Look
<1>3. QED BY <1>1, <1>2 DEF OwnerInv, HoursLimited, StoredAdmitted, AnsweredStored

\* The place is taken, whether its answer arrives or not.
LEMMA ReserveInv ==
    ASSUME OwnerInv, NEW t \in Intakes,
           ReserveIn(t) \/ StoredOvertaken(t)
           \/ (ReceiptUnconfirmed(t) /\ intake[t].pc = "reserve" /\ Takes(t) /\ UNCHANGED receipts)
    PROVE  OwnerInv'
<1>1. /\ intake[t].pc = "reserve" /\ Takes(t)
      /\ UNCHANGED <<hour, receipts, received>> /\ losses' \in Nat
  BY DEF ReserveIn, StoredOvertaken, ReceiptUnconfirmed, Loss, OwnerInv, IntakeTypeOK
<1>2. /\ places' \in [Hours -> SUBSET Submissions]
      /\ PlacesKept /\ HoursLimited'
      /\ intake[t].id \in places'[intake[t].hour]
  BY <1>1, TakesFit
<1>3. IntakeTypeOK' /\ \A u \in Intakes : Fits(u)'
  <2>1. CASE ReserveIn(t)
    <3>1. intake' = [intake EXCEPT ![t].pc = "create"]
      BY <2>1 DEF ReserveIn
    <3>2. IntakeTypeOK'
      BY <3>1, <1>1, <1>2 DEF OwnerInv, IntakeTypeOK
    <3>3. Fits(t)'
      BY <3>1, <1>1, <1>2 DEF OwnerInv, IntakeTypeOK, Fits
    <3>4. \A u \in Intakes \ {t} : intake'[u] = intake[u]
      BY <3>1 DEF OwnerInv, IntakeTypeOK
    <3>5. QED BY <3>2, <3>3, <3>4, <1>2, FitsKept DEF OwnerInv
  <2>2. CASE LeaveIntake(t) \/ LookAgain(t)
    BY <2>2, <1>1, <1>2, LeaveFits DEF OwnerInv, IntakeTypeOK
  <2>3. QED BY <2>1, <2>2 DEF StoredOvertaken, ReceiptUnconfirmed
<1>4. StoredAdmitted' /\ AnsweredStored'
  BY <1>1, <1>2 DEF OwnerInv, StoredAdmitted, AnsweredStored, PlacesKept
<1>5. QED BY <1>2, <1>3, <1>4 DEF OwnerInv

\* The receipt is stored, or found, whether its answer arrives or not.
LEMMA CreateInv ==
    ASSUME OwnerInv, NEW t \in Intakes,
           Create(t)
           \/ (ReceiptUnconfirmed(t) /\ UNCHANGED places /\ intake[t].pc = "create"
               /\ receipts[intake[t].id] = Nothing
               /\ receipts' = [receipts EXCEPT ![intake[t].id] = intake[t].payload])
    PROVE  OwnerInv'
<1>1. /\ intake[t].pc = "create" /\ LeaveIntake(t)
      /\ UNCHANGED <<hour, places>> /\ losses' \in Nat
  BY DEF Create, ReceiptUnconfirmed, Loss, OwnerInv, IntakeTypeOK
<1>2. intake[t].id \in Submissions /\ intake[t].payload \in Payloads
  BY <1>1 DEF OwnerInv, Fits
<1>3. /\ receipts' \in [Submissions -> Payloads \cup {Nothing}]
      /\ received' \subseteq Submissions \X Payloads
      /\ StoredAdmitted' /\ AnsweredStored'
  <2>1. CASE receipts' = receipts /\ Previous(intake[t].id, intake[t].payload)
    BY <2>1, <1>1, <1>2, PreviousFits DEF OwnerInv, IntakeTypeOK, StoredAdmitted
  <2>2. CASE /\ receipts[intake[t].id] = Nothing
             /\ receipts' = [receipts EXCEPT ![intake[t].id] = intake[t].payload]
             /\ received' \in {received, received \cup {<<intake[t].id, intake[t].payload>>}}
    <3>1. /\ receipts' \in [Submissions -> Payloads \cup {Nothing}]
          /\ StoredAdmitted'
          /\ receipts'[intake[t].id] = intake[t].payload
          /\ \A r \in received : receipts'[r[1]] = r[2]
      BY <2>2, <1>1, StoresFit
    <3>2. QED BY <3>1, <2>2, <1>2 DEF OwnerInv, IntakeTypeOK, AnsweredStored
  <2>3. QED BY <2>1, <2>2 DEF Create, Creates, ReceiptUnconfirmed
<1>4. PlacesKept
  BY <1>1 DEF PlacesKept
<1>5. IntakeTypeOK' /\ \A u \in Intakes : Fits(u)'
  BY <1>1, <1>3, <1>4, LeaveFits DEF OwnerInv, IntakeTypeOK
<1>6. QED BY <1>1, <1>3, <1>5 DEF OwnerInv, HoursLimited

\* A thread gives way, or an hour begins: nothing is written.
LEMMA GiveWayInv ==
    ASSUME OwnerInv,
           \/ NextHour
           \/ \E t \in Intakes : \/ Overtaken(t)
                                 \/ ReceiptUnconfirmed(t) /\ UNCHANGED <<places, receipts>>
           \/ UNCHANGED intakeVars
    PROVE  OwnerInv'
<1>1. /\ UNCHANGED <<places, receipts, received>> /\ PlacesKept
      /\ hour' \in Hours /\ losses' \in Nat
  BY IntakeAssumption
     DEF NextHour, Overtaken, ReceiptUnconfirmed, Loss, intakeVars, PlacesKept, Hours,
         OwnerInv, IntakeTypeOK
<1>2. IntakeTypeOK' /\ \A u \in Intakes : Fits(u)'
  <2>1. ASSUME NEW t \in Intakes, LeaveIntake(t) \/ (LookAgain(t) /\ intake[t].pc # "free")
        PROVE  IntakeTypeOK' /\ \A u \in Intakes : Fits(u)'
    BY <2>1, <1>1, LeaveFits DEF OwnerInv, IntakeTypeOK
  <2>2. CASE UNCHANGED intake
    BY <2>2, <1>1 DEF OwnerInv, IntakeTypeOK, Fits
  <2>3. QED
    BY <2>1, <2>2 DEF NextHour, Overtaken, ReceiptUnconfirmed, intakeVars
<1>3. QED BY <1>1, <1>2 DEF OwnerInv, HoursLimited, StoredAdmitted, AnsweredStored

----------------------------------------------------------------------------
(* Theorems *)

\* The hour's places are few enough, and what is received has a place and a receipt.
THEOREM IntakeInvariance == OwnerSpec => []OwnerInv
<1>1. OwnerInv /\ [OwnerNext]_intakeVars => OwnerInv'
  <2> SUFFICES ASSUME OwnerInv, [OwnerNext]_intakeVars PROVE OwnerInv'
    OBVIOUS
  <2>1. ASSUME NEW t \in Intakes, ReceiptUnconfirmed(t) PROVE OwnerInv'
    BY <2>1, ReserveInv, CreateInv, GiveWayInv DEF ReceiptUnconfirmed
  <2>2. QED
    BY <2>1, SubmitInv, LookInv, ReserveInv, CreateInv, GiveWayInv DEF OwnerNext
<1>2. QED BY <1>1, OwnerInitInv, PTL DEF OwnerSpec

\* For any number of replicas and lost answers, no hour admits more than its limit, nothing is
\* stored that was not admitted, and a receipt binds one payload for good (owner_reports.py:38-96).
THEOREM IntakeHolds == OwnerSpec => []ReceiptsHold
<1>1. OwnerInv => ReceiptsHold
  BY DEF OwnerInv, HoursLimited, StoredAdmitted, AnsweredStored, ReceiptsHold
<1>2. QED BY <1>1, IntakeInvariance, PTL

----------------------------------------------------------------------------
(* The keyword engine: the inductive invariant *)

ImporterType == [pc : {"parked", "wait", "look", "shared", "import", "noted"},
                 pub : Indexed \cup {NoIndex}]

SearchTypeOK ==
    /\ collection = [p \in Indexed |-> collection[p]]
    /\ engine \in BOOLEAN
    /\ prepared \subseteq Indexed
    /\ shared \in [Indexed -> Indexed]
    /\ importer \in [Importers -> ImporterType]
    /\ stops \in Nat

Busy(t) == importer[t].pc \notin {"parked", "wait"}
Imported(p) == collection[p] = Units[p]

\* A collection never holds a document of another model.
Own(p) == collection[p] = NoIndex \/ collection[p] \subseteq Units[p]

\* A search goes to the publication's own collection, or to a whole one with the same units.
Redirected(p) == shared[p] = p \/ (Units[shared[p]] = Units[p] /\ Imported(shared[p]))

PreparedWhole == \A p \in prepared : Imported(shared[p])

\* One thread at a time is past the lock.
LockHeld == \A t \in Importers : Busy(t) => lock = t

\* What a thread found out under the lock still holds.
Informed(t) == LET p == importer[t].pub IN
    /\ importer[t].pc # "parked" => p \in Indexed
    /\ importer[t].pc = "shared" =>
          ReuseOf[p] \in Indexed /\ Units[ReuseOf[p]] = Units[p] /\ Imported(ReuseOf[p])
    /\ importer[t].pc = "import" => collection[p] \subseteq Units[p]
    /\ importer[t].pc = "noted" => Imported(p)

SearchInv ==
    /\ SearchTypeOK
    /\ \A p \in Indexed : Own(p) /\ Redirected(p)
    /\ LockHeld
    /\ \A t \in Importers : Informed(t)
    /\ PreparedWhole

----------------------------------------------------------------------------
(* What the steps do *)

\* A whole collection stays as it is: it is recreated by nobody, and lacks nothing.
WholeKept == \A p \in Indexed : Imported(p) => Imported(p)'

\* A collection with the right number of documents holds the right ones.
LEMMA MatchesWhole ==
    ASSUME SearchInv, NEW p \in Indexed
    PROVE  /\ Matches(p) <=> Imported(p)
           /\ collection[p] # NoIndex /\ Cardinality(collection[p]) = Cardinality(Units[p])
                => Imported(p)
<1>1. IsFiniteSet(Units[p]) /\ Units[p] # NoIndex /\ Own(p)
  BY SearchAssumption DEF SearchInv
<1>2. collection[p] \in SUBSET Units[p] /\ Cardinality(collection[p]) = Cardinality(Units[p])
        => collection[p] = Units[p]
  BY <1>1, FS_Subset
<1>3. QED BY <1>1, <1>2 DEF Matches, Imported, Own

LEMMA SearchableWhole ==
    ASSUME SearchInv, NEW p \in Indexed, Searchable(p)
    PROVE  Imported(shared[p])
  BY MatchesWhole DEF SearchInv, SearchTypeOK, Searchable, Redirected, PreparedWhole

\* A step of a thread that leaves the collections alone and gives the lock back.
LEMMA UnlockFits ==
    ASSUME SearchInv, NEW t \in Importers, Busy(t), Unlock(t)
    PROVE  /\ importer' \in [Importers -> ImporterType]
           /\ LockHeld'
           /\ \A u \in Importers : Informed(u)'
<1>1. /\ importer \in [Importers -> ImporterType]
      /\ importer' = [importer EXCEPT ![t] = Parked]
      /\ \A u \in Importers : Informed(u)
  BY DEF Unlock, SearchInv, SearchTypeOK
<1>2. Parked \in ImporterType /\ Parked.pc = "parked"
  BY DEF Parked, ImporterType
<1>3. importer' \in [Importers -> ImporterType]
  BY <1>1, <1>2
<1>4. \A u \in Importers \ {t} : importer'[u] = importer[u] /\ ~Busy(u)
  BY <1>1 DEF SearchInv, LockHeld
<1>5. \A u \in Importers : ~Busy(u)'
  BY <1>1, <1>2, <1>4 DEF Busy
<1>6. ASSUME NEW u \in Importers PROVE Informed(u)'
  <2>1. CASE u = t
    BY <2>1, <1>1, <1>2 DEF Informed
  <2>2. CASE u # t
    BY <2>2, <1>1, <1>4 DEF Informed, Busy
  <2>3. QED BY <2>1, <2>2
<1>7. QED BY <1>3, <1>5, <1>6 DEF LockHeld

\* A step of the thread that holds the lock, after which it holds it still.
LEMMA HolderFits ==
    ASSUME SearchInv, NEW t \in Importers, Busy(t),
           NEW pc \in {"look", "shared", "import", "noted"},
           importer' = [importer EXCEPT ![t].pc = pc], UNCHANGED lock, Informed(t)'
    PROVE  /\ importer' \in [Importers -> ImporterType]
           /\ LockHeld'
           /\ \A u \in Importers : Informed(u)'
<1>1. importer \in [Importers -> ImporterType] /\ \A u \in Importers : Informed(u)
  BY DEF SearchInv, SearchTypeOK
<1>2. importer' \in [Importers -> ImporterType]
  BY <1>1 DEF ImporterType
<1>3. \A u \in Importers \ {t} : importer'[u] = importer[u] /\ ~Busy(u)
  BY <1>1 DEF SearchInv, LockHeld
<1>4. LockHeld'
  BY <1>3 DEF LockHeld, Busy, SearchInv
<1>5. ASSUME NEW u \in Importers \ {t} PROVE Informed(u)'
  BY <1>1, <1>3 DEF Informed, Busy
<1>6. QED BY <1>2, <1>4, <1>5

\* What follows for the searches once whole collections are kept and searches redirected well.
LEMMA RedirectedKept ==
    ASSUME SearchInv, WholeKept, UNCHANGED <<shared, prepared>>
    PROVE  PreparedWhole' /\ \A p \in Indexed : Redirected(p)'
<1>1. /\ shared \in [Indexed -> Indexed] /\ prepared \subseteq Indexed
      /\ PreparedWhole /\ \A p \in Indexed : Redirected(p)
  BY DEF SearchInv, SearchTypeOK
<1>2. \A p \in Indexed : Imported(shared[p]) => Imported(shared[p])'
  BY <1>1 DEF WholeKept, Imported
<1>3. QED BY <1>1, <1>2 DEF PreparedWhole, Redirected

LEMMA CollectionsStay ==
    ASSUME SearchInv, UNCHANGED collection
    PROVE  WholeKept /\ \A p \in Indexed : Own(p)'
  BY DEF SearchInv, WholeKept, Imported, Own

LEMMA ThreadsStay ==
    ASSUME SearchInv, UNCHANGED <<importer, lock, collection>>
    PROVE  LockHeld' /\ \A t \in Importers : Informed(t)'
  BY DEF SearchInv, LockHeld, Busy, Informed, Imported

\* Every step of the threads, the engine and the publications preserves the invariant.
LEMMA SearchNextInv == SearchInv /\ [SearchNext]_searchVars => SearchInv'
<1> SUFFICES ASSUME SearchInv, [SearchNext]_searchVars PROVE SearchInv'
  OBVIOUS
<1>1. CASE UNCHANGED searchVars
  BY <1>1, CollectionsStay, RedirectedKept, ThreadsStay DEF searchVars, SearchInv, SearchTypeOK
<1>2. CASE Crash
  <2>1. stops' \in Nat /\ UNCHANGED <<collection, prepared, shared, importer, lock>>
    BY <1>2 DEF Crash, SearchInv, SearchTypeOK
  <2>2. engine' \in BOOLEAN
    BY <1>2 DEF Crash
  <2>3. QED BY <2>1, <2>2, CollectionsStay, RedirectedKept, ThreadsStay DEF SearchInv, SearchTypeOK
<1>3. CASE Restart
  <2>1. Parked \in ImporterType /\ Parked.pc = "parked"
    BY DEF Parked, ImporterType
  <2>2. importer' = [t \in Importers |-> Parked] /\ shared' = [p \in Indexed |-> p]
    BY <1>3 DEF Restart
  <2>3. SearchTypeOK'
    BY <1>3, <2>1, <2>2 DEF Restart, SearchInv, SearchTypeOK
  <2>4. \A p \in Indexed : Own(p)' /\ Redirected(p)'
    BY <1>3, <2>2 DEF Restart, SearchInv, Own, Redirected
  <2>5. LockHeld' /\ \A t \in Importers : Informed(t)'
    BY <2>1, <2>2 DEF LockHeld, Busy, Informed
  <2>6. PreparedWhole'
    BY <1>3 DEF Restart, PreparedWhole
  <2>7. QED BY <2>3, <2>4, <2>5, <2>6 DEF SearchInv
<1>4. ASSUME NEW t \in Importers, Prepare(t) PROVE SearchInv'
  <2>1. PICK p \in Indexed : /\ importer[t] = Parked
                             /\ importer' = [importer EXCEPT ![t] = [pc |-> "wait", pub |-> p]]
    BY <1>4 DEF Prepare
  <2>2. importer \in [Importers -> ImporterType] /\ [pc |-> "wait", pub |-> p] \in ImporterType
    BY DEF SearchInv, SearchTypeOK, ImporterType
  <2>3. /\ importer' \in [Importers -> ImporterType]
        /\ importer'[t] = [pc |-> "wait", pub |-> p]
        /\ \A u \in Importers \ {t} : importer'[u] = importer[u]
    BY <2>1, <2>2
  <2>4. \A u \in Importers : Informed(u)'
    BY <1>4, <2>3 DEF Prepare, SearchInv, Informed, Imported
  <2>5. LockHeld'
    BY <1>4, <2>3 DEF Prepare, SearchInv, LockHeld, Busy
  <2>6. QED BY <1>4, <2>3, <2>4, <2>5, CollectionsStay, RedirectedKept DEF Prepare, SearchInv, SearchTypeOK
<1>5. ASSUME NEW t \in Importers, Lock(t) PROVE SearchInv'
  <2>1. importer \in [Importers -> ImporterType] /\ \A u \in Importers : ~Busy(u)
    BY <1>5, SearchAssumption DEF Lock, SearchInv, SearchTypeOK, LockHeld
  <2>2. /\ importer' \in [Importers -> ImporterType]
        /\ importer'[t].pc = "look" /\ importer'[t].pub = importer[t].pub
        /\ \A u \in Importers \ {t} : importer'[u] = importer[u]
    BY <1>5, <2>1 DEF Lock, To, ImporterType
  <2>3. \A u \in Importers : Informed(u)'
    BY <1>5, <2>2 DEF Lock, SearchInv, Informed, Imported
  <2>4. LockHeld'
    BY <1>5, <2>1, <2>2 DEF Lock, LockHeld, Busy
  <2>5. QED BY <1>5, <2>2, <2>3, <2>4, CollectionsStay, RedirectedKept DEF Lock, SearchInv, SearchTypeOK
<1>6. ASSUME NEW t \in Importers, Found(t) PROVE SearchInv'
  <2> DEFINE p == importer[t].pub
  <2>1. p \in Indexed /\ Busy(t) /\ WholeKept
    BY <1>6 DEF Found, SearchInv, Informed, Busy, WholeKept, Imported
  <2>2. importer' \in [Importers -> ImporterType] /\ LockHeld' /\ \A u \in Importers : Informed(u)'
    BY <1>6, <2>1, UnlockFits DEF Found
  <2>3. PreparedWhole'
    BY <1>6, <2>1, SearchableWhole DEF Found, SearchInv, PreparedWhole, Imported
  <2>4. QED BY <1>6, <2>1, <2>2, <2>3 DEF Found, SearchInv, SearchTypeOK, Own, Redirected, Imported
<1>7. ASSUME NEW t \in Importers, Share(t) PROVE SearchInv'
  <2> DEFINE p == importer[t].pub
  <2>1. /\ p \in Indexed /\ Busy(t) /\ ReuseOf[p] \in Indexed
        /\ Units[ReuseOf[p]] = Units[p] /\ Imported(ReuseOf[p])
    <3>1. p \in Indexed /\ Busy(t)
      BY <1>7 DEF Share, SearchInv, Informed, Busy
    <3>2. ReuseOf[p] \in Indexed
      BY <1>7, <3>1, SearchAssumption DEF Share, Shareable
    <3>3. QED BY <1>7, <3>1, <3>2, MatchesWhole DEF Share, Shareable, SharedAgrees
  <2>2. /\ UNCHANGED <<collection, lock, engine, stops, prepared>>
        /\ importer' = [importer EXCEPT ![t].pc = "shared"]
        /\ shared' = [shared EXCEPT ![p] = ReuseOf[p]]
    BY <1>7 DEF Share, SharesFirst, To
  <2>3. importer'[t].pc = "shared" /\ importer'[t].pub = p
    BY <2>2 DEF SearchInv, SearchTypeOK, ImporterType
  <2>4. Informed(t)'
    BY <2>1, <2>2, <2>3 DEF Informed, Imported
  <2>5. importer' \in [Importers -> ImporterType] /\ LockHeld' /\ \A u \in Importers : Informed(u)'
    BY <2>1, <2>2, <2>4, HolderFits
  <2>6. /\ shared' \in [Indexed -> Indexed] /\ shared'[p] = ReuseOf[p]
        /\ \A q \in Indexed \ {p} : shared'[q] = shared[q]
    BY <2>1, <2>2 DEF SearchInv, SearchTypeOK
  <2>7. \A q \in Indexed : Own(q)' /\ Redirected(q)'
    BY <2>1, <2>2, <2>6 DEF SearchInv, Own, Redirected, Imported
  <2>8. PreparedWhole'
    BY <2>1, <2>2, <2>6 DEF SearchInv, SearchTypeOK, PreparedWhole, Imported
  <2>9. QED BY <2>2, <2>5, <2>6, <2>7, <2>8 DEF SearchInv, SearchTypeOK, Imported
<1>8. ASSUME NEW t \in Importers, Shared(t) PROVE SearchInv'
  <2> DEFINE p == importer[t].pub
  <2>1. /\ p \in Indexed /\ Busy(t) /\ ReuseOf[p] \in Indexed
        /\ Units[ReuseOf[p]] = Units[p] /\ Imported(ReuseOf[p])
    BY <1>8 DEF Shared, SearchInv, Informed, Busy
  <2>2. /\ UNCHANGED <<collection, engine, stops>>
        /\ prepared' = prepared \cup {p}
        /\ shared' = [shared EXCEPT ![p] = ReuseOf[p]]
    BY <1>8 DEF Shared
  <2>3. importer' \in [Importers -> ImporterType] /\ LockHeld' /\ \A u \in Importers : Informed(u)'
    BY <1>8, <2>1, UnlockFits DEF Shared
  <2>4. /\ shared' \in [Indexed -> Indexed] /\ shared'[p] = ReuseOf[p]
        /\ \A q \in Indexed \ {p} : shared'[q] = shared[q]
    BY <2>1, <2>2 DEF SearchInv, SearchTypeOK
  <2>5. \A q \in Indexed : Own(q)' /\ Redirected(q)'
    BY <2>1, <2>2, <2>4 DEF SearchInv, Own, Redirected, Imported
  <2>6. PreparedWhole'
    BY <2>1, <2>2, <2>4 DEF SearchInv, SearchTypeOK, PreparedWhole, Imported
  <2>7. prepared' \subseteq Indexed
    BY <2>1, <2>2 DEF SearchInv, SearchTypeOK
  <2>8. QED BY <2>2, <2>3, <2>4, <2>5, <2>6, <2>7 DEF SearchInv, SearchTypeOK, Imported
<1>9. ASSUME NEW t \in Importers, SharedDiffers(t) PROVE SearchInv'
  <2>1. Busy(t)
    BY <1>9 DEF SharedDiffers, Busy
  <2>2. importer' \in [Importers -> ImporterType] /\ LockHeld' /\ \A u \in Importers : Informed(u)'
    BY <1>9, <2>1, UnlockFits DEF SharedDiffers
  <2>3. QED BY <1>9, <2>2, CollectionsStay, RedirectedKept DEF SharedDiffers, SearchInv, SearchTypeOK
<1>10. ASSUME NEW t \in Importers, Recreate(t) PROVE SearchInv'
  <2> DEFINE p == importer[t].pub
  <2>1. p \in Indexed /\ Busy(t) /\ ~Imported(p)
    BY <1>10, MatchesWhole DEF Recreate, SearchInv, Informed, Busy, Searchable
  <2>2. /\ UNCHANGED <<engine, prepared, shared, lock, stops>>
        /\ \/ collection' = [collection EXCEPT ![p] = NoIndex] /\ UNCHANGED importer
           \/ collection' = [collection EXCEPT ![p] = {}]
              /\ importer' = [importer EXCEPT ![t].pc = "import"]
    BY <1>10 DEF Recreate, To
  <2>3. /\ collection' = [q \in Indexed |-> collection'[q]]
        /\ \A q \in Indexed \ {p} : collection'[q] = collection[q]
        /\ collection'[p] \in {NoIndex, {}}
    BY <2>1, <2>2 DEF SearchInv, SearchTypeOK
  <2>4. WholeKept
    BY <2>1, <2>3 DEF WholeKept, Imported
  <2>5. \A q \in Indexed : Own(q)'
    BY <2>3 DEF SearchInv, Own
  <2>6. PreparedWhole' /\ \A q \in Indexed : Redirected(q)'
    BY <2>2, <2>4, RedirectedKept
  <2>7. importer' \in [Importers -> ImporterType] /\ LockHeld' /\ \A u \in Importers : Informed(u)'
    <3>1. CASE UNCHANGED importer
      <4>1. \A u \in Importers \ {t} : ~Busy(u)
        BY <2>1 DEF SearchInv, LockHeld
      <4>2. importer[t].pc = "look"
        BY <1>10 DEF Recreate
      <4>3. \A u \in Importers : Informed(u)'
        BY <3>1, <4>1, <4>2 DEF SearchInv, Informed, Busy
      <4>4. QED BY <3>1, <4>3, <2>2 DEF SearchInv, SearchTypeOK, LockHeld, Busy
    <3>2. CASE /\ collection' = [collection EXCEPT ![p] = {}]
               /\ importer' = [importer EXCEPT ![t].pc = "import"]
      <4>1. importer'[t].pc = "import" /\ importer'[t].pub = p /\ collection'[p] = {}
        BY <3>2, <2>1 DEF SearchInv, SearchTypeOK, ImporterType
      <4>2. Informed(t)'
        BY <4>1, <2>1 DEF Informed
      <4>3. QED BY <3>2, <4>2, <2>1, <2>2, HolderFits
    <3>3. QED BY <3>1, <3>2, <2>2
  <2>8. QED BY <2>2, <2>3, <2>5, <2>6, <2>7 DEF SearchInv, SearchTypeOK
<1>11. ASSUME NEW t \in Importers, importer[t].pc = "import",
              NEW b \in Batches(importer[t].pub),
              collection' = [collection EXCEPT ![importer[t].pub] = @ \cup b],
              UNCHANGED <<engine, prepared, shared>>
       PROVE  /\ WholeKept
              /\ collection' = [q \in Indexed |-> collection'[q]]
              /\ \A q \in Indexed : Own(q)' /\ Redirected(q)'
              /\ PreparedWhole'
              /\ importer[t].pub \in Indexed
              /\ collection'[importer[t].pub] \subseteq Units[importer[t].pub]
  <2> DEFINE p == importer[t].pub
  <2>1. p \in Indexed /\ collection[p] \subseteq Units[p]
    BY <1>11 DEF SearchInv, Informed
  <2>2. b \subseteq Units[p] \ collection[p] /\ b # {}
    BY <1>11 DEF Batches
  <2>3. /\ collection' = [q \in Indexed |-> collection'[q]]
        /\ \A q \in Indexed \ {p} : collection'[q] = collection[q]
        /\ collection'[p] = collection[p] \cup b
    BY <1>11, <2>1 DEF SearchInv, SearchTypeOK
  <2>4. WholeKept
    BY <2>1, <2>2, <2>3 DEF WholeKept, Imported
  <2>5. \A q \in Indexed : Own(q)'
    BY <2>1, <2>2, <2>3 DEF SearchInv, Own
  <2>6. QED BY <1>11, <2>1, <2>2, <2>3, <2>4, <2>5, RedirectedKept
<1>12. ASSUME NEW t \in Importers, Import(t) PROVE SearchInv'
  <2> DEFINE p == importer[t].pub
  <2>1. /\ importer[t].pc = "import" /\ UNCHANGED <<engine, prepared, shared, importer, lock, stops>>
        /\ \E b \in Batches(p) : collection' = [collection EXCEPT ![p] = @ \cup b]
    BY <1>12 DEF Import
  <2>2. /\ collection' = [q \in Indexed |-> collection'[q]]
        /\ \A q \in Indexed : Own(q)' /\ Redirected(q)'
        /\ PreparedWhole'
        /\ collection'[p] \subseteq Units[p]
    BY <2>1, <1>11
  <2>3. \A u \in Importers \ {t} : ~Busy(u)
    BY <2>1 DEF SearchInv, LockHeld, Busy
  <2>4. \A u \in Importers : Informed(u)'
    BY <2>1, <2>2, <2>3 DEF SearchInv, Informed, Busy
  <2>5. QED BY <2>1, <2>2, <2>4 DEF SearchInv, SearchTypeOK, LockHeld, Busy
<1>13. ASSUME NEW t \in Importers, Verify(t) PROVE SearchInv'
  <2> DEFINE p == importer[t].pub
  <2>1. /\ p \in Indexed /\ Busy(t) /\ Imported(p)
    <3>1. p \in Indexed /\ Busy(t) /\ collection[p] \in SUBSET Units[p]
      BY <1>13 DEF Verify, SearchInv, Informed, Busy
    <3>2. QED BY <1>13, <3>1, SearchAssumption, FS_Subset DEF Verify, Imported
  <2>2. /\ UNCHANGED <<collection, engine, prepared, shared, lock, stops>>
        /\ importer' = [importer EXCEPT ![t].pc = "noted"]
    BY <1>13 DEF Verify, To
  <2>3. importer'[t].pc = "noted" /\ importer'[t].pub = p
    BY <2>2 DEF SearchInv, SearchTypeOK, ImporterType
  <2>4. Informed(t)'
    BY <2>1, <2>2, <2>3 DEF Informed, Imported
  <2>5. importer' \in [Importers -> ImporterType] /\ LockHeld' /\ \A u \in Importers : Informed(u)'
    BY <2>1, <2>2, <2>4, HolderFits
  <2>6. QED BY <2>2, <2>5, CollectionsStay, RedirectedKept DEF SearchInv, SearchTypeOK
<1>14. ASSUME NEW t \in Importers, Note(t) PROVE SearchInv'
  <2> DEFINE p == importer[t].pub
  <2>1. p \in Indexed /\ Busy(t) /\ Imported(p)
    BY <1>14 DEF Note, SearchInv, Informed, Busy
  <2>2. importer' \in [Importers -> ImporterType] /\ LockHeld' /\ \A u \in Importers : Informed(u)'
    BY <1>14, <2>1, UnlockFits DEF Note
  <2>3. PreparedWhole'
    BY <1>14, <2>1 DEF Note, SearchInv, Redirected, PreparedWhole, Imported
  <2>4. QED BY <1>14, <2>1, <2>2, <2>3 DEF Note, SearchInv, SearchTypeOK, Own, Redirected, Imported
<1>15. ASSUME NEW t \in Importers, Fails(t) PROVE SearchInv'
  <2> DEFINE p == importer[t].pub
  <2>1. Busy(t) /\ stops' \in Nat /\ UNCHANGED <<engine, prepared, shared>>
    BY <1>15 DEF Fails, Busy, SearchInv, SearchTypeOK
  <2>2. importer' \in [Importers -> ImporterType] /\ LockHeld' /\ \A u \in Importers : Informed(u)'
    BY <1>15, <2>1, UnlockFits DEF Fails
  <2>3. CASE UNCHANGED collection
    BY <2>1, <2>2, <2>3, CollectionsStay, RedirectedKept DEF SearchInv, SearchTypeOK
  <2>4. CASE importer[t].pc = "import" /\ \E b \in Batches(p) : collection' = [collection EXCEPT ![p] = @ \cup b]
    <3>1. /\ collection' = [q \in Indexed |-> collection'[q]]
          /\ \A q \in Indexed : Own(q)' /\ Redirected(q)'
          /\ PreparedWhole'
      BY <2>1, <2>4, <1>11
    <3>2. QED BY <2>1, <2>2, <3>1 DEF SearchInv, SearchTypeOK
  <2>5. QED BY <1>15, <2>3, <2>4 DEF Fails
<1>16. QED BY <1>1, <1>2, <1>3, <1>4, <1>5, <1>6, <1>7, <1>8, <1>9, <1>10, <1>12, <1>13, <1>14, <1>15
         DEF SearchNext

LEMMA SearchInitInv == SearchInit => SearchInv
<1> SUFFICES ASSUME SearchInit PROVE SearchInv
  OBVIOUS
<1>1. Parked \in ImporterType /\ Parked.pc = "parked"
  BY DEF Parked, ImporterType
<1>2. QED BY <1>1 DEF SearchInit, SearchInv, PreparedWhole, SearchTypeOK, Own, Redirected, LockHeld, Busy, Informed

\* What a thread found out under the lock, and where a search is sent, stays true.
THEOREM SearchInvariant == SearchSpec => []SearchInv
  BY SearchInitInv, SearchNextInv, PTL DEF SearchSpec

\* A prepared publication is searched in exactly its own units, whatever crashed
\* (book_search.py:152-155, 199-200).
THEOREM SearchedWhole == SearchSpec => []SearchesWhole
<1>1. SearchInv => SearchesWhole
  BY DEF SearchInv, SearchTypeOK, SearchesWhole, PreparedWhole, Redirected, Imported
<1>2. QED BY <1>1, SearchInvariant, PTL

\* No two threads of a worker import, recreate or redirect at a time (book_search.py:156).
THEOREM ImportsAlone == SearchSpec => [](\A t, u \in Importers : Busy(t) /\ Busy(u) => t = u)
<1>1. SearchInv => \A t, u \in Importers : Busy(t) /\ Busy(u) => t = u
  BY DEF SearchInv, LockHeld
<1>2. QED BY <1>1, SearchInvariant, PTL

----------------------------------------------------------------------------
(* The cache of manifests: the inductive invariant *)

Contents == {"missing", "first", "second", "torn", "other"}
WholeContents == {"first", "second"}
Files == [inode : Nat, print : Nat, holds : Contents]
Entries == [id : Publications, print : Nat, holds : WholeContents]

\* No look at a file is newer than the last change.
Dated(f) == f.inode <= changes + 1 /\ f.print <= changes + 1

\* An entry with the fingerprint of its file holds what the file holds.
EntryFits(e) ==
    /\ 1 <= e.print /\ e.print <= changes + 1
    /\ e.print = file[e.id].print => e.holds = file[e.id].holds

\* What a call read is what the file has, as long as the fingerprint is the file's.
CallFits ==
    /\ call.pc \in {"free", "open", "reading", "parsed"}
    /\ call.pc # "free" => call.id \in Publications /\ Whole(file[call.id].holds) \subseteq held
    /\ call.pc \in {"reading", "parsed"} =>
          /\ DOMAIN call.seen = {"inode", "print", "holds"} /\ call.seen.holds \in Contents
          /\ call.seen.inode \in Nat /\ call.seen.print \in Nat
          /\ Dated(call.seen) /\ 1 <= call.seen.print /\ 1 <= call.seen.inode
          /\ call.seen.holds # "missing" /\ call.mixed \in BOOLEAN
    /\ call.pc = "reading" =>
          IF file[call.id].inode = call.seen.inode
          THEN ~call.mixed => /\ file[call.id].print = call.seen.print
                              /\ file[call.id].holds = call.seen.holds
          ELSE file[call.id].print # call.seen.print
    /\ call.pc = "parsed" =>
          /\ ~call.mixed
          /\ file[call.id].print = call.seen.print => file[call.id].holds = call.seen.holds

ManifestInv ==
    /\ changes \in Nat
    /\ file \in [Publications -> Files]
    /\ \A p \in Publications : /\ Dated(file[p])
                               /\ file[p] # Gone => file[p].inode >= 1 /\ file[p].print >= 1 /\ file[p].holds # "missing"
    /\ manifests \in Seq(Entries) /\ \A i \in DOMAIN manifests : EntryFits(manifests[i])
    /\ DOMAIN call = {"pc", "id", "seen", "mixed", "try"} /\ CallFits
    /\ got # "missing" => got \in held

\* What is found for a publication is an entry of it that holds.
LEMMA CachedFits ==
    ASSUME ManifestInv, NEW id, Resident(id) # {}
    PROVE  /\ Cached(id) \in Entries /\ Cached(id).id = id /\ EntryFits(Cached(id))
<1>1. PICK i \in DOMAIN manifests : manifests[i].id = id /\ Cached(id) = manifests[i]
  BY DEF Resident, Cached
<1>2. manifests[i] \in Entries
  BY <1>1, ElementOfSeq, LenProperties DEF ManifestInv
<1>3. QED BY <1>1, <1>2 DEF ManifestInv

\* What is left without a publication's entry are entries that were there.
LEMMA WithoutFits ==
    ASSUME ManifestInv, NEW id
    PROVE  /\ Without(id) \in Seq(Entries)
           /\ \A i \in DOMAIN Without(id) : EntryFits(Without(id)[i])
<1>1. CASE Resident(id) = {}
  BY <1>1 DEF Without, ManifestInv
<1>2. CASE Resident(id) # {}
  <2>1. PICK i \in DOMAIN manifests :
          Without(id) = SubSeq(manifests, 1, i - 1) \o SubSeq(manifests, i + 1, Len(manifests))
    BY <1>2 DEF Without, Resident
  <2> DEFINE n == Len(manifests)
             before == SubSeq(manifests, 1, i - 1)
             after == SubSeq(manifests, i + 1, n)
  <2>2. /\ n \in Nat /\ i \in 1..n /\ DOMAIN manifests = 1..n
        /\ \A j \in 1..n : manifests[j] \in Entries
    BY LenProperties, ElementOfSeq DEF ManifestInv
  <2> HIDE DEF n
  <2>3. /\ before \in Seq(Entries) /\ Len(before) = i - 1
        /\ \A j \in 1..i - 1 : before[j] = manifests[j]
    BY <2>2, SubSeqProperties, Z3
  <2>4. /\ after \in Seq(Entries) /\ Len(after) = n - i
        /\ \A j \in 1..n - i : after[j] = manifests[i + j]
    BY <2>2, SubSeqProperties, Z3
  <2> HIDE DEF before, after
  <2>5. /\ before \o after \in Seq(Entries) /\ Len(before \o after) = n - 1
        /\ \A j \in 1..n - 1 : (before \o after)[j] = IF j <= i - 1 THEN before[j] ELSE after[j - (i - 1)]
    <3>1. /\ before \o after \in Seq(Entries)
          /\ Len(before \o after) = Len(before) + Len(after)
          /\ \A j \in 1..Len(before) + Len(after) :
                (before \o after)[j] = IF j <= Len(before) THEN before[j] ELSE after[j - Len(before)]
      BY <2>3, <2>4, ConcatProperties
    <3>2. Len(before) + Len(after) = n - 1
      BY <2>2, <2>3, <2>4
    <3>3. QED BY <2>3, <3>1, <3>2
  <2>6. DOMAIN (before \o after) = 1..n - 1
    BY <2>5, LenProperties
  <2>7. ASSUME NEW j \in 1..n - 1 PROVE EntryFits((before \o after)[j])
    <3>1. \E k \in 1..n : (before \o after)[j] = manifests[k]
      <4>1. CASE j <= i - 1
        BY <2>2, <2>3, <2>5, <4>1
      <4>2. CASE ~(j <= i - 1)
        <5>1. j - (i - 1) \in 1..n - i /\ i + (j - (i - 1)) \in 1..n
          BY <2>2, <4>2
        <5>2. QED BY <2>4, <2>5, <4>2, <5>1
      <4>3. QED BY <4>1, <4>2
    <3>2. QED BY <2>2, <3>1 DEF ManifestInv
  <2>8. QED BY <2>1, <2>5, <2>6, <2>7 DEF n, before, after
<1>3. QED BY <1>1, <1>2

\* Entries that hold stay so when one more that holds is kept, or the oldest goes.
LEMMA AppendFits ==
    ASSUME ManifestInv, NEW s \in Seq(Entries), \A i \in DOMAIN s : EntryFits(s[i]),
           NEW e \in Entries, EntryFits(e)
    PROVE  /\ Append(s, e) \in Seq(Entries)
           /\ \A i \in DOMAIN Append(s, e) : EntryFits(Append(s, e)[i])
BY AppendProperties, LenProperties

\* The oldest entry that goes leaves the others as they are.
LEMMA OldestFits ==
    ASSUME ManifestInv, NEW s \in Seq(Entries), \A i \in DOMAIN s : EntryFits(s[i])
    PROVE  /\ OldestEntry(s) \in Seq(Entries)
           /\ \A i \in DOMAIN OldestEntry(s) : EntryFits(OldestEntry(s)[i])
<1>1. CASE Len(s) > ManifestCapacity
  <2>1. s # <<>>
    BY <1>1, ManifestAssumption
  <2>2. /\ Tail(s) \in Seq(Entries) /\ Len(Tail(s)) = Len(s) - 1
        /\ \A i \in 1..Len(Tail(s)) : Tail(s)[i] = s[i + 1]
    BY <2>1, HeadTailProperties
  <2>3. QED BY <1>1, <2>2, LenProperties DEF OldestEntry
<1>2. QED BY <1>1 DEF OldestEntry

\* One step of a call, which leaves the files alone.
LEMMA CallKeeps ==
    ASSUME ManifestInv, UNCHANGED <<file, changes>>,
           manifests' \in Seq(Entries), \A i \in DOMAIN manifests' : EntryFits(manifests'[i]),
           DOMAIN call' = {"pc", "id", "seen", "mixed", "try"}, CallFits',
           got' # "missing" => got' \in held'
    PROVE  ManifestInv'
<1>1. \A i \in DOMAIN manifests' : EntryFits(manifests[i])'
  BY DEF EntryFits
<1>2. \A p \in Publications : Dated(file[p])'
  BY DEF ManifestInv, Dated
<1>3. QED BY <1>1, <1>2 DEF ManifestInv

\* Every step of a call, and every change of a file, preserves the invariant.
LEMMA ManifestNextInv == ManifestInv /\ [ManifestNext]_manifestVars => ManifestInv'
<1> SUFFICES ASSUME ManifestInv, [ManifestNext]_manifestVars PROVE ManifestInv'
  OBVIOUS
<1> USE DEF Files, Contents
<1>1. CASE UNCHANGED manifestVars
  BY <1>1 DEF manifestVars, ManifestInv, CallFits, Dated, EntryFits
<1>2. ASSUME NEW id, Unavailable(id) PROVE ManifestInv'
  BY <1>2, WithoutFits, CallKeeps DEF Unavailable, NoCall, CallFits, ManifestInv
<1>3. CASE Enter
  <2>1. PICK id \in Publications :
          /\ call.pc = "free"
          /\ held' = Whole(file[id].holds)
          /\ IF file[id] # Gone /\ Fresh(id)
             THEN /\ manifests' = Append(Without(id), Cached(id))
                  /\ got' = Cached(id).holds
                  /\ UNCHANGED call
             ELSE /\ manifests' = Without(id)
                  /\ got' = "missing"
                  /\ call' = IF file[id] = Gone THEN NoCall ELSE [NoCall EXCEPT !.pc = "open", !.id = id]
    BY <1>3 DEF Enter
  <2>2. UNCHANGED <<file, changes>>
    BY <1>3 DEF Enter
  <2>3. CASE file[id] # Gone /\ Fresh(id)
    <3>1. Cached(id) \in Entries /\ Cached(id).id = id /\ EntryFits(Cached(id)) /\ Cached(id).print = file[id].print
      BY <2>3, CachedFits DEF Fresh
    <3>2. Cached(id).holds = file[id].holds /\ Cached(id).holds \in WholeContents
      BY <3>1 DEF EntryFits, Entries
    <3>3. got' \in held'
      BY <2>1, <2>3, <3>2 DEF Whole, WholeContents
    <3>4. CallFits' /\ DOMAIN call' = {"pc", "id", "seen", "mixed", "try"}
      BY <2>1, <2>3 DEF CallFits, ManifestInv
    <3>5. QED BY <2>1, <2>2, <2>3, <3>1, <3>3, <3>4, WithoutFits, AppendFits, CallKeeps
  <2>4. CASE ~(file[id] # Gone /\ Fresh(id))
    <3>1. CASE file[id] = Gone
      BY <2>1, <2>2, <2>4, <3>1, WithoutFits, CallKeeps DEF NoCall, CallFits
    <3>2. CASE file[id] # Gone
      BY <2>1, <2>2, <2>4, <3>2, WithoutFits, CallKeeps DEF NoCall, CallFits
    <3>3. QED BY <3>1, <3>2
  <2>5. QED BY <2>3, <2>4
<1>4. ASSUME Again, call.pc \in {"reading", "parsed"} PROVE ManifestInv'
  <2>1. CASE call.try = 0
    <3>1. call' = [call EXCEPT !.pc = "open", !.try = 1] /\ UNCHANGED <<file, manifests, held, got, changes>>
      BY <1>4, <2>1 DEF Again
    <3>2. call'.pc = "open" /\ call'.id = call.id /\ DOMAIN call' = DOMAIN call
      BY <3>1 DEF ManifestInv
    <3>3. QED BY <1>4, <3>1, <3>2, CallKeeps DEF CallFits, ManifestInv
  <2>2. CASE call.try # 0
    BY <1>4, <2>2, CallKeeps DEF Again, NoCall, CallFits, ManifestInv
  <2>3. QED BY <2>1, <2>2
<1>5. CASE OpenManifest
  <2>1. /\ call.pc = "open" /\ file[call.id] # Gone
        /\ call' = [call EXCEPT !.pc = "reading", !.seen = file[call.id], !.mixed = FALSE]
        /\ UNCHANGED <<file, manifests, held, got, changes>>
    BY <1>5 DEF OpenManifest
  <2>2. /\ call'.pc = "reading" /\ call'.id = call.id /\ call'.seen = file[call.id] /\ call'.mixed = FALSE
        /\ DOMAIN call' = DOMAIN call
    BY <2>1 DEF ManifestInv
  <2>3. CallFits'
    BY <2>1, <2>2 DEF CallFits, ManifestInv, Dated
  <2>4. QED BY <2>1, <2>2, <2>3, CallKeeps DEF ManifestInv
<1>6. CASE Read
  <2>1. CASE Steady /\ After = file[call.id].print
    <3>1. /\ call.pc = "reading" /\ file[call.id] # Gone /\ ~call.mixed /\ After = file[call.id].print
          /\ call' = [call EXCEPT !.pc = "parsed", !.seen.print = After,
                          !.seen.holds = IF call.mixed THEN "torn" ELSE call.seen.holds]
          /\ UNCHANGED <<file, manifests, held, got, changes>>
      BY <1>6, <2>1 DEF Read, Steady
    <3>2. /\ call'.pc = "parsed" /\ call'.id = call.id /\ call'.mixed = call.mixed
          /\ call'.seen = [call.seen EXCEPT !.print = After, !.holds = call.seen.holds]
          /\ DOMAIN call' = DOMAIN call
      BY <3>1 DEF ManifestInv
    <3>3. file[call.id] \in Files /\ call.id \in Publications
      BY <3>1 DEF CallFits, ManifestInv
    <3>4. /\ DOMAIN call'.seen = DOMAIN call.seen /\ call'.seen.print = After
          /\ call'.seen.holds = call.seen.holds /\ call'.seen.inode = call.seen.inode
      BY <3>1, <3>2 DEF CallFits, ManifestInv
    <3>5. file[call.id].print = call.seen.print /\ file[call.id].holds = call.seen.holds
      BY <3>1 DEF After, CallFits, ManifestInv
    <3>6. CallFits'
      BY <3>1, <3>2, <3>3, <3>4, <3>5 DEF CallFits, ManifestInv, Dated
    <3>7. QED BY <3>1, <3>2, <3>6, CallKeeps DEF ManifestInv
  <2>2. CASE ~(Steady /\ After = file[call.id].print)
    BY <1>4, <1>6, <2>2 DEF Read
  <2>3. QED BY <2>1, <2>2
<1>7. CASE Vanished
  BY <1>2, <1>7 DEF Vanished
<1>8. CASE Invalid
  BY <1>8, CallKeeps DEF Invalid, NoCall, CallFits, ManifestInv
<1>9. CASE Retain
  <2>1. CASE file[call.id].print = call.seen.print
    <3> DEFINE entry == [id |-> call.id, print |-> call.seen.print, holds |-> call.seen.holds]
    <3>1. /\ call.pc = "parsed" /\ call.seen.holds # "other" /\ (call.seen.holds = "torn" => call.mixed)
          /\ manifests' = OldestEntry(Append(manifests, entry))
          /\ got' = call.seen.holds /\ call' = NoCall /\ UNCHANGED <<file, held, changes>>
      BY <1>9, <2>1 DEF Retain
    <3>2. /\ call.id \in Publications /\ call.seen.holds \in WholeContents
          /\ call.seen.holds = file[call.id].holds /\ call.seen.holds \in held
      BY <2>1, <3>1 DEF CallFits, ManifestInv, WholeContents, Whole
    <3>3. entry \in Entries /\ EntryFits(entry)
      BY <3>1, <3>2 DEF Entries, EntryFits, CallFits, ManifestInv, Dated
    <3> HIDE DEF entry
    <3>4. /\ manifests' \in Seq(Entries) /\ \A i \in DOMAIN manifests' : EntryFits(manifests'[i])
      BY <3>1, <3>3, AppendFits, OldestFits DEF ManifestInv
    <3>5. CallFits' /\ DOMAIN call' = {"pc", "id", "seen", "mixed", "try"}
      BY <3>1 DEF NoCall, CallFits
    <3>6. QED BY <3>1, <3>2, <3>4, <3>5, CallKeeps
  <2>2. CASE file[call.id].print # call.seen.print
    BY <1>4, <1>9, <2>2 DEF Retain
  <2>3. QED BY <2>1, <2>2
<1>10. CASE InvalidateManifest
  BY <1>10, WithoutFits, CallKeeps DEF InvalidateManifest, ManifestInv, CallFits
<1>11. CASE ChangeFile
  <2>1. PICK id \in Publications, holds \in Contents, inPlace \in BOOLEAN :
          /\ inPlace => file[id] # Gone /\ holds # "missing"
          /\ changes' = changes + 1
          /\ file' = [file EXCEPT ![id] =
                IF holds = "missing" THEN Gone
                ELSE [inode |-> IF inPlace THEN @.inode ELSE changes + 2, print |-> changes + 2,
                      holds |-> holds]]
          /\ held' = IF id = call.id THEN held \cup Whole(holds) ELSE held
          /\ call' = IF /\ inPlace /\ call.pc = "reading" /\ id = call.id
                        /\ file[id].inode = call.seen.inode
                     THEN [call EXCEPT !.mixed = TRUE] ELSE call
    BY <1>11 DEF ChangeFile
  <2>2. UNCHANGED <<manifests, got>>
    BY <1>11 DEF ChangeFile
  <2> DEFINE new == IF holds = "missing" THEN Gone
                    ELSE [inode |-> IF inPlace THEN file[id].inode ELSE changes + 2,
                          print |-> changes + 2, holds |-> holds]
  <2>3. /\ file' = [file EXCEPT ![id] = new] /\ changes' \in Nat
    BY <2>1 DEF ManifestInv
  <2>4. /\ new \in Files /\ (new = Gone \/ new.print = changes + 2) /\ new.holds = holds
        /\ new.inode <= changes' + 1 /\ new.print <= changes' + 1
        /\ new # Gone => new.inode >= 1 /\ new.holds # "missing"
        /\ new.inode \in {0, changes + 2} \/ (inPlace /\ new.inode = file[id].inode)
    <3>1. changes \in Nat /\ changes' = changes + 1 /\ file[id] \in Files /\ file[id].inode <= changes + 1
      BY <2>1 DEF ManifestInv, Dated
    <3>2. CASE holds = "missing"
      BY <3>1, <3>2 DEF Gone
    <3>3. CASE holds # "missing" /\ inPlace
      <4>1. new = [inode |-> file[id].inode, print |-> changes + 2, holds |-> holds] /\ file[id].inode >= 1
        BY <2>1, <3>3 DEF ManifestInv
      <4> HIDE DEF new
      <4>2. QED BY <3>1, <3>3, <4>1
    <3>4. CASE holds # "missing" /\ ~inPlace
      <4>1. new = [inode |-> changes + 2, print |-> changes + 2, holds |-> holds]
        BY <3>4
      <4> HIDE DEF new
      <4>2. QED BY <3>1, <3>4, <4>1
    <3>5. QED BY <3>2, <3>3, <3>4
  <2> HIDE DEF new
  <2>5. file' \in [Publications -> Files]
    BY <2>3, <2>4 DEF ManifestInv
  <2>6. ASSUME NEW p \in Publications
        PROVE  /\ Dated(file[p])'
               /\ file'[p] # Gone => file'[p].inode >= 1 /\ file'[p].print >= 1 /\ file'[p].holds # "missing"
    <3>1. CASE p = id
      BY <2>1, <2>3, <2>4, <3>1 DEF Dated, ManifestInv
    <3>2. CASE p # id
      BY <2>1, <2>3, <3>2 DEF Dated, ManifestInv
    <3>3. QED BY <3>1, <3>2
  <2>7. ASSUME NEW i \in DOMAIN manifests PROVE EntryFits(manifests[i])'
    <3>1. manifests[i] \in Entries /\ EntryFits(manifests[i])
      BY ElementOfSeq, LenProperties DEF ManifestInv
    <3>2. CASE manifests[i].id = id
      <4>1. manifests[i].print # new.print
        BY <2>4, <3>1 DEF Gone, EntryFits, Entries, ManifestInv
      <4>2. QED BY <2>1, <2>2, <2>3, <3>1, <3>2, <4>1 DEF EntryFits, Entries, ManifestInv
    <3>3. CASE manifests[i].id # id
      BY <2>1, <2>2, <2>3, <3>1, <3>3 DEF EntryFits, Entries, ManifestInv
    <3>4. QED BY <3>2, <3>3
  <2>8. held \subseteq held'
    BY <2>1
  <2>9. DOMAIN call' = DOMAIN call /\ call'.pc = call.pc /\ call'.id = call.id /\ call'.seen = call.seen
    BY <2>1 DEF ManifestInv
  <2>10. CallFits'
    <3>1. CASE call.id = id
      <4>1. /\ held' = held \cup Whole(new.holds) /\ (call.pc # "free" => file'[call.id] = new)
            /\ call.pc # "free" => Whole(file'[call.id].holds) \subseteq held'
        BY <2>1, <2>3, <2>4, <3>1 DEF ManifestInv
      <4>2. call'.mixed = IF inPlace /\ call.pc = "reading" /\ file[id].inode = call.seen.inode THEN TRUE ELSE call.mixed
        BY <2>1, <3>1 DEF ManifestInv
      <4>3. call.pc \in {"reading", "parsed"} => Dated(call.seen)' /\ call.seen.print # new.print
        BY <2>1, <2>4 DEF CallFits, ManifestInv, Dated, Gone
      <4>4. call.pc = "reading" /\ new.inode = call.seen.inode => call'.mixed
        BY <2>4, <3>1, <4>2 DEF CallFits, ManifestInv, Dated
      <4>5. QED BY <2>9, <3>1, <4>1, <4>2, <4>3, <4>4 DEF CallFits, ManifestInv
    <3>2. CASE call.id # id
      <4>1. call' = call /\ held' = held /\ (call.pc # "free" => file'[call.id] = file[call.id])
        BY <2>1, <2>3, <3>2 DEF CallFits, ManifestInv
      <4>2. call.pc \in {"reading", "parsed"} => Dated(call.seen)'
        BY <2>1, <4>1 DEF CallFits, ManifestInv, Dated
      <4>3. QED BY <4>1, <4>2 DEF CallFits, ManifestInv
    <3>3. QED BY <3>1, <3>2
  <2>11. QED BY <2>2, <2>3, <2>5, <2>6, <2>7, <2>8, <2>9, <2>10 DEF ManifestInv
<1>12. QED
  BY <1>1, <1>3, <1>5, <1>6, <1>7, <1>8, <1>9, <1>10, <1>11 DEF ManifestNext

\* What the cache keeps under the fingerprint a file has is what the file says.
THEOREM ManifestInvariant == ManifestSpec => []ManifestInv
<1>1. ManifestInit => ManifestInv
  BY ManifestAssumption, EmptySeq
     DEF ManifestInit, ManifestInv, Files, Contents, Dated, CallFits, NoCall, Gone
<1>2. QED BY <1>1, ManifestNextInv, PTL DEF ManifestSpec

\* A manifest is answered whole, as its file had it during the call (publication.py:508-539).
THEOREM ManifestAnswered == ManifestSpec => []ManifestOfTheCall
<1>1. ManifestInv => ManifestOfTheCall
  BY DEF ManifestInv, ManifestOfTheCall
<1>2. QED BY <1>1, ManifestInvariant, PTL

----------------------------------------------------------------------------
(* The dashboard: the inductive invariant *)

DataType == [said : SUBSET UNION {Saying[s] : s \in Sources}, when : Nat]
FlightType == [pc : {"none", "running", "done", "failed"}, started : Nat, read : DataType,
               late : BOOLEAN]
ShownType == [status : {"unknown", "ok"}, at : Nat, data : DataType]

DashboardTypeOK ==
    /\ now \in Nat
    /\ truth \in [Sources -> UNION {Saying[s] : s \in Sources}]
    /\ flights \in [Sources -> FlightType]
    /\ observations \in [Sources -> ShownType]
    /\ saved \in [Sources -> ShownType]

\* A reader answers after it began, with what was true in between.
InFlight(s) ==
    /\ flights[s].pc # "none" => flights[s].started <= now
    /\ flights[s].pc = "done" =>
          flights[s].started <= flights[s].read.when /\ flights[s].read.when <= now

\* An observation was taken within the deadline of the reader that made it.
InTime(s) == observations[s].status = "ok" =>
    /\ observations[s].at <= now
    /\ observations[s].at <= observations[s].data.when + Deadline[s]

\* What is shown is what was saved, but for what a restart no longer vouches for.
AsSaved(s) ==
    /\ saved[s].data = observations[s].data /\ saved[s].at = observations[s].at
    /\ observations[s].status = "ok" => saved[s].status = "ok"

DashboardInv ==
    /\ DashboardTypeOK
    /\ \A s \in Sources : InFlight(s) /\ InTime(s) /\ AsSaved(s)

----------------------------------------------------------------------------

\* Only a reader that ended in time is shown as current, with what it read since it began.
LEMMA ObservationInTime ==
    ASSUME DashboardInv, NEW s \in Sources, Heard(s)
    PROVE  /\ Observation(s) \in ShownType
           /\ Observation(s).status = "ok" =>
                 /\ Observation(s).at = now
                 /\ now <= Observation(s).data.when + Deadline[s]
<1>1. /\ flights[s] \in FlightType /\ observations[s] \in ShownType /\ now \in Nat
      /\ Deadline[s] \in Nat /\ InFlight(s)
  BY DashboardAssumption DEF DashboardInv, DashboardTypeOK
<1>2. CASE ReadFailed(s)
  BY <1>1, <1>2 DEF Observation, ShownType
<1>3. CASE ~ReadFailed(s)
  <2>1. flights[s].pc = "done" /\ ~(now - flights[s].started > Deadline[s])
    BY <1>3 DEF ReadFailed, Heard, Finished, TimedOut
  <2>2. Observation(s) = [status |-> "ok", at |-> now, data |-> flights[s].read]
    BY <1>3 DEF Observation
  <2>3. /\ flights[s].started <= flights[s].read.when /\ flights[s].started \in Nat
        /\ flights[s].read \in DataType /\ flights[s].read.when \in Nat
    BY <1>1, <2>1 DEF InFlight, FlightType, DataType
  <2>4. now <= flights[s].read.when + Deadline[s]
    BY <1>1, <2>1, <2>3
  <2>5. QED BY <1>1, <2>2, <2>3, <2>4 DEF ShownType
<1>4. QED BY <1>2, <1>3

LEMMA NextFlightFits ==
    ASSUME DashboardInv, NEW s \in Sources, NEW force \in BOOLEAN
    PROVE  /\ NextFlight(s, force) \in FlightType
           /\ NextFlight(s, force).pc # "none" => NextFlight(s, force).started <= now
           /\ NextFlight(s, force).pc = "done" =>
                 /\ flights[s].pc = "done" /\ NextFlight(s, force).read = flights[s].read
                 /\ NextFlight(s, force).started = flights[s].started
<1> DEFINE later == [flights[s] EXCEPT !.late = TRUE]
<1>1. flights[s] \in FlightType /\ now \in Nat /\ InFlight(s)
  BY DEF DashboardInv, DashboardTypeOK
<1>2. /\ Started \in FlightType /\ Started.pc = "running" /\ Started.started = now
      /\ NoFlight \in FlightType /\ NoFlight.pc = "none"
  BY <1>1 DEF Started, NoFlight, FlightType, NoData, DataType
<1>3. /\ later \in FlightType /\ later.pc = flights[s].pc /\ later.started = flights[s].started
      /\ later.read = flights[s].read
  BY <1>1 DEF FlightType
<1>4. NextFlight(s, force) \in {Started, NoFlight, later, flights[s]}
  BY DEF NextFlight
<1> HIDE DEF later
<1>5. now <= now
  BY <1>1
<1>6. QED BY <1>1, <1>2, <1>3, <1>4, <1>5 DEF InFlight

LEMMA TickFits ==
    ASSUME DashboardInv, NEW force \in BOOLEAN, DashboardTick(force)
    PROVE  DashboardInv'
<1> DEFINE new == [s \in Sources |-> IF Heard(s) THEN Observation(s) ELSE observations[s]]
<1>1. /\ flights' = [s \in Sources |-> NextFlight(s, force)]
      /\ \/ observations' = new /\ saved' = new
         \/ UNCHANGED <<observations, saved>>
      /\ UNCHANGED <<now, truth>>
  BY DEF DashboardTick, TakesBack
<1>2. flights' \in [Sources -> FlightType] /\ \A s \in Sources : InFlight(s)'
  <2>1. flights' \in [Sources -> FlightType] /\ \A s \in Sources : flights'[s] = NextFlight(s, force)
    BY <1>1, NextFlightFits
  <2>2. QED BY <1>1, <2>1, NextFlightFits DEF DashboardInv, InFlight
<1>3. /\ new \in [Sources -> ShownType]
      /\ \A s \in Sources : new[s].status = "ok" =>
            new[s].at <= now /\ new[s].at <= new[s].data.when + Deadline[s]
  <2>1. \A s \in Sources : observations[s] \in ShownType /\ InTime(s) /\ now \in Nat
    BY DEF DashboardInv, DashboardTypeOK
  <2>2. \A s \in Sources : Heard(s) =>
          /\ Observation(s) \in ShownType
          /\ Observation(s).status = "ok" =>
                Observation(s).at <= now /\ Observation(s).at <= Observation(s).data.when + Deadline[s]
    BY <2>1, ObservationInTime
  <2>3. QED BY <2>1, <2>2 DEF InTime
<1> HIDE DEF new
<1>4. CASE observations' = new /\ saved' = new
  <2>1. \A s \in Sources : InTime(s)' /\ AsSaved(s)'
    BY <1>1, <1>3, <1>4 DEF InTime, AsSaved
  <2>2. QED BY <1>1, <1>2, <1>3, <1>4, <2>1 DEF DashboardInv, DashboardTypeOK
<1>5. CASE UNCHANGED <<observations, saved>>
  <2>1. \A s \in Sources : InTime(s)' /\ AsSaved(s)'
    BY <1>1, <1>5 DEF DashboardInv, InTime, AsSaved
  <2>2. QED BY <1>1, <1>2, <1>5, <2>1 DEF DashboardInv, DashboardTypeOK
<1>6. QED BY <1>1, <1>4, <1>5

\* Every step of the readers, of the clock and of a restart preserves the invariant.
LEMMA DashboardNextInv == DashboardInv /\ [DashboardNext]_dashboardVars => DashboardInv'
<1> SUFFICES ASSUME DashboardInv, [DashboardNext]_dashboardVars PROVE DashboardInv'
  OBVIOUS
<1>1. CASE UNCHANGED dashboardVars
  BY <1>1 DEF dashboardVars, DashboardInv, DashboardTypeOK, InFlight, InTime, AsSaved
<1>2. CASE ClockMoves
  <2>1. now' = now + 1 /\ UNCHANGED <<truth, flights, observations, saved>>
    BY <1>2 DEF ClockMoves
  <2>2. now \in Nat /\ now' \in Nat /\ \A n \in Nat : n <= now => n <= now'
    BY <2>1 DEF DashboardInv, DashboardTypeOK
  <2>3. \A s \in Sources : InFlight(s)'
    BY <2>1, <2>2 DEF DashboardInv, DashboardTypeOK, InFlight, FlightType, DataType
  <2>4. \A s \in Sources : InTime(s)' /\ AsSaved(s)'
    BY <2>1, <2>2 DEF DashboardInv, DashboardTypeOK, InTime, AsSaved, ShownType
  <2>5. QED BY <2>1, <2>2, <2>3, <2>4 DEF DashboardInv, DashboardTypeOK
<1>3. CASE Reopen
  <2> DEFINE new == [s \in Sources |-> [saved[s] EXCEPT !.status = "unknown"]]
  <2>1. /\ flights' = [s \in Sources |-> NoFlight] /\ observations' = new
        /\ UNCHANGED <<now, truth, saved>>
    BY <1>3 DEF Reopen
  <2>2. NoFlight \in FlightType /\ NoFlight.pc = "none"
    BY DEF NoFlight, FlightType, NoData, DataType
  <2>3. /\ new \in [Sources -> ShownType]
        /\ \A s \in Sources : /\ new[s].status = "unknown"
                              /\ new[s].at = saved[s].at /\ new[s].data = saved[s].data
    BY DEF DashboardInv, DashboardTypeOK, ShownType
  <2> HIDE DEF new
  <2>4. \A s \in Sources : InFlight(s)' /\ InTime(s)' /\ AsSaved(s)'
    BY <2>1, <2>2, <2>3 DEF InFlight, InTime, AsSaved
  <2>5. QED BY <2>1, <2>2, <2>3, <2>4 DEF DashboardInv, DashboardTypeOK
<1>4. ASSUME NEW s \in Sources, FinishReading(s) PROVE DashboardInv'
  <2> DEFINE heard == [flights[s] EXCEPT !.pc = "done", !.read = [said |-> {truth[s]}, when |-> now]]
             broken == [flights[s] EXCEPT !.pc = "failed"]
  <2>1. /\ flights[s].pc = "running" /\ UNCHANGED <<now, truth, observations, saved>>
        /\ \/ flights' = [flights EXCEPT ![s] = heard]
           \/ flights' = [flights EXCEPT ![s] = broken]
    BY <1>4 DEF FinishReading, DashboardInv, DashboardTypeOK
  <2>2. flights \in [Sources -> FlightType] /\ now \in Nat /\ InFlight(s)
        /\ truth[s] \in UNION {Saying[x] : x \in Sources}
    BY DEF DashboardInv, DashboardTypeOK
  <2>3. [said |-> {truth[s]}, when |-> now] \in DataType
    BY <2>2 DEF DataType
  <2>4. /\ heard \in FlightType /\ heard.pc = "done" /\ heard.started = flights[s].started
        /\ heard.read.when = now
        /\ broken \in FlightType /\ broken.pc = "failed" /\ broken.started = flights[s].started
    BY <2>2, <2>3 DEF FlightType
  <2>5. flights[s].started <= now /\ now <= now
    BY <2>1, <2>2 DEF InFlight
  <2> HIDE DEF heard, broken
  <2>6. /\ flights' \in [Sources -> FlightType]
        /\ \A x \in Sources \ {s} : flights'[x] = flights[x]
        /\ flights'[s] \in {heard, broken}
    BY <2>1, <2>2, <2>4
  <2>7. \A x \in Sources : InFlight(x)'
    BY <2>1, <2>4, <2>5, <2>6 DEF DashboardInv, InFlight
  <2>8. \A x \in Sources : InTime(x)' /\ AsSaved(x)'
    BY <2>1 DEF DashboardInv, InTime, AsSaved
  <2>9. QED BY <2>1, <2>6, <2>7, <2>8 DEF DashboardInv, DashboardTypeOK
<1>5. ASSUME NEW s \in Sources, SourceChanges(s) PROVE DashboardInv'
  <2>1. truth' \in [Sources -> UNION {Saying[x] : x \in Sources}]
    BY <1>5 DEF SourceChanges, DashboardInv, DashboardTypeOK
  <2>2. UNCHANGED <<now, flights, observations, saved>>
    BY <1>5 DEF SourceChanges
  <2>3. QED BY <2>1, <2>2 DEF DashboardInv, DashboardTypeOK, InFlight, InTime, AsSaved
<1>6. QED BY <1>1, <1>2, <1>3, <1>4, <1>5, TickFits DEF DashboardNext

LEMMA DashboardInitInv == DashboardInit => DashboardInv
<1> SUFFICES ASSUME DashboardInit PROVE DashboardInv
  OBVIOUS
<1>1. NoFlight \in FlightType /\ NoFlight.pc = "none"
  BY DEF NoFlight, FlightType, NoData, DataType
<1>2. NotObserved \in ShownType /\ NotObserved.status = "unknown"
  BY DEF NotObserved, ShownType, NoData, DataType
<1>3. QED BY <1>1, <1>2 DEF DashboardInit, DashboardInv, DashboardTypeOK, InFlight, InTime, AsSaved

\* What readers read, and what is shown and saved of it, fits in time.
THEOREM DashboardInvariant == DashboardSpec => []DashboardInv
  BY DashboardInitInv, DashboardNextInv, PTL DEF DashboardSpec

\* What is shown as current was read no longer ago than its freshness and the reader's
\* deadline allow, however late readers answer, and a restart shows the same evidence
\* (dashboard/runtime.py:122-168).
THEOREM ShownInTime == DashboardSpec => []ShownAsRead
<1>1. DashboardInv => ShownAsRead
  <2> SUFFICES ASSUME DashboardInv PROVE ShownAsRead
    OBVIOUS
  <2>1. ASSUME NEW d \in Dimensions, NEW s \in Stated(d)
        PROVE  now - observations[s].data.when <= FreshFor[s] + Deadline[s]
    <3>1. s \in Sources /\ observations[s].status = "ok" /\ now - observations[s].at <= FreshFor[s]
      BY DEF Stated, Current
    <3>2. /\ now \in Nat /\ observations[s].at \in Nat /\ observations[s].data.when \in Nat
          /\ FreshFor[s] \in Nat /\ Deadline[s] \in Nat
      BY <3>1, DashboardAssumption DEF DashboardInv, DashboardTypeOK, ShownType, DataType
    <3>3. observations[s].at <= observations[s].data.when + Deadline[s]
      BY <3>1 DEF DashboardInv, InTime
    <3>4. QED BY <3>1, <3>2, <3>3
  <2>2. QED BY <2>1 DEF ShownAsRead, DashboardInv, AsSaved
<1>2. QED BY <1>1, DashboardInvariant, PTL

----------------------------------------------------------------------------
(* Items that are in a set *)

\* Of some numbers one is the least.
LEMMA LeastPlace ==
    ASSUME NEW S \in SUBSET Nat, S # {}
    PROVE  \E m \in S : \A n \in S : m <= n
<1> DEFINE Below == OpToRel(<, Nat)
<1>1. IsWellFoundedOn(Below, Nat)
  BY NatLessThanWellFounded
<1>2. \A x, y \in Nat : y < x => <<y, x>> \in Below
  BY DEF OpToRel
<1> HIDE DEF Below
<1>3. PICK m \in S : \A y \in S : ~(<<y, m>> \in Below)
  BY <1>1, WFMin
<1>4. ASSUME NEW n \in S PROVE m <= n
  <2>1. ~(n < m) /\ n \in Nat /\ m \in Nat
    BY <1>2, <1>3
  <2>2. QED BY <2>1
<1>5. QED BY <1>4

\* What is chosen of the first items.
Choosing(f, s, T, n) == f = [i \in 0..n |->
    IF i = 0 THEN <<>> ELSE IF s[i] \in T THEN Append(f[i - 1], s[i]) ELSE f[i - 1]]

LEMMA ChoosingExists ==
    ASSUME NEW s, NEW T, NEW n \in Nat
    PROVE  \E f : Choosing(f, s, T, n)
<1> DEFINE Bad == {k \in Nat : ~\E f : Choosing(f, s, T, k)}
<1>1. ASSUME Bad # {} PROVE FALSE
  <2>1. PICK k \in Bad : \A m \in Bad : k <= m
    BY <1>1, LeastPlace
  <2>2. k \in Nat /\ ~\E f : Choosing(f, s, T, k)
    OBVIOUS
  <2>3. CASE k = 0
    <3>1. Choosing([i \in 0..k |-> <<>>], s, T, k)
      BY <2>3 DEF Choosing
    <3>2. QED BY <2>2, <3>1
  <2>4. CASE k # 0
    <3>1. k - 1 \in Nat /\ k - 1 \notin Bad
      BY <2>1, <2>2, <2>4
    <3>2. PICK g : Choosing(g, s, T, k - 1)
      BY <3>1
    <3>3. PICK last : last = IF s[k] \in T THEN Append(g[k - 1], s[k]) ELSE g[k - 1]
      OBVIOUS
    <3> DEFINE f == [i \in 0..k |-> IF i = k THEN last ELSE g[i]]
    <3>4. ASSUME NEW i \in 0..k
          PROVE  f[i] = IF i = 0 THEN <<>> ELSE IF s[i] \in T THEN Append(f[i - 1], s[i]) ELSE f[i - 1]
      <4>1. CASE i = k
        BY <4>1, <2>2, <2>4, <3>3
      <4>2. CASE i # k
        <5>1. i \in 0..(k - 1)
          BY <2>2, <4>2
        <5>2. g[i] = IF i = 0 THEN <<>> ELSE IF s[i] \in T THEN Append(g[i - 1], s[i]) ELSE g[i - 1]
          BY <5>1, <3>2 DEF Choosing
        <5>3. f[i] = g[i] /\ (i # 0 => f[i - 1] = g[i - 1])
          BY <2>2, <4>2, <5>1
        <5>4. QED BY <5>2, <5>3
      <4>3. QED BY <4>1, <4>2
    <3>5. Choosing(f, s, T, k)
      BY <3>4 DEF Choosing
    <3>6. QED BY <2>2, <3>5
  <2>5. QED BY <2>3, <2>4
<1>2. QED BY <1>1

LEMMA ChoosingAgrees ==
    ASSUME NEW s, NEW t, NEW T, NEW U, NEW n \in Nat, NEW m \in Nat, NEW k \in Nat, k <= n, k <= m,
           NEW f, Choosing(f, s, T, n), NEW g, Choosing(g, t, U, m),
           \A i \in 1..k : s[i] = t[i] /\ (s[i] \in T <=> s[i] \in U)
    PROVE  f[k] = g[k]
<1> DEFINE Bad == {i \in 0..k : f[i] # g[i]}
<1>1. ASSUME Bad # {} PROVE FALSE
  <2>1. PICK i \in Bad : \A j \in Bad : i <= j
    <3>1. Bad \in SUBSET Nat
      OBVIOUS
    <3>2. QED BY <3>1, <1>1, LeastPlace
  <2>2. i \in 0..k /\ f[i] # g[i] /\ i \in 0..n /\ i \in 0..m
    OBVIOUS
  <2>3. /\ f[i] = IF i = 0 THEN <<>> ELSE IF s[i] \in T THEN Append(f[i - 1], s[i]) ELSE f[i - 1]
        /\ g[i] = IF i = 0 THEN <<>> ELSE IF t[i] \in U THEN Append(g[i - 1], t[i]) ELSE g[i - 1]
    BY <2>2 DEF Choosing
  <2>4. i # 0 => s[i] = t[i] /\ f[i - 1] = g[i - 1] /\ (s[i] \in T <=> s[i] \in U)
    BY <2>1, <2>2
  <2>5. QED BY <2>2, <2>3, <2>4
<1>2. QED BY <1>1

LEMMA AmongChosen ==
    ASSUME NEW S, NEW s \in Seq(S), NEW T
    PROVE  \E f : Choosing(f, s, T, Len(s)) /\ Among(s, T) = f[Len(s)]
<1>1. Len(s) \in Nat
  OBVIOUS
<1>2. Among(s, T) = (CHOOSE f : Choosing(f, s, T, Len(s)))[Len(s)]
  BY DEF Among, Choosing
<1>3. Choosing(CHOOSE f : Choosing(f, s, T, Len(s)), s, T, Len(s))
  BY <1>1, ChoosingExists
<1>4. QED BY <1>2, <1>3

\* One more item.
LEMMA AmongMore ==
    ASSUME NEW S, NEW s \in Seq(S), NEW x \in S, NEW T
    PROVE  Among(Append(s, x), T) = IF x \in T THEN Append(Among(s, T), x) ELSE Among(s, T)
<1>1. /\ Append(s, x) \in Seq(S) /\ Len(Append(s, x)) = Len(s) + 1 /\ Len(s) \in Nat
      /\ \A i \in 1..Len(s) : Append(s, x)[i] = s[i]
      /\ Append(s, x)[Len(s) + 1] = x
  BY AppendProperties
<1>2. PICK t : t = Append(s, x)
  OBVIOUS
<1>3. PICK f : Choosing(f, s, T, Len(s)) /\ Among(s, T) = f[Len(s)]
  BY AmongChosen
<1>4. PICK g : Choosing(g, t, T, Len(s) + 1) /\ Among(t, T) = g[Len(s) + 1]
  <2>1. t \in Seq(S) /\ Len(t) = Len(s) + 1
    BY <1>1, <1>2
  <2>2. PICK g : Choosing(g, t, T, Len(t)) /\ Among(t, T) = g[Len(t)]
    BY <2>1, AmongChosen
  <2>3. QED BY <2>1, <2>2
<1>5. g[Len(s)] = f[Len(s)]
  <2>1. PICK n \in Nat : n = Len(s)
    BY <1>1
  <2>2. n + 1 \in Nat /\ n <= n /\ n <= n + 1 /\ Choosing(f, s, T, n) /\ Choosing(g, t, T, n + 1)
    BY <2>1, <1>3, <1>4
  <2>3. \A i \in 1..n : s[i] = t[i]
    BY <2>1, <1>1, <1>2
  <2>4. f[n] = g[n]
    BY <2>2, <2>3, ChoosingAgrees
  <2>5. QED BY <2>1, <2>4
<1>6. g[Len(s) + 1] = IF t[Len(s) + 1] \in T THEN Append(g[Len(s)], t[Len(s) + 1]) ELSE g[Len(s)]
  <2>1. PICK n \in Nat : n = Len(s)
    BY <1>1
  <2>2. n + 1 \in 0..(n + 1) /\ n + 1 # 0 /\ n + 1 - 1 = n
    OBVIOUS
  <2>3. \A i \in 0..(n + 1) : g[i] =
            IF i = 0 THEN <<>> ELSE IF t[i] \in T THEN Append(g[i - 1], t[i]) ELSE g[i - 1]
    BY <2>1, <1>4 DEF Choosing
  <2>4. QED BY <2>1, <2>2, <2>3
<1>7. QED BY <1>1, <1>2, <1>3, <1>4, <1>5, <1>6

\* Among nothing.
LEMMA AmongNone ==
    ASSUME NEW T
    PROVE  Among(<<>>, T) = <<>>
<1>1. PICK s : s = <<>>
  OBVIOUS
<1>2. Len(s) = 0
  BY <1>1
<1>3. Among(s, T) = (CHOOSE f : Choosing(f, s, T, Len(s)))[Len(s)]
  BY DEF Among, Choosing
<1>4. Choosing(CHOOSE f : Choosing(f, s, T, 0), s, T, 0)
  <2>1. \E f : Choosing(f, s, T, 0)
    BY ChoosingExists
  <2>2. QED BY <2>1
<1>5. (CHOOSE f : Choosing(f, s, T, 0))[0] = <<>>
  BY <1>4 DEF Choosing
<1>6. QED BY <1>1, <1>2, <1>3, <1>5

\* Two sets that agree on the items choose the same.
LEMMA AmongAgree ==
    ASSUME NEW S, NEW s \in Seq(S), NEW T, NEW U, \A i \in 1..Len(s) : s[i] \in T <=> s[i] \in U
    PROVE  Among(s, T) = Among(s, U)
<1>1. PICK n \in Nat : n = Len(s)
  OBVIOUS
<1>2. PICK f : Choosing(f, s, T, n) /\ Among(s, T) = f[n]
  BY <1>1, AmongChosen
<1>3. PICK g : Choosing(g, s, U, n) /\ Among(s, U) = g[n]
  BY <1>1, AmongChosen
<1>4. n <= n /\ \A i \in 1..n : s[i] = s[i] /\ (s[i] \in T <=> s[i] \in U)
  BY <1>1
<1>5. f[n] = g[n]
  BY <1>2, <1>3, <1>4, ChoosingAgrees
<1>6. QED BY <1>2, <1>3, <1>5

Items(g) == {g[i] : i \in DOMAIN g}

\* A client that was given g has followed the first k results: g is what it has of them, in their order.
Follows(all, k, g) ==
    /\ g = Among(SubSeq(all, 1, k), Items(g))
    /\ Items(g) \subseteq {all[i] : i \in 1..k}

Once(all) == \A i, j \in DOMAIN all : all[i] = all[j] => i = j

\* A cut that reaches one result further.
LEMMA CutMore ==
    ASSUME NEW S, NEW all \in Seq(S), NEW r \in Nat, NEW q \in Nat, r <= q, q < Len(all)
    PROVE  /\ SubSeq(all, r + 1, q) \in Seq(S)
           /\ Len(SubSeq(all, r + 1, q)) = q - r
           /\ \A i \in 1..(q - r) : SubSeq(all, r + 1, q)[i] = all[r + i]
           /\ SubSeq(all, r + 1, q + 1) = Append(SubSeq(all, r + 1, q), all[q + 1])
           /\ all[q + 1] \in S
<1> DEFINE c == SubSeq(all, r + 1, q)
           d == SubSeq(all, r + 1, q + 1)
           x == all[q + 1]
<1>0. /\ r + 1 \in Int /\ q \in Int /\ q + 1 \in Int
      /\ \A i \in (r + 1)..(q + 1) : all[i] \in S
      /\ \A i \in (r + 1)..q : all[i] \in S
  BY ElementOfSeq
<1>1. c \in Seq(S) /\ Len(c) = q - r /\ \A i \in 1..(q - r) : c[i] = all[r + i]
  <2>1. /\ c \in Seq(S) /\ Len(c) = IF r + 1 <= q THEN q - (r + 1) + 1 ELSE 0
        /\ \A i \in 1..(q - (r + 1) + 1) : c[i] = all[r + 1 + i - 1]
    BY <1>0, SubSeqProperties
  <2>2. q - (r + 1) + 1 = q - r /\ \A i \in 1..(q - r) : r + 1 + i - 1 = r + i
    OBVIOUS
  <2>3. QED BY <2>1, <2>2
<1>2. d \in Seq(S) /\ Len(d) = q - r + 1 /\ \A i \in 1..(q - r + 1) : d[i] = all[r + i]
  <2>1. /\ d \in Seq(S) /\ Len(d) = IF r + 1 <= q + 1 THEN q + 1 - (r + 1) + 1 ELSE 0
        /\ \A i \in 1..(q + 1 - (r + 1) + 1) : d[i] = all[r + 1 + i - 1]
    BY <1>0, SubSeqProperties
  <2>2. q + 1 - (r + 1) + 1 = q - r + 1 /\ \A i \in 1..(q - r + 1) : r + 1 + i - 1 = r + i
    OBVIOUS
  <2>3. QED BY <2>1, <2>2
<1>3. x \in S
  BY ElementOfSeq
<1>4. /\ Append(c, x) \in Seq(S) /\ Len(Append(c, x)) = q - r + 1
      /\ \A i \in 1..(q - r) : Append(c, x)[i] = all[r + i]
      /\ Append(c, x)[q - r + 1] = x
  BY <1>1, <1>3, AppendProperties
<1>5. ASSUME NEW i \in 1..(q - r + 1) PROVE d[i] = Append(c, x)[i]
  <2>1. r + (q - r + 1) = q + 1 /\ (i # q - r + 1 => i \in 1..(q - r))
    OBVIOUS
  <2> HIDE DEF c, d
  <2>2. CASE i = q - r + 1
    <3>1. d[i] = all[q + 1]
      BY <1>2, <2>1, <2>2
    <3>2. Append(c, x)[i] = x
      BY <1>4, <2>2
    <3>3. QED BY <3>1, <3>2
  <2>3. CASE i # q - r + 1
    <3>1. d[i] = all[r + i] /\ Append(c, x)[i] = all[r + i]
      BY <1>2, <1>4, <2>1, <2>3
    <3>2. QED BY <3>1
  <2>4. QED BY <2>2, <2>3
<1>6. d = Append(c, x)
  <2>1. Len(d) = Len(Append(c, x)) /\ Len(d) = q - r + 1
    BY <1>2, <1>4
  <2>2. PICK e : e = Append(c, x)
    OBVIOUS
  <2>3. e \in Seq(S) /\ Len(e) = Len(d) /\ \A i \in 1..Len(d) : d[i] = e[i]
    BY <2>1, <2>2, <1>4, <1>5
  <2>4. d = e
    BY <2>3, <1>2, SeqEqual
  <2>5. QED BY <2>2, <2>4
<1>7. QED BY <1>1, <1>3, <1>6

\* The next result is taken, or passed over.
LEMMA FollowOne ==
    ASSUME NEW S, NEW all \in Seq(S), Once(all), NEW k \in Nat, k < Len(all),
           NEW g \in Seq(S), Follows(all, k, g)
    PROVE  /\ Follows(all, k + 1, g)
           /\ Follows(all, k + 1, Append(g, all[k + 1]))
           /\ Items(Append(g, all[k + 1])) = Items(g) \cup {all[k + 1]}
<1> DEFINE first == SubSeq(all, 1, k)
           x == all[k + 1]
<1>1. /\ first \in Seq(S) /\ Len(first) = k /\ x \in S
      /\ \A i \in 1..k : first[i] = all[i]
      /\ SubSeq(all, 1, k + 1) = Append(first, x)
  <2>1. 0 \in Nat /\ 0 <= k /\ 0 + 1 = 1 /\ k - 0 = k /\ \A i \in 1..k : 0 + i = i
    OBVIOUS
  <2>2. QED BY <2>1, CutMore
<1>2. \A i \in 1..k : all[i] # x
  BY DEF Once
<1>3. x \notin Items(g)
  BY <1>2 DEF Follows
<1>4. Follows(all, k + 1, g)
  <2>1. Among(Append(first, x), Items(g)) = Among(first, Items(g))
    <3>1. PICK c \in Seq(S) : c = first
      BY <1>1
    <3>2. PICK y \in S : y = x
      BY <1>1
    <3>3. Among(Append(c, y), Items(g)) = Among(c, Items(g))
      BY <3>2, <1>3, AmongMore
    <3>4. QED BY <3>1, <3>2, <3>3
  <2>2. {all[i] : i \in 1..k} \subseteq {all[i] : i \in 1..(k + 1)}
    OBVIOUS
  <2>3. QED BY <2>1, <2>2, <1>1 DEF Follows
<1>5. Items(Append(g, x)) = Items(g) \cup {x}
  <2>1. /\ Len(Append(g, x)) = Len(g) + 1 /\ Append(g, x)[Len(g) + 1] = x /\ Len(g) \in Nat
        /\ \A i \in 1..Len(g) : Append(g, x)[i] = g[i]
        /\ DOMAIN Append(g, x) = 1..(Len(g) + 1) /\ DOMAIN g = 1..Len(g)
    BY <1>1, AppendProperties
  <2>2. QED BY <2>1 DEF Items
<1>6. Follows(all, k + 1, Append(g, x))
  <2>1. Among(first, Items(Append(g, x))) = Among(first, Items(g))
    <3>1. \A i \in 1..Len(first) : first[i] \in Items(Append(g, x)) <=> first[i] \in Items(g)
      BY <1>1, <1>2, <1>5
    <3>2. QED BY <3>1, <1>1, AmongAgree
  <2>2. Among(Append(first, x), Items(Append(g, x))) = Append(Among(first, Items(Append(g, x))), x)
    <3>1. PICK c \in Seq(S) : c = first
      BY <1>1
    <3>2. PICK y \in S : y = x
      BY <1>1
    <3>3. PICK T : T = Items(Append(g, x))
      OBVIOUS
    <3>4. y \in T
      BY <3>2, <3>3, <1>5
    <3>5. Among(Append(c, y), T) = Append(Among(c, T), y)
      BY <3>4, AmongMore
    <3>6. QED BY <3>1, <3>2, <3>3, <3>5
  <2>3. Items(Append(g, x)) \subseteq {all[i] : i \in 1..(k + 1)}
    BY <1>5 DEF Follows
  <2>4. Append(g, x) = Among(SubSeq(all, 1, k + 1), Items(Append(g, x)))
    BY <1>1, <2>1, <2>2 DEF Follows
  <2>5. QED BY <2>3, <2>4 DEF Follows
<1>7. QED BY <1>4, <1>5, <1>6

\* The results after the first r, up to the first q, those that are in T.
Given(all, g, r, q, T) == g \o Among(SubSeq(all, r + 1, q), T)

FollowsOn(S, all, g, r, q, T) ==
    LET h == Given(all, g, r, q, T)
    IN  /\ Among(SubSeq(all, r + 1, q), T) \in Seq(S) /\ h \in Seq(S)
        /\ Follows(all, q, h)
        /\ Items(g) \subseteq Items(h)
        /\ \A i \in (r + 1)..q : all[i] \in T => all[i] \in Items(h)
        /\ S \subseteq T => Among(SubSeq(all, r + 1, q), T) = SubSeq(all, r + 1, q)

LEMMA FollowFrom ==
    ASSUME NEW S, NEW all \in Seq(S), NEW r \in Nat, r <= Len(all), NEW T,
           NEW g \in Seq(S), Follows(all, r, g)
    PROVE  FollowsOn(S, all, g, r, r, T)
<1>1. SubSeq(all, r + 1, r) = <<>> /\ <<>> \in Seq(S)
  <2>1. r + 1 > r
    OBVIOUS
  <2>2. QED BY <2>1, SubSeqEmpty
<1>2. Among(<<>>, T) = <<>>
  BY AmongNone
<1>3. g \o <<>> = g
  BY ConcatEmptySeq
<1>4. Given(all, g, r, r, T) = g
  BY <1>1, <1>2, <1>3 DEF Given
<1>5. PICK h : h = Given(all, g, r, r, T)
  OBVIOUS
<1>6. h = g /\ h \in Seq(S) /\ Follows(all, r, h)
  BY <1>4, <1>5
<1>7. /\ Among(SubSeq(all, r + 1, r), T) = SubSeq(all, r + 1, r)
      /\ SubSeq(all, r + 1, r) \in Seq(S)
  BY <1>1, <1>2
<1>8. \A i \in (r + 1)..r : FALSE
  OBVIOUS
<1>9. QED BY <1>5, <1>6, <1>7, <1>8 DEF FollowsOn

LEMMA FollowNext ==
    ASSUME NEW S, NEW all \in Seq(S), Once(all), NEW r \in Nat, NEW q \in Nat, r <= q, q < Len(all),
           NEW T, NEW g \in Seq(S), FollowsOn(S, all, g, r, q, T)
    PROVE  FollowsOn(S, all, g, r, q + 1, T)
<1>1. PICK c : c = SubSeq(all, r + 1, q)
  OBVIOUS
<1>2. PICK x : x = all[q + 1]
  OBVIOUS
<1>3. c \in Seq(S) /\ x \in S /\ SubSeq(all, r + 1, q + 1) = Append(c, x)
  BY <1>1, <1>2, CutMore
<1>4. PICK a : a = Among(c, T)
  OBVIOUS
<1>5. PICK h : h = g \o a
  OBVIOUS
<1>6. /\ a \in Seq(S) /\ h \in Seq(S) /\ Follows(all, q, h) /\ Items(g) \subseteq Items(h)
      /\ \A i \in (r + 1)..q : all[i] \in T => all[i] \in Items(h)
      /\ S \subseteq T => a = c
  BY <1>1, <1>4, <1>5 DEF FollowsOn, Given
<1>7. /\ Follows(all, q + 1, h) /\ Follows(all, q + 1, Append(h, x))
      /\ Items(Append(h, x)) = Items(h) \cup {x}
  BY <1>2, <1>6, FollowOne
<1>8. Among(Append(c, x), T) = IF x \in T THEN Append(a, x) ELSE a
  <2>1. PICK d \in Seq(S) : d = c
    BY <1>3
  <2>2. PICK y \in S : y = x
    BY <1>3
  <2>3. Among(Append(d, y), T) = IF y \in T THEN Append(Among(d, T), y) ELSE Among(d, T)
    BY AmongMore
  <2>4. QED BY <2>1, <2>2, <2>3, <1>4
<1>9. \A i \in (r + 1)..(q + 1) : i \in (r + 1)..q \/ i = q + 1
  OBVIOUS
<1>10. CASE x \in T
  <2>1. g \o Append(a, x) = Append(h, x) /\ Append(a, x) \in Seq(S) /\ Append(h, x) \in Seq(S)
    BY <1>3, <1>5, <1>6
  <2>2. /\ Among(SubSeq(all, r + 1, q + 1), T) = Append(a, x)
        /\ Given(all, g, r, q + 1, T) = Append(h, x)
    BY <2>1, <1>3, <1>8, <1>10 DEF Given
  <2>3. \A i \in (r + 1)..(q + 1) : all[i] \in T => all[i] \in Items(Append(h, x))
    BY <1>2, <1>6, <1>7, <1>9
  <2>4. S \subseteq T => Append(a, x) = SubSeq(all, r + 1, q + 1)
    BY <1>3, <1>6
  <2>5. Items(g) \subseteq Items(Append(h, x))
    BY <1>6, <1>7
  <2>6. QED BY <2>1, <2>2, <2>3, <2>4, <2>5, <1>7 DEF FollowsOn
<1>11. CASE x \notin T
  <2>1. Among(SubSeq(all, r + 1, q + 1), T) = a /\ Given(all, g, r, q + 1, T) = h
    BY <1>3, <1>5, <1>8, <1>11 DEF Given
  <2>2. \A i \in (r + 1)..(q + 1) : all[i] \in T => all[i] \in Items(h)
    BY <1>2, <1>6, <1>9, <1>11
  <2>3. ~(S \subseteq T)
    BY <1>3, <1>11
  <2>4. QED BY <2>1, <2>2, <2>3, <1>6, <1>7 DEF FollowsOn
<1>12. QED BY <1>10, <1>11

\* What is cut from the results goes on where the client was.
LEMMA FollowMore ==
    ASSUME NEW S, NEW all \in Seq(S), Once(all), NEW r \in Nat, NEW q \in Nat, r <= q, q <= Len(all),
           NEW T, NEW g \in Seq(S), Follows(all, r, g)
    PROVE  FollowsOn(S, all, g, r, q, T)
<1> DEFINE Bad == {n \in Nat : r <= n /\ n <= Len(all) /\ ~FollowsOn(S, all, g, r, n, T)}
<1>1. ASSUME Bad # {} PROVE FALSE
  <2>1. PICK n \in Bad : \A m \in Bad : n <= m
    <3>1. Bad \in SUBSET Nat
      OBVIOUS
    <3>2. QED BY <3>1, <1>1, LeastPlace
  <2>2. CASE n = r
    <3>1. r <= Len(all)
      OBVIOUS
    <3>2. QED BY <2>2, <3>1, FollowFrom
  <2>3. CASE n # r
    <3>1. PICK k \in Nat : n = k + 1 /\ r <= k /\ k < Len(all)
      <4>1. n \in Nat /\ r <= n /\ n <= Len(all)
        OBVIOUS
      <4>2. n - 1 \in Nat /\ n = (n - 1) + 1 /\ r <= n - 1 /\ n - 1 < Len(all)
        BY <4>1, <2>3
      <4>3. QED BY <4>2
    <3>2. k \notin Bad
      BY <2>1, <3>1
    <3>3. FollowsOn(S, all, g, r, k, T)
      BY <3>1, <3>2
    <3>4. FollowsOn(S, all, g, r, k + 1, T)
      BY <3>1, <3>3, FollowNext
    <3>5. QED BY <3>1, <3>4
  <2>4. QED BY <2>2, <2>3
<1>2. QED BY <1>1

----------------------------------------------------------------------------
(* Walks *)

\* The results up to where the walk is were given in order, but for what was withdrawn from a search.
Followed(w) ==
    LET all == WalkHits[w.pub]
    IN  /\ Reached(w) \in Nat /\ Reached(w) <= Len(all)
        /\ Follows(all, Reached(w), w.given)
        /\ \A i \in 1..Reached(w) :
              all[i] \in Items(w.given) \/ (w.kind = "search" /\ all[i] \in gone)

\* A walk so far: of one publication's results, and whole if no page of it was cut off.
WalkSoFar(w) ==
    /\ w.kind \in {"search", "listing", "pages"}
    /\ w.pub \in Walked /\ w.limit \in Limits /\ w.next \in Nat
    /\ w.kind = "pages" => w.next <= LastPage
    /\ w.cut \in BOOLEAN /\ (w.cut => w.kind = "pages")
    /\ w.given \in Seq(Sections) /\ Items(w.given) \subseteq Items(WalkHits[w.pub])
    /\ ~w.cut => Followed(w)

WalkInv ==
    /\ current \in Walked
    /\ walk.kind # "none" => WalkSoFar(walk)

LEMMA HitsOnce ==
    ASSUME NEW p \in Walked
    PROVE  WalkHits[p] \in Seq(Sections) /\ Once(WalkHits[p]) /\ Len(WalkHits[p]) \in Nat
BY WalkAssumption DEF Once

LEMMA WalkInitial == WalkInit => WalkInv
BY DEF WalkInit, NoWalk, WalkInv

\* What a walk was given so far.
LEMMA WalkEnds == WalkInv => WalkWhole
<1> SUFFICES ASSUME WalkInv, walk.kind # "none" PROVE WalkWhole
  BY DEF WalkWhole
<1> DEFINE all == WalkHits[walk.pub]
           given == {walk.given[i] : i \in DOMAIN walk.given}
<1>1. given \subseteq {all[i] : i \in DOMAIN all}
  BY DEF WalkInv, WalkSoFar, Items
<1>2. ASSUME ~walk.cut
      PROVE  LET seen == SubSeq(all, 1, Reached(walk))
             IN  /\ walk.given = Among(seen, given)
                 /\ \A i \in DOMAIN seen :
                       seen[i] \in given \/ (walk.kind = "search" /\ seen[i] \in gone)
  <2>1. PICK r : r = Reached(walk)
    OBVIOUS
  <2>2. /\ walk.pub \in Walked /\ r \in Nat /\ r <= Len(all)
        /\ Follows(all, r, walk.given)
        /\ \A i \in 1..r : all[i] \in given \/ (walk.kind = "search" /\ all[i] \in gone)
    BY <1>2, <2>1 DEF WalkInv, WalkSoFar, Followed, Items
  <2>3. all \in Seq(Sections)
    BY <2>2, HitsOnce
  <2>4. PICK seen : seen = SubSeq(all, 1, r)
    OBVIOUS
  <2>5. DOMAIN seen = 1..r /\ \A i \in 1..r : seen[i] = all[i]
    <3>1. \A i \in 1..r : all[i] \in Sections
      BY <2>2, <2>3, ElementOfSeq
    <3>2. /\ seen \in Seq(Sections) /\ Len(seen) = IF 1 <= r THEN r - 1 + 1 ELSE 0
          /\ \A i \in 1..(r - 1 + 1) : seen[i] = all[1 + i - 1]
      <4>1. 1 \in Int /\ r \in Int
        BY <2>2
      <4>2. QED BY <3>1, <4>1, <2>4, SubSeqProperties
    <3>3. Len(seen) = r /\ DOMAIN seen = 1..Len(seen) /\ \A i \in 1..r : 1 + i - 1 = i
      BY <3>2, <2>2
    <3>4. QED BY <3>2, <3>3, <2>2
  <2>6. walk.given = Among(seen, given)
    BY <2>2, <2>4 DEF Follows, Items
  <2>7. \A i \in DOMAIN seen : seen[i] \in given \/ (walk.kind = "search" /\ seen[i] \in gone)
    BY <2>2, <2>5
  <2>8. QED BY <2>1, <2>4, <2>6, <2>7
<1>3. QED BY <1>1, <1>2 DEF WalkWhole

\* A page of a search or a listing, from where the walk is.
LEMMA AnswerGoesOn ==
    ASSUME NEW kind \in {"search", "listing"}, NEW pub \in Walked, NEW limit \in Limits,
           NEW offset \in Nat, offset <= Len(WalkHits[pub]),
           NEW given \in Seq(Sections), Follows(WalkHits[pub], offset, given),
           \A i \in 1..offset : WalkHits[pub][i] \in Items(given)
                                  \/ (kind = "search" /\ WalkHits[pub][i] \in gone)
    PROVE  WalkSoFar(Answer1(kind, pub, offset, limit, given))
<1>1. PICK all : all = WalkHits[pub]
  OBVIOUS
<1>2. all \in Seq(Sections) /\ Once(all) /\ Len(all) \in Nat
  BY <1>1, HitsOnce
<1>3. PICK q : q = Lesser(offset + limit, Len(all))
  OBVIOUS
<1>4. limit \in Nat /\ limit > 0
  BY WalkAssumption
<1>5. q \in Nat /\ offset <= q /\ q <= Len(all)
  BY <1>1, <1>2, <1>3, <1>4 DEF Lesser
<1>6. PICK T : T = IF kind = "search" THEN Sections \ gone ELSE Sections
  OBVIOUS
<1>7. FollowsOn(Sections, all, given, offset, q, T)
  <2>1. Follows(all, offset, given)
    BY <1>1
  <2>2. QED BY <2>1, <1>2, <1>5, FollowMore
<1>8. PICK h : h = Given(all, given, offset, q, T)
  OBVIOUS
<1>9. PICK w : w = Answer1(kind, pub, offset, limit, given)
  OBVIOUS
<1>10. /\ w.kind = kind /\ w.pub = pub /\ w.limit = limit /\ w.cut = FALSE
       /\ w.next = IF offset + limit < Len(all) THEN offset + limit ELSE 0
       /\ w.given = h
  BY <1>1, <1>3, <1>6, <1>8, <1>9 DEF Answer1, NextOffset, WalkDone, Served, Cut, Given
<1>11. Reached(w) = q
  BY <1>1, <1>2, <1>3, <1>4, <1>10 DEF Reached, WalkDone, Lesser
<1>12. /\ h \in Seq(Sections) /\ Follows(all, q, h) /\ Items(given) \subseteq Items(h)
       /\ \A i \in (offset + 1)..q : all[i] \in T => all[i] \in Items(h)
  BY <1>7, <1>8 DEF FollowsOn
<1>13. \A i \in 1..q : all[i] \in Items(h) \/ (kind = "search" /\ all[i] \in gone)
  <2> SUFFICES ASSUME NEW i \in 1..q
               PROVE  all[i] \in Items(h) \/ (kind = "search" /\ all[i] \in gone)
    OBVIOUS
  <2>1. i \in 1..offset \/ i \in (offset + 1)..q
    BY <1>5
  <2>2. all[i] \in Sections
    BY <1>2, <1>5, ElementOfSeq
  <2>3. CASE i \in 1..offset
    BY <2>3, <1>1, <1>12
  <2>4. CASE i \in (offset + 1)..q
    BY <2>4, <2>2, <1>6, <1>12
  <2>5. QED BY <2>1, <2>3, <2>4
<1>14. w.next \in Nat
  BY <1>4, <1>10
<1>15. Items(h) \subseteq Items(all)
  <2>1. DOMAIN all = 1..Len(all)
    BY <1>2
  <2>2. Items(h) \subseteq {all[i] : i \in 1..q}
    BY <1>12 DEF Follows
  <2>3. {all[i] : i \in 1..q} \subseteq Items(all)
    BY <2>1, <1>5 DEF Items
  <2>4. QED BY <2>2, <2>3
<1>16. Followed(w)
  BY <1>1, <1>5, <1>10, <1>11, <1>12, <1>13 DEF Followed
<1>17. WalkSoFar(w)
  BY <1>1, <1>10, <1>12, <1>14, <1>15, <1>16 DEF WalkSoFar
<1>18. QED BY <1>9, <1>17

\* What the engine found is of the publication's results; when it found everything it is all of them.
LEMMA RankedHits ==
    ASSUME NEW S, NEW all \in Seq(S), Once(all), NEW found
    PROVE  /\ Among(all, found) \in Seq(Items(all))
           /\ S \subseteq found => Among(all, found) = all
<1>1. PICK n \in Nat : n = Len(all)
  OBVIOUS
<1>2. SubSeq(all, 1, n) = all
  <2>1. PICK c : c = SubSeq(all, 1, n)
    OBVIOUS
  <2>2. 1 \in Int /\ n \in Int /\ \A i \in 1..n : all[i] \in S
    BY <1>1, ElementOfSeq
  <2>3. /\ c \in Seq(S) /\ Len(c) = IF 1 <= n THEN n - 1 + 1 ELSE 0
        /\ \A i \in 1..(n - 1 + 1) : c[i] = all[1 + i - 1]
    BY <2>1, <2>2, SubSeqProperties
  <2>4. Len(c) = Len(all) /\ \A i \in 1..Len(c) : c[i] = all[i]
    BY <2>3, <1>1
  <2>5. c = all
    BY <2>3, <2>4, SeqEqual
  <2>6. QED BY <2>1, <2>5
<1>3. FollowsOn(S, all, <<>>, 0, n, found)
  <2>1. 0 \in Nat /\ 0 <= n /\ n <= Len(all) /\ <<>> \in Seq(S)
    BY <1>1
  <2>2. Follows(all, 0, <<>>)
    <3>1. SubSeq(all, 1, 0) = <<>>
      BY SubSeqEmpty
    <3>2. Items(<<>>) = {}
      BY DEF Items
    <3>3. QED BY <3>1, <3>2, AmongNone DEF Follows
  <2>3. QED BY <2>1, <2>2, FollowMore
<1>4. PICK h : h = Among(all, found)
  OBVIOUS
<1>5. SubSeq(all, 0 + 1, n) = all /\ h \in Seq(S) /\ (S \subseteq found => h = all)
  <2>1. SubSeq(all, 0 + 1, n) = all
    <3>1. 0 + 1 = 1
      OBVIOUS
    <3>2. QED BY <3>1, <1>2
  <2>2. /\ Among(SubSeq(all, 0 + 1, n), found) \in Seq(S)
        /\ S \subseteq found => Among(SubSeq(all, 0 + 1, n), found) = SubSeq(all, 0 + 1, n)
    BY <1>3 DEF FollowsOn
  <2>3. QED BY <2>1, <2>2, <1>4
<1>6. Given(all, <<>>, 0, n, found) = h
  BY <1>4, <1>5, ConcatEmptySeq DEF Given
<1>7. Items(h) \subseteq Items(all)
  <2>1. Items(h) \subseteq {all[i] : i \in 1..n}
    BY <1>3, <1>6 DEF FollowsOn, Follows
  <2>2. DOMAIN all = 1..n
    BY <1>1
  <2>3. QED BY <2>1, <2>2 DEF Items
<1>8. h \in Seq(Items(all))
  <2>1. DOMAIN h = 1..Len(h) /\ Len(h) \in Nat /\ h = [i \in 1..Len(h) |-> h[i]]
    BY <1>5
  <2>2. \A i \in 1..Len(h) : h[i] \in Items(all)
    BY <2>1, <1>7 DEF Items
  <2>3. QED BY <2>1, <2>2, SeqDef
<1>9. QED BY <1>4, <1>5, <1>8

\* A whole page of whole-book search, from where the walk is.
LEMMA PageGoesOn ==
    ASSUME NEW pub \in Walked, NEW limit \in Limits, NEW page \in Nat, page > 0, page <= LastPage,
           (page - 1) * limit <= Len(WalkHits[pub]), NEW before, NEW given \in Seq(Sections),
           before.given = given, before.cut = FALSE,
           Follows(WalkHits[pub], (page - 1) * limit, given),
           \A i \in 1..((page - 1) * limit) : WalkHits[pub][i] \in Items(given)
    PROVE  Followed(PageOf(pub, page, limit, Sections, FALSE, before))
<1>1. PICK all : all = WalkHits[pub]
  OBVIOUS
<1>2. all \in Seq(Sections) /\ Once(all) /\ Len(all) \in Nat
  BY <1>1, HitsOnce
<1>3. limit \in Nat /\ limit > 0 /\ LastPage \in Nat
  BY WalkAssumption
<1>4. PICK offset : offset = (page - 1) * limit
  OBVIOUS
<1>5. PICK end : end = LastPage * limit
  OBVIOUS
<1>6. /\ offset \in Nat /\ end \in Nat /\ page * limit = offset + limit
      /\ page = LastPage => end = offset + limit
      /\ offset + limit <= end
  <2>1. page * limit = offset + limit
    BY <1>3, <1>4
  <2>2. PICK d \in Nat : LastPage = page + d
    <3>1. LastPage - page \in Nat /\ LastPage = page + (LastPage - page)
      BY <1>3
    <3>2. QED BY <3>1
  <2>3. (page + d) * limit = page * limit + d * limit /\ d * limit \in Nat
    BY <1>3
  <2>4. page - 1 \in Nat
    OBVIOUS
  <2>5. offset \in Nat /\ end \in Nat
    BY <2>4, <1>3, <1>4, <1>5
  <2>6. end = page * limit + d * limit
    BY <1>5, <2>2, <2>3
  <2>7. page = LastPage => end = page * limit
    BY <1>5
  <2>8. QED BY <2>1, <2>3, <2>5, <2>6, <2>7, <1>3
<1>7. PICK q : q = Lesser(offset + limit, Len(all))
  OBVIOUS
<1>8. q \in Nat /\ offset <= q /\ q <= Len(all)
  BY <1>1, <1>2, <1>3, <1>4, <1>6, <1>7 DEF Lesser
<1>9. PICK c : c = SubSeq(all, offset + 1, q)
  OBVIOUS
<1>10. FollowsOn(Sections, all, given, offset, q, Sections)
  <2>1. Follows(all, offset, given)
    BY <1>1, <1>4
  <2>2. QED BY <2>1, <1>2, <1>6, <1>8, FollowMore
<1>11. PICK h : h = given \o c
  OBVIOUS
<1>12. /\ c \in Seq(Sections) /\ h \in Seq(Sections) /\ Follows(all, q, h) /\ Items(given) \subseteq Items(h)
       /\ \A i \in (offset + 1)..q : all[i] \in Sections => all[i] \in Items(h)
  BY <1>9, <1>10, <1>11 DEF FollowsOn, Given
<1>13. Len(c) = q - offset
  <2>1. \A i \in (offset + 1)..q : all[i] \in Sections
    BY <1>2, <1>6, <1>8, ElementOfSeq
  <2>2. offset + 1 \in Int /\ q \in Int
    BY <1>6, <1>8
  <2>3. Len(c) = IF offset + 1 <= q THEN q - (offset + 1) + 1 ELSE 0
    BY <2>1, <2>2, <1>9, SubSeqProperties
  <2>4. QED BY <2>3, <1>6, <1>8
<1>14. PICK w : w = PageOf(pub, page, limit, Sections, FALSE, before)
  OBVIOUS
<1>15. /\ w.kind = "pages" /\ w.pub = pub /\ w.limit = limit /\ w.given = h
       /\ w.next = IF Len(c) = limit /\ page < LastPage THEN page + 1 ELSE 0
  <2>1. Among(all, Sections) = all
    BY <1>2, RankedHits
  <2>2. QED BY <2>1, <1>1, <1>4, <1>7, <1>9, <1>11, <1>14 DEF PageOf, Cut, WalkDone
<1>16. Reached(w) = q
  <2>1. CASE Len(c) = limit /\ page < LastPage
    <3>1. w.next = page + 1 /\ page + 1 - 1 = page /\ page + 1 # 0
      BY <2>1, <1>15
    <3>2. Reached(w) = page * limit
      BY <3>1, <1>15 DEF Reached, WalkDone
    <3>3. q = offset + limit
      BY <2>1, <1>3, <1>6, <1>8, <1>13
    <3>4. QED BY <3>2, <3>3, <1>6
  <2>2. CASE ~(Len(c) = limit /\ page < LastPage)
    <3>1. w.next = 0
      BY <2>2, <1>15
    <3>2. Reached(w) = Lesser(end, Len(all))
      BY <3>1, <1>1, <1>5, <1>15 DEF Reached, WalkDone
    <3>3. Len(c) # limit \/ page = LastPage
      BY <2>2, <1>3
    <3>4. Lesser(end, Len(all)) = q
      BY <3>3, <1>2, <1>3, <1>6, <1>7, <1>8, <1>13 DEF Lesser
    <3>5. QED BY <3>2, <3>4
  <2>3. QED BY <2>1, <2>2
<1>17. \A i \in 1..q : all[i] \in Items(h)
  <2> SUFFICES ASSUME NEW i \in 1..q
               PROVE  all[i] \in Items(h)
    OBVIOUS
  <2>1. i \in 1..offset \/ i \in (offset + 1)..q
    BY <1>6, <1>8
  <2>2. all[i] \in Sections
    BY <1>2, <1>8, ElementOfSeq
  <2>3. CASE i \in 1..offset
    BY <2>3, <1>1, <1>4, <1>12
  <2>4. CASE i \in (offset + 1)..q
    BY <2>4, <2>2, <1>12
  <2>5. QED BY <2>1, <2>3, <2>4
<1>18. Followed(w)
  BY <1>1, <1>8, <1>12, <1>15, <1>16, <1>17 DEF Followed
<1>19. QED BY <1>14, <1>18

\* A page of whole-book search, cut off or not.
LEMMA PageFits ==
    ASSUME NEW pub \in Walked, NEW limit \in Limits, NEW page \in Nat, page > 0, page <= LastPage,
           NEW found, NEW cut, Stops(found, cut),
           NEW before, before.cut \in BOOLEAN, NEW given \in Seq(Sections), before.given = given,
           Items(given) \subseteq Items(WalkHits[pub]),
           ~before.cut =>
              /\ (page - 1) * limit <= Len(WalkHits[pub])
              /\ Follows(WalkHits[pub], (page - 1) * limit, given)
              /\ \A i \in 1..((page - 1) * limit) : WalkHits[pub][i] \in Items(given)
    PROVE  WalkSoFar(PageOf(pub, page, limit, found, cut, before))
<1>1. PICK all : all = WalkHits[pub]
  OBVIOUS
<1>2. all \in Seq(Sections) /\ Once(all)
  BY <1>1, HitsOnce
<1>3. PICK hits : hits = Among(all, found)
  OBVIOUS
<1>4. hits \in Seq(Items(all))
  BY <1>2, <1>3, RankedHits
<1>5. PICK offset : offset = (page - 1) * limit
  OBVIOUS
<1>6. offset \in Nat /\ limit \in Nat /\ LastPage \in Nat /\ Len(hits) \in Nat
  <2>1. page - 1 \in Nat /\ limit \in Nat /\ LastPage \in Nat
    BY WalkAssumption
  <2>2. QED BY <2>1, <1>4, <1>5
<1>7. PICK q : q = Lesser(offset + limit, Len(hits))
  OBVIOUS
<1>8. q \in Nat /\ q <= Len(hits)
  BY <1>6, <1>7 DEF Lesser
<1>9. PICK results : results = SubSeq(hits, offset + 1, q)
  OBVIOUS
<1>10. results \in Seq(Items(all))
  <2>1. offset + 1 \in Int /\ q \in Int /\ \A i \in (offset + 1)..q : hits[i] \in Items(all)
    BY <1>4, <1>6, <1>8, ElementOfSeq
  <2>2. QED BY <2>1, <1>9, SubSeqProperties
<1>11. given \in Seq(Items(all))
  <2>1. DOMAIN given = 1..Len(given) /\ Len(given) \in Nat /\ given = [i \in 1..Len(given) |-> given[i]]
    OBVIOUS
  <2>2. \A i \in 1..Len(given) : given[i] \in Items(all)
    BY <2>1, <1>1 DEF Items
  <2>3. QED BY <2>1, <2>2, SeqDef
<1>12. PICK h : h = given \o results
  OBVIOUS
<1>13. h \in Seq(Items(all))
  BY <1>10, <1>11, <1>12, ConcatProperties
<1>14. Items(h) \subseteq Items(all) /\ h \in Seq(Sections)
  <2>1. DOMAIN h = 1..Len(h) /\ \A i \in 1..Len(h) : h[i] \in Items(all)
    BY <1>13, ElementOfSeq
  <2>2. Items(h) \subseteq Items(all)
    BY <2>1 DEF Items
  <2>3. Items(all) \subseteq Sections
    BY <1>2, ElementOfSeq DEF Items
  <2>4. QED BY <2>2, <2>3, <1>13
<1>15. PICK w : w = PageOf(pub, page, limit, found, cut, before)
  OBVIOUS
<1>16. /\ w.kind = "pages" /\ w.pub = pub /\ w.limit = limit /\ w.given = h
       /\ w.cut = (before.cut \/ cut)
       /\ w.next = IF Len(results) = limit /\ page < LastPage THEN page + 1 ELSE 0
  BY <1>1, <1>3, <1>5, <1>7, <1>9, <1>12, <1>15 DEF PageOf, Cut, WalkDone
<1>17. w.next \in Nat /\ w.next <= LastPage
  BY <1>6, <1>16
<1>18. ASSUME ~w.cut PROVE Followed(w)
  <2>1. before.cut = FALSE /\ cut = FALSE /\ found = Sections
    BY <1>16, <1>18 DEF Stops
  <2>2. QED BY <2>1, <1>15, PageGoesOn
<1>19. w.cut \in BOOLEAN
  BY <1>16 DEF Stops
<1>20. WalkSoFar(w)
  BY <1>1, <1>14, <1>16, <1>17, <1>18, <1>19 DEF WalkSoFar
<1>21. QED BY <1>15, <1>20

\* Nothing of the results is reached at first.
LEMMA NothingFollowed ==
    ASSUME NEW p \in Walked
    PROVE  /\ <<>> \in Seq(Sections) /\ Follows(WalkHits[p], 0, <<>>)
           /\ 0 <= Len(WalkHits[p]) /\ 0 \in Nat
           /\ \A i \in 1..0 : FALSE
<1>1. SubSeq(WalkHits[p], 1, 0) = <<>>
  BY SubSeqEmpty
<1>2. Items(<<>>) = {}
  BY DEF Items
<1>3. Follows(WalkHits[p], 0, <<>>)
  BY <1>1, <1>2, AmongNone DEF Follows
<1>4. QED BY <1>3, HitsOnce

LEMMA WalkStep == WalkInv /\ [WalkNext]_walkVars => WalkInv'
<1> SUFFICES ASSUME WalkInv, [WalkNext]_walkVars PROVE WalkInv'
  OBVIOUS
<1>1. ASSUME NEW kind \in {"search", "listing"}, NEW limit \in Limits,
             walk' = Answer1(kind, current, 0, limit, <<>>), UNCHANGED <<current, gone>>
      PROVE  WalkInv'
  <2>1. current \in Walked
    BY DEF WalkInv
  <2>2. WalkSoFar(walk')
    BY <2>1, <1>1, NothingFollowed, AnswerGoesOn
  <2>3. WalkSoFar(walk)'
    BY <2>2, <1>1 DEF WalkSoFar, Followed, Reached
  <2>4. QED BY <2>1, <2>3, <1>1 DEF WalkInv
<1>2. ASSUME NEW limit \in Limits, walk.kind \in {"search", "listing"}, walk.next # WalkDone,
             walk' = Answer1(walk.kind, ContinueIn(walk), walk.next, limit, walk.given),
             UNCHANGED <<current, gone>>
      PROVE  WalkInv'
  <2>1. WalkSoFar(walk) /\ Reached(walk) = walk.next
    BY <1>2 DEF WalkInv, Reached
  <2>2. WalkSoFar(walk')
    <3>1. /\ walk.pub \in Walked /\ walk.next \in Nat /\ walk.next <= Len(WalkHits[walk.pub])
          /\ walk.given \in Seq(Sections) /\ Follows(WalkHits[walk.pub], walk.next, walk.given)
          /\ \A i \in 1..walk.next : \/ WalkHits[walk.pub][i] \in Items(walk.given)
                                      \/ (walk.kind = "search" /\ WalkHits[walk.pub][i] \in gone)
      BY <2>1, <1>2 DEF WalkSoFar, Followed
    <3>2. QED BY <3>1, <1>2, AnswerGoesOn DEF ContinueIn
  <2>3. WalkSoFar(walk)'
    BY <2>2, <1>2 DEF WalkSoFar, Followed, Reached
  <2>4. QED BY <2>3, <1>2 DEF WalkInv
<1>3. ASSUME NEW limit \in Limits, NEW found, NEW cut, Stops(found, cut),
             walk' = PageOf(current, 1, limit, found, cut, NoWalk), UNCHANGED <<current, gone>>
      PROVE  WalkInv'
  <2>1. current \in Walked /\ limit \in Nat /\ 1 \in Nat /\ 1 > 0 /\ 1 <= LastPage
    BY WalkAssumption DEF WalkInv
  <2>2. (1 - 1) * limit = 0
    BY <2>1
  <2>3. NoWalk.cut = FALSE /\ NoWalk.given = <<>> /\ Items(<<>>) = {}
    BY DEF NoWalk, Items
  <2>4. WalkSoFar(walk')
    <3>1. PICK before : before = NoWalk
      OBVIOUS
    <3>2. PICK given \in Seq(Sections) : given = <<>>
      BY NothingFollowed, <2>1
    <3>3. PICK page \in Nat : page = 1
      OBVIOUS
    <3>4. (page - 1) * limit = 0
      BY <2>2, <3>3
    <3>5. /\ page > 0 /\ page <= LastPage /\ before.cut \in BOOLEAN /\ before.given = given
          /\ Items(given) \subseteq Items(WalkHits[current])
      BY <2>1, <2>3, <3>1, <3>2, <3>3
    <3>6. /\ (page - 1) * limit <= Len(WalkHits[current])
          /\ Follows(WalkHits[current], (page - 1) * limit, given)
          /\ \A i \in 1..((page - 1) * limit) : WalkHits[current][i] \in Items(given)
      BY <2>1, <3>2, <3>4, NothingFollowed
    <3>7. WalkSoFar(PageOf(current, page, limit, found, cut, before))
      BY <2>1, <3>5, <3>6, <1>3, PageFits
    <3>8. QED BY <3>1, <3>3, <3>7, <1>3
  <2>5. WalkSoFar(walk)'
    BY <2>4, <1>3 DEF WalkSoFar, Followed, Reached
  <2>6. QED BY <2>1, <2>5, <1>3 DEF WalkInv
<1>4. ASSUME NEW found, NEW cut, Stops(found, cut),
             walk.kind = "pages", walk.next # WalkDone,
             walk' = PageOf(ContinueIn(walk), walk.next, walk.limit, found, cut, walk),
             UNCHANGED <<current, gone>>
      PROVE  WalkInv'
  <2>1. WalkSoFar(walk) /\ Reached(walk) = (walk.next - 1) * walk.limit
    BY <1>4 DEF WalkInv, Reached
  <2>2. WalkSoFar(walk')
    <3>1. PICK o : o = (walk.next - 1) * walk.limit
      OBVIOUS
    <3>2. /\ walk.pub \in Walked /\ walk.limit \in Limits /\ walk.next \in Nat /\ walk.next > 0
          /\ walk.next <= LastPage /\ walk.cut \in BOOLEAN
          /\ walk.given \in Seq(Sections) /\ Items(walk.given) \subseteq Items(WalkHits[walk.pub])
      BY <2>1, <1>4 DEF WalkSoFar, WalkDone
    <3>3. ~walk.cut => /\ o <= Len(WalkHits[walk.pub])
                       /\ Follows(WalkHits[walk.pub], o, walk.given)
                       /\ \A i \in 1..o : WalkHits[walk.pub][i] \in Items(walk.given)
      BY <2>1, <3>1, <1>4 DEF WalkSoFar, Followed
    <3>4. QED BY <3>1, <3>2, <3>3, <1>4, PageFits DEF ContinueIn
  <2>3. WalkSoFar(walk)'
    BY <2>2, <1>4 DEF WalkSoFar, Followed, Reached
  <2>4. QED BY <2>3, <1>4 DEF WalkInv
<1>5. ASSUME Reactivate PROVE WalkInv'
  BY <1>5 DEF Reactivate, WalkInv, WalkSoFar, Followed, Reached
<1>6. ASSUME Withdraw1 PROVE WalkInv'
  <2>1. gone \subseteq gone' /\ current' = current /\ walk' = walk
    BY <1>6 DEF Withdraw1
  <2>2. QED BY <2>1 DEF WalkInv, WalkSoFar, Followed, Reached
<1>7. ASSUME UNCHANGED walkVars PROVE WalkInv'
  BY <1>7 DEF walkVars, WalkInv, WalkSoFar, Followed, Reached
<1>8. QED
  BY <1>1, <1>2, <1>3, <1>4, <1>5, <1>6, <1>7 DEF WalkNext, OpenWalk, Continue, FindFirst, FindNext

\* A client that follows the continuations, to the end or until an offset is refused, has one
\* publication's results up to there in order, each once, but for what was withdrawn meanwhile, unless
\* an answer said that the search was cut off: for any library, any limits, any offsets accepted, and
\* whatever is activated or withdrawn between two pages (library.py:233-234, 417-418, 511).
THEOREM WalksAreWhole == WalkSpec => []WalkWhole
<1>1. WalkSpec => []WalkInv
  BY WalkInitial, WalkStep, PTL DEF WalkSpec
<1>2. QED BY <1>1, WalkEnds, PTL

----------------------------------------------------------------------------
(* The log of tool calls *)

\* A row is of a call that was made, and says of it what was made.
RowFits(r) ==
    /\ \E m \in made : m.call = r.call /\ m.metric = r.metric /\ m.at = r.at
    /\ r.source # 0 => r.metric = "search"

MadeNumbered ==
    /\ IsFiniteSet(made)
    /\ \A m \in made : m.call \in 1..Cardinality(made) /\ m.metric \in Metrics /\ m.at \in 0..day
    /\ \A m, n \in made : m.call = n.call => m = n

UsageInv ==
    /\ day \in 0..LastDay /\ MadeNumbered
    /\ DOMAIN events = Collectors /\ DOMAIN writing = Collectors
    /\ \A c \in Collectors : /\ IsFiniteSet(events[c]) /\ IsFiniteSet(writing[c])
                             /\ \A r \in events[c] \cup writing[c] : RowFits(r)

\* A part of a set is left with one element less when the one chosen of it goes.
Picked(T) == CHOOSE x \in T : TRUE

LEMMA PickedGoes ==
    ASSUME NEW T, IsFiniteSet(T), T # {}
    PROVE  /\ Picked(T) \in T /\ IsFiniteSet(T \ {Picked(T)})
           /\ Cardinality(T) \in Nat \ {0} /\ Cardinality(T \ {Picked(T)}) = Cardinality(T) - 1
<1>1. Picked(T) \in T
  BY DEF Picked
<1>2. Cardinality(T) \in Nat /\ Cardinality(T) # 0
  BY FS_CardinalityType, FS_EmptySet
<1>3. QED BY <1>1, <1>2, FS_RemoveElement

PartsUpTo(S, n) == {T \in SUBSET S : Cardinality(T) <= n}

LEMMA PartsOf ==
    ASSUME NEW S, IsFiniteSet(S), NEW n \in Nat
    PROVE  /\ \A T \in SUBSET S : IsFiniteSet(T) /\ Cardinality(T) \in Nat
           /\ PartsUpTo(S, Cardinality(S)) = SUBSET S /\ {} \in PartsUpTo(S, n)
           /\ \A T \in PartsUpTo(S, 0) : T = {}
           /\ PartsUpTo(S, n) \subseteq PartsUpTo(S, n + 1)
           /\ \A T \in PartsUpTo(S, n + 1) : T # {} => T \ {Picked(T)} \in PartsUpTo(S, n)
<1>1. ASSUME NEW T \in SUBSET S PROVE IsFiniteSet(T) /\ Cardinality(T) \in Nat /\ Cardinality(T) <= Cardinality(S)
  BY FS_Subset, FS_CardinalityType
<1>2. PartsUpTo(S, Cardinality(S)) = SUBSET S
  BY <1>1 DEF PartsUpTo
<1>3. {} \in PartsUpTo(S, n)
  BY FS_EmptySet DEF PartsUpTo
<1>4. ASSUME NEW T \in PartsUpTo(S, 0) PROVE T = {}
  <2>1. T \in SUBSET S /\ Cardinality(T) <= 0
    BY DEF PartsUpTo
  <2>2. Cardinality(T) = 0
    BY <1>1, <2>1
  <2>3. QED BY <1>1, <2>1, <2>2, FS_EmptySet
<1>5. ASSUME NEW T \in PartsUpTo(S, n) PROVE T \in PartsUpTo(S, n + 1)
  <2>1. T \in SUBSET S /\ Cardinality(T) <= n /\ Cardinality(T) \in Nat
    BY <1>1 DEF PartsUpTo
  <2>2. Cardinality(T) <= n + 1
    BY <2>1
  <2>3. QED BY <2>1, <2>2 DEF PartsUpTo
<1>6. ASSUME NEW T \in PartsUpTo(S, n + 1), T # {} PROVE T \ {Picked(T)} \in PartsUpTo(S, n)
  <2>1. T \in SUBSET S /\ Cardinality(T) <= n + 1
    BY DEF PartsUpTo
  <2>2. Cardinality(T) \in Nat \ {0} /\ Cardinality(T \ {Picked(T)}) = Cardinality(T) - 1
    BY <1>1, <1>6, <2>1, PickedGoes
  <2>3. Cardinality(T \ {Picked(T)}) <= n
    BY <2>1, <2>2
  <2>4. QED BY <2>1, <2>3 DEF PartsUpTo
<1>7. QED BY <1>1, <1>2, <1>3, <1>4, <1>5, <1>6

\* The tally of each set of rows, and the sum over each set of indexes.
TallyStep(T, rest) == IF T = {} THEN NoTotals ELSE Tally(Picked(T), rest)
Tallies(h, parts) == h = [T \in parts |-> TallyStep(T, h[T \ {Picked(T)}])]
SumStep(f, T, rest) == IF T = {} THEN 0 ELSE f[Picked(T)] + rest
Sums(h, f, parts) == h = [T \in parts |-> SumStep(f, T, h[T \ {Picked(T)}])]

LEMMA TalliesExist ==
    ASSUME NEW S, IsFiniteSet(S)
    PROVE  \E h : Tallies(h, SUBSET S)
<1> DEFINE Bad == {n \in Nat : ~\E h : Tallies(h, PartsUpTo(S, n))}
<1>1. Bad = {}
  <2> SUFFICES ASSUME Bad # {} PROVE FALSE
    OBVIOUS
  <2>1. PICK k \in Bad : \A m \in Bad : k <= m
    BY LeastPlace
  <2>2. k \in Nat /\ ~\E h : Tallies(h, PartsUpTo(S, k))
    OBVIOUS
  <2>3. CASE k = 0
    <3>1. Tallies([T \in PartsUpTo(S, 0) |-> NoTotals], PartsUpTo(S, 0))
      BY PartsOf DEF Tallies, TallyStep
    <3>2. QED BY <2>2, <2>3, <3>1
  <2>4. CASE k # 0
    <3>1. k - 1 \in Nat /\ k - 1 \notin Bad /\ (k - 1) + 1 = k
      BY <2>1, <2>2, <2>4
    <3>2. PICK g : Tallies(g, PartsUpTo(S, k - 1))
      BY <3>1
    <3>3. PICK h : h = [T \in PartsUpTo(S, k) |-> TallyStep(T, g[T \ {Picked(T)}])]
      OBVIOUS
    <3>4. ASSUME NEW T \in PartsUpTo(S, k - 1) PROVE T \in PartsUpTo(S, k) /\ h[T] = g[T]
      <4>1. T \in PartsUpTo(S, k)
        BY <3>1, PartsOf
      <4>2. g[T] = TallyStep(T, g[T \ {Picked(T)}])
        BY <3>2 DEF Tallies
      <4>3. QED BY <3>3, <4>1, <4>2
    <3>5. ASSUME NEW T \in PartsUpTo(S, k) PROVE h[T] = TallyStep(T, h[T \ {Picked(T)}])
      <4>1. CASE T = {}
        BY <3>3, <4>1 DEF TallyStep
      <4>2. CASE T # {}
        <5>1. T \ {Picked(T)} \in PartsUpTo(S, k - 1)
          BY <3>1, <4>2, PartsOf
        <5>2. QED BY <3>3, <3>4, <5>1
      <4>3. QED BY <4>1, <4>2
    <3>6. h = [T \in PartsUpTo(S, k) |-> TallyStep(T, h[T \ {Picked(T)}])]
      BY <3>3, <3>5
    <3>7. QED BY <2>2, <3>6 DEF Tallies
  <2>5. QED BY <2>3, <2>4
<1>2. Cardinality(S) \in Nat /\ PartsUpTo(S, Cardinality(S)) = SUBSET S
  <2>1. Cardinality(S) \in Nat
    BY FS_CardinalityType
  <2>2. QED BY <2>1, PartsOf
<1>3. Cardinality(S) \notin Bad
  BY <1>1
<1>4. QED BY <1>2, <1>3

LEMMA SumsExist ==
    ASSUME NEW f, NEW S, IsFiniteSet(S)
    PROVE  \E h : Sums(h, f, SUBSET S)
<1> DEFINE Bad == {n \in Nat : ~\E h : Sums(h, f, PartsUpTo(S, n))}
<1>1. Bad = {}
  <2> SUFFICES ASSUME Bad # {} PROVE FALSE
    OBVIOUS
  <2>1. PICK k \in Bad : \A m \in Bad : k <= m
    BY LeastPlace
  <2>2. k \in Nat /\ ~\E h : Sums(h, f, PartsUpTo(S, k))
    OBVIOUS
  <2>3. CASE k = 0
    <3>1. Sums([T \in PartsUpTo(S, 0) |-> 0], f, PartsUpTo(S, 0))
      BY PartsOf DEF Sums, SumStep
    <3>2. QED BY <2>2, <2>3, <3>1
  <2>4. CASE k # 0
    <3>1. k - 1 \in Nat /\ k - 1 \notin Bad /\ (k - 1) + 1 = k
      BY <2>1, <2>2, <2>4
    <3>2. PICK g : Sums(g, f, PartsUpTo(S, k - 1))
      BY <3>1
    <3>3. PICK h : h = [T \in PartsUpTo(S, k) |-> SumStep(f, T, g[T \ {Picked(T)}])]
      OBVIOUS
    <3>4. ASSUME NEW T \in PartsUpTo(S, k - 1) PROVE T \in PartsUpTo(S, k) /\ h[T] = g[T]
      <4>1. T \in PartsUpTo(S, k)
        BY <3>1, PartsOf
      <4>2. g[T] = SumStep(f, T, g[T \ {Picked(T)}])
        BY <3>2 DEF Sums
      <4>3. QED BY <3>3, <4>1, <4>2
    <3>5. ASSUME NEW T \in PartsUpTo(S, k) PROVE h[T] = SumStep(f, T, h[T \ {Picked(T)}])
      <4>1. CASE T = {}
        BY <3>3, <4>1 DEF SumStep
      <4>2. CASE T # {}
        <5>1. T \ {Picked(T)} \in PartsUpTo(S, k - 1)
          BY <3>1, <4>2, PartsOf
        <5>2. QED BY <3>3, <3>4, <5>1
      <4>3. QED BY <4>1, <4>2
    <3>6. h = [T \in PartsUpTo(S, k) |-> SumStep(f, T, h[T \ {Picked(T)}])]
      BY <3>3, <3>5
    <3>7. QED BY <2>2, <3>6 DEF Sums
  <2>5. QED BY <2>3, <2>4
<1>2. Cardinality(S) \in Nat /\ PartsUpTo(S, Cardinality(S)) = SUBSET S
  <2>1. Cardinality(S) \in Nat
    BY FS_CardinalityType
  <2>2. QED BY <2>1, PartsOf
<1>3. Cardinality(S) \notin Bad
  BY <1>1
<1>4. QED BY <1>2, <1>3

\* What the model computes is the last of them.
LEMMA AggregateIs ==
    ASSUME NEW window, IsFiniteSet(Merged(window))
    PROVE  \E h : Tallies(h, SUBSET Merged(window)) /\ Aggregate(window) = h[Merged(window)]
<1> DEFINE S == Merged(window)
           h == CHOOSE g : Tallies(g, SUBSET S)
<1>1. Aggregate(window) = h[S]
  BY DEF Aggregate, FoldSet, MapThenFoldSet, Tallies, TallyStep, Picked
<1>2. Tallies(h, SUBSET S)
  BY TalliesExist
<1>3. QED BY <1>1, <1>2

LEMMA SumIs ==
    ASSUME NEW f, NEW S, S = DOMAIN f, IsFiniteSet(S)
    PROVE  \E h : Sums(h, f, SUBSET S) /\ Sum(f) = h[S]
<1> DEFINE h == CHOOSE g : Sums(g, f, SUBSET S)
<1>1. Sum(f) = h[S]
  BY DEF Sum, FoldSet, MapThenFoldSet, Sums, SumStep, Picked
<1>2. Sums(h, f, SUBSET S)
  BY SumsExist
<1>3. QED BY <1>1, <1>2


\* A sum is a number, and grows by what one of its terms grows.
LEMMA SumGrows ==
    ASSUME NEW D, IsFiniteSet(D), NEW f \in [D -> Nat], NEW i \in D, NEW n \in Nat,
           NEW g, g = [f EXCEPT ![i] = @ + n]
    PROVE  Sum(f) \in Nat /\ Sum(g) = Sum(f) + n
<1>0. DOMAIN f = D /\ DOMAIN g = D /\ g[i] = f[i] + n /\ \A x \in D : f[x] \in Nat /\ (x # i => g[x] = f[x])
  OBVIOUS
<1>1. PICK h : Sums(h, f, SUBSET D) /\ Sum(f) = h[D]
  BY <1>0, SumIs
<1>2. PICK k : Sums(k, g, SUBSET D) /\ Sum(g) = k[D]
  <2>1. DOMAIN g = D
    BY <1>0
  <2>2. QED BY <2>1, SumIs, Zenon
<1> DEFINE More(T) == IF i \in T THEN n ELSE 0
           Good(T) == h[T] \in Nat /\ k[T] = h[T] + More(T)
           Bad == {m \in Nat : \E T \in SUBSET D : Cardinality(T) = m /\ ~Good(T)}
<1>3. Bad = {}
  <2> SUFFICES ASSUME Bad # {} PROVE FALSE
    OBVIOUS
  <2>1. PICK m \in Bad : \A l \in Bad : m <= l
    BY LeastPlace
  <2>2. PICK T \in SUBSET D : Cardinality(T) = m /\ ~Good(T)
    BY <2>1
  <2>3. h[T] = SumStep(f, T, h[T \ {Picked(T)}]) /\ k[T] = SumStep(g, T, k[T \ {Picked(T)}])
    BY <1>1, <1>2 DEF Sums
  <2>4. CASE T = {}
    BY <2>2, <2>3, <2>4 DEF SumStep
  <2>5. CASE T # {}
    <3> DEFINE x == Picked(T)
               U == T \ {x}
    <3>1. x \in T /\ IsFiniteSet(U) /\ m \in Nat \ {0} /\ Cardinality(U) = m - 1
      BY <2>2, <2>5, PickedGoes, FS_Subset
    <3>2. U \in SUBSET D /\ m - 1 \in Nat /\ m - 1 \notin Bad
      BY <2>1, <3>1
    <3>3. Good(U)
      BY <3>1, <3>2
    <3>4. h[T] = f[x] + h[U] /\ k[T] = g[x] + k[U]
      BY <2>3, <2>5 DEF SumStep
    <3>5. f[x] \in Nat /\ (x # i => g[x] = f[x]) /\ (x = i => g[x] = f[x] + n)
      BY <1>0, <3>1
    <3>6. (x = i => i \in T /\ i \notin U) /\ (x # i => (i \in T <=> i \in U))
      BY <3>1
    <3> HIDE DEF x, U
    <3>7. QED BY <2>2, <3>3, <3>4, <3>5, <3>6
  <2>6. QED BY <2>4, <2>5
<1>4. Good(D)
  <2>1. Cardinality(D) \in Nat /\ D \in SUBSET D
    BY FS_CardinalityType
  <2> HIDE DEF Good
  <2>2. QED BY <1>3, <2>1
<1>5. QED BY <1>1, <1>2, <1>4

LEMMA SumOfNothing ==
    ASSUME NEW D, IsFiniteSet(D)
    PROVE  Sum([x \in D |-> 0]) = 0
<1> DEFINE f == [x \in D |-> 0]
<1>0. DOMAIN f = D
  OBVIOUS
<1>1. PICK h : Sums(h, f, SUBSET D) /\ Sum(f) = h[D]
  BY <1>0, SumIs
<1> DEFINE Bad == {m \in Nat : \E T \in SUBSET D : Cardinality(T) = m /\ h[T] # 0}
<1>2. Bad = {}
  <2> SUFFICES ASSUME Bad # {} PROVE FALSE
    OBVIOUS
  <2>1. PICK m \in Bad : \A l \in Bad : m <= l
    BY LeastPlace
  <2>2. PICK T \in SUBSET D : Cardinality(T) = m /\ h[T] # 0
    BY <2>1
  <2>3. h[T] = SumStep(f, T, h[T \ {Picked(T)}])
    BY <1>1 DEF Sums
  <2>4. CASE T = {}
    BY <2>2, <2>3, <2>4 DEF SumStep
  <2>5. CASE T # {}
    <3> DEFINE x == Picked(T)
               U == T \ {x}
    <3>1. x \in T /\ m \in Nat \ {0} /\ Cardinality(U) = m - 1
      BY <2>2, <2>5, PickedGoes, FS_Subset
    <3>2. U \in SUBSET D /\ m - 1 \in Nat /\ m - 1 \notin Bad
      BY <2>1, <3>1
    <3>3. h[U] = 0
      BY <3>1, <3>2
    <3>4. h[T] = f[x] + h[U] /\ f[x] = 0
      BY <2>3, <2>5, <3>1 DEF SumStep
    <3>5. QED BY <2>2, <3>3, <3>4
  <2>6. QED BY <2>4, <2>5
<1>3. Cardinality(D) \in Nat /\ D \in SUBSET D
  BY FS_CardinalityType
<1>4. h[D] = 0
  BY <1>2, <1>3
<1>5. QED BY <1>1, <1>4

\* The calls that rows are of, those with one outcome, and the editions that rows say were found.
CallsOf(T) == {r.call : r \in T}
CallsWith(m, T) == {r.call : r \in {s \in T : s.metric = m}}
FoundIn(T) == {r \in T : r.source # 0}

\* Rows of one call agree.
RowsAgree(S) ==
    /\ IsFiniteSet(S) /\ \E n \in Nat : \A r \in S : r.call \in 1..n
    /\ \A r \in S : r.metric \in Metrics /\ r.at \in 0..LastDay /\ (r.source # 0 => r.metric = "search")
    /\ \A r, s \in S : r.call = s.call => r.metric = s.metric

Counted(t, T) ==
    /\ t.calls = CallsOf(T) /\ t.appearances = Cardinality(FoundIn(T))
    /\ t.totals \in [Metrics -> Nat] /\ t.daily \in [0..LastDay -> Nat]
    /\ \A m \in Metrics : t.totals[m] = Cardinality(CallsWith(m, T))
    /\ Sum(t.totals) = Sum(t.daily)

LEMMA NothingCounted == Counted(NoTotals, {})
<1>1. IsFiniteSet(Metrics) /\ IsFiniteSet(0..LastDay)
  <2>1. 0 \in Int /\ LastDay \in Int /\ IsFiniteSet(Metrics)
    BY UsageAssumption
  <2>2. QED BY <2>1, FS_Interval
<1>2. Sum(NoTotals.totals) = 0 /\ Sum(NoTotals.daily) = 0
  BY <1>1, SumOfNothing DEF NoTotals
<1>3. CallsOf({}) = {} /\ FoundIn({}) = {} /\ \A m \in Metrics : CallsWith(m, {}) = {}
  BY DEF CallsOf, FoundIn, CallsWith
<1>4. QED BY <1>2, <1>3, FS_EmptySet DEF Counted, NoTotals

\* One more row.
LEMMA RowCounted ==
    ASSUME NEW S, RowsAgree(S), NEW U \in SUBSET S, NEW x \in S \ U, NEW t, Counted(t, U)
    PROVE  Counted(Tally(x, t), U \cup {x})
<1> DEFINE T == U \cup {x}
           n == IF FirstCall(x, t) THEN 1 ELSE 0
           u == Tally(x, t)
<1>1. /\ x.metric \in Metrics /\ x.at \in 0..LastDay /\ (x.source # 0 => x.metric = "search")
      /\ \A r \in U : r.call = x.call => r.metric = x.metric
  BY DEF RowsAgree
<1>2. n \in Nat /\ (n = 1 <=> x.call \notin CallsOf(U)) /\ (n = 0 <=> x.call \in CallsOf(U))
  BY DEF Counted, FirstCall
<1>3. /\ u.calls = t.calls \cup {x.call}
      /\ u.totals = [t.totals EXCEPT ![x.metric] = @ + n]
      /\ u.appearances = t.appearances + (IF x.metric = "search" /\ x.source # 0 THEN 1 ELSE 0)
      /\ u.daily = [t.daily EXCEPT ![x.at] = @ + n]
  BY DEF Tally
<1> HIDE DEF n, u
<1>4. IsFiniteSet(Metrics) /\ IsFiniteSet(0..LastDay) /\ IsFiniteSet(U)
  <2>1. 0 \in Int /\ LastDay \in Int /\ IsFiniteSet(Metrics)
    BY UsageAssumption
  <2>2. IsFiniteSet(0..LastDay)
    BY <2>1, FS_Interval
  <2>3. IsFiniteSet(S)
    BY DEF RowsAgree
  <2>4. QED BY <2>1, <2>2, <2>3, FS_Subset
<1>5. u.calls = CallsOf(T)
  BY <1>3 DEF Counted, CallsOf
<1>6. u.appearances = Cardinality(FoundIn(T))
  <2>1. IsFiniteSet(FoundIn(U))
    BY <1>4, FS_Subset DEF FoundIn
  <2>2. CASE x.source # 0
    <3>1. FoundIn(T) = FoundIn(U) \cup {x} /\ x \notin FoundIn(U)
      BY <2>2 DEF FoundIn
    <3>2. Cardinality(FoundIn(T)) = Cardinality(FoundIn(U)) + 1
      BY <2>1, <3>1, FS_AddElement
    <3>3. t.appearances = Cardinality(FoundIn(U)) /\ u.appearances = t.appearances + 1
      BY <1>1, <1>3, <2>2 DEF Counted
    <3>4. QED BY <3>2, <3>3
  <2>3. CASE x.source = 0
    <3>1. FoundIn(T) = FoundIn(U)
      BY <2>3 DEF FoundIn
    <3>2. Cardinality(FoundIn(U)) \in Nat
      BY <2>1, FS_CardinalityType
    <3>3. QED BY <1>3, <2>3, <3>1, <3>2 DEF Counted
  <2>4. QED BY <2>2, <2>3
<1>7. u.totals \in [Metrics -> Nat] /\ u.daily \in [0..LastDay -> Nat]
  <2>1. t.totals \in [Metrics -> Nat] /\ t.daily \in [0..LastDay -> Nat]
    BY DEF Counted
  <2>2. ASSUME NEW D, NEW g \in [D -> Nat], NEW d \in D PROVE [g EXCEPT ![d] = @ + n] \in [D -> Nat]
    BY <1>2
  <2>3. u.totals \in [Metrics -> Nat]
    BY <1>1, <1>3, <2>1, <2>2
  <2>4. x.at \in 0..LastDay /\ t.daily \in [0..LastDay -> Nat] /\ u.daily = [t.daily EXCEPT ![x.at] = @ + n]
    BY <1>1, <1>3, <2>1
  <2>5. PICK D : D = 0..LastDay
    OBVIOUS
  <2>6. x.at \in D /\ t.daily \in [D -> Nat]
    BY <2>4, <2>5, Zenon
  <2>7. u.daily \in [D -> Nat]
    BY <2>2, <2>4, <2>6
  <2>8. QED BY <2>3, <2>5, <2>7
<1>8. Sum(u.totals) = Sum(u.daily)
  <2>0. t.totals \in [Metrics -> Nat] /\ t.daily \in [0..LastDay -> Nat]
    BY DEF Counted
  <2>1. Sum(u.totals) = Sum(t.totals) + n
    BY <1>1, <1>2, <1>3, <1>4, <2>0, SumGrows
  <2>2. Sum(u.daily) = Sum(t.daily) + n
    <3>1. x.at \in 0..LastDay /\ u.daily = [t.daily EXCEPT ![x.at] = @ + n] /\ n \in Nat
      BY <1>1, <1>2, <1>3
    <3>2. PICK D : D = 0..LastDay
      OBVIOUS
    <3>3. x.at \in D /\ t.daily \in [D -> Nat] /\ IsFiniteSet(D)
      BY <1>4, <2>0, <3>1, <3>2, Zenon
    <3>4. QED BY <3>1, <3>3, SumGrows
  <2>3. QED BY <2>1, <2>2 DEF Counted
<1>9. ASSUME NEW m \in Metrics PROVE u.totals[m] = Cardinality(CallsWith(m, T))
  <2>1. IsFiniteSet(CallsWith(m, U))
    <3>1. PICK k \in Nat : \A r \in S : r.call \in 1..k
      BY DEF RowsAgree
    <3>2. CallsWith(m, U) \in SUBSET (1..k)
      BY <3>1 DEF CallsWith
    <3>3. IsFiniteSet(1..k)
      BY <3>1, FS_Interval
    <3>4. QED BY <3>2, <3>3, FS_Subset
  <2>2. t.totals[m] = Cardinality(CallsWith(m, U)) /\ t.totals[m] \in Nat
    BY DEF Counted
  <2>3. u.totals[m] = IF m = x.metric THEN t.totals[m] + n ELSE t.totals[m]
    BY <1>3 DEF Counted
  <2>4. CASE m # x.metric
    <3>1. CallsWith(m, T) = CallsWith(m, U)
      BY <2>4 DEF CallsWith
    <3>2. QED BY <2>2, <2>3, <2>4, <3>1
  <2>5. CASE m = x.metric /\ x.call \in CallsOf(U)
    <3>1. CallsWith(m, T) = CallsWith(m, U)
      BY <1>1, <2>5 DEF CallsWith, CallsOf
    <3>2. QED BY <1>2, <2>2, <2>3, <2>5, <3>1
  <2>6. CASE m = x.metric /\ x.call \notin CallsOf(U)
    <3>1. CallsWith(m, T) = CallsWith(m, U) \cup {x.call} /\ x.call \notin CallsWith(m, U)
      BY <2>6 DEF CallsWith, CallsOf
    <3>2. Cardinality(CallsWith(m, T)) = Cardinality(CallsWith(m, U)) + 1
      BY <2>1, <3>1, FS_AddElement
    <3>3. QED BY <1>2, <2>2, <2>3, <2>6, <3>2
  <2>7. QED BY <2>4, <2>5, <2>6
<1>10. QED BY <1>5, <1>6, <1>7, <1>8, <1>9 DEF Counted, u

\* However the rows are picked, they are all counted.
LEMMA AllCounted ==
    ASSUME NEW S, RowsAgree(S), NEW h, Tallies(h, SUBSET S)
    PROVE  Counted(h[S], S)
<1> DEFINE Bad == {m \in Nat : \E T \in SUBSET S : Cardinality(T) = m /\ ~Counted(h[T], T)}
<1>1. IsFiniteSet(S) /\ Cardinality(S) \in Nat
  BY FS_CardinalityType DEF RowsAgree
<1>2. Bad = {}
  <2> SUFFICES ASSUME Bad # {} PROVE FALSE
    OBVIOUS
  <2>1. PICK m \in Bad : \A l \in Bad : m <= l
    BY LeastPlace
  <2>2. PICK T \in SUBSET S : Cardinality(T) = m /\ ~Counted(h[T], T)
    BY <2>1
  <2>3. h[T] = TallyStep(T, h[T \ {Picked(T)}])
    BY DEF Tallies
  <2>4. CASE T = {}
    BY <2>2, <2>3, <2>4, NothingCounted DEF TallyStep
  <2>5. CASE T # {}
    <3> DEFINE x == Picked(T)
               U == T \ {x}
    <3>1. x \in T /\ m \in Nat \ {0} /\ Cardinality(U) = m - 1
      BY <1>1, <2>2, <2>5, PickedGoes, FS_Subset
    <3>2. U \in SUBSET S /\ m - 1 \in Nat /\ m - 1 \notin Bad
      BY <2>1, <3>1
    <3>3. Counted(h[U], U)
      BY <3>1, <3>2
    <3>4. h[T] = Tally(x, h[U])
      BY <2>3, <2>5 DEF TallyStep
    <3>5. x \in S \ U /\ T = U \cup {x}
      BY <3>1
    <3>6. QED BY <2>2, <3>2, <3>3, <3>4, <3>5, RowCounted
  <2>6. QED BY <2>4, <2>5
<1>3. QED BY <1>1, <1>2

\* What is kept is of calls that were made, each once.
LEMMA TotalsHold == UsageInv => TotalsAreCalls
<1> SUFFICES ASSUME UsageInv, NEW window \in 0..LastDay
             PROVE  LET seen == Aggregate(window) IN
                    /\ \A m \in Metrics :
                          seen.totals[m] <= Cardinality({c \in made : c.metric = m /\ c.at + window >= day})
                    /\ Sum(seen.totals) = Sum(seen.daily)
                    /\ seen.appearances = Cardinality({r \in Merged(window) : r.source # 0})
  BY DEF TotalsAreCalls
<1> DEFINE S == Merged(window)
<1>1. \A r \in S : RowFits(r) /\ r.at + window >= day
  BY DEF Merged, UsageInv
<1>2. IsFiniteSet(S)
  <2>1. IsFiniteSet(UNION {events[c] : c \in Collectors})
    <3> DEFINE tables == {events[c] : c \in Collectors}
               f == [c \in Collectors |-> events[c]]
    <3>1. f \in Surjection(Collectors, tables)
      BY DEF Surjection
    <3>2. IsFiniteSet(tables)
      BY <3>1, UsageAssumption, FS_Surjection
    <3>3. \A T \in tables : IsFiniteSet(T)
      BY DEF UsageInv
    <3>4. QED BY <3>2, <3>3, FS_UNION
  <2>2. S \in SUBSET UNION {events[c] : c \in Collectors}
    BY DEF Merged
  <2>3. QED BY <2>1, <2>2, FS_Subset
<1>3. RowsAgree(S)
  <2>1. Cardinality(made) \in Nat
    BY FS_CardinalityType DEF UsageInv, MadeNumbered
  <2>2. ASSUME NEW r \in S PROVE /\ r.call \in 1..Cardinality(made) /\ r.metric \in Metrics /\ r.at \in 0..LastDay
                                 /\ r.source # 0 => r.metric = "search"
    <3>1. PICK m \in made : m.call = r.call /\ m.metric = r.metric /\ m.at = r.at
      BY <1>1 DEF RowFits
    <3>2. m.call \in 1..Cardinality(made) /\ m.metric \in Metrics /\ m.at \in 0..day /\ day \in 0..LastDay
      BY DEF UsageInv, MadeNumbered
    <3>3. LastDay \in Nat
      BY UsageAssumption
    <3>4. r.at \in 0..LastDay
      BY <3>1, <3>2, <3>3
    <3>5. QED BY <1>1, <3>1, <3>2, <3>4 DEF RowFits
  <2>3. ASSUME NEW r \in S, NEW s \in S, r.call = s.call PROVE r.metric = s.metric
    BY <1>1, <2>3 DEF RowFits, UsageInv, MadeNumbered
  <2>4. QED BY <1>2, <2>1, <2>2, <2>3 DEF RowsAgree
<1>4. Counted(Aggregate(window), S)
  BY <1>2, <1>3, AggregateIs, AllCounted
<1>5. ASSUME NEW m \in Metrics
      PROVE  Cardinality(CallsWith(m, S)) <= Cardinality({c \in made : c.metric = m /\ c.at + window >= day})
  <2> DEFINE M == {c \in made : c.metric = m /\ c.at + window >= day}
             calls == {c.call : c \in M}
             f == [c \in M |-> c.call]
  <2>1. IsFiniteSet(M)
    BY FS_Subset DEF UsageInv, MadeNumbered
  <2>2. f \in Surjection(M, calls)
    BY DEF Surjection
  <2>3. IsFiniteSet(calls) /\ Cardinality(calls) <= Cardinality(M)
    BY <2>1, <2>2, FS_Surjection
  <2>4. CallsWith(m, S) \in SUBSET calls
    <3>1. ASSUME NEW r \in S, r.metric = m PROVE r.call \in calls
      <4>1. PICK c \in made : c.call = r.call /\ c.metric = r.metric /\ c.at = r.at
        BY <1>1 DEF RowFits
      <4>2. c \in M
        BY <1>1, <3>1, <4>1
      <4>3. QED BY <4>1, <4>2
    <3>2. QED BY <3>1 DEF CallsWith
  <2>5. Cardinality(CallsWith(m, S)) <= Cardinality(calls) /\ IsFiniteSet(CallsWith(m, S))
    BY <2>3, <2>4, FS_Subset
  <2>6. Cardinality(CallsWith(m, S)) \in Nat /\ Cardinality(calls) \in Nat /\ Cardinality(M) \in Nat
    BY <2>1, <2>3, <2>5, FS_CardinalityType
  <2> HIDE DEF M, calls
  <2>7. Cardinality(CallsWith(m, S)) <= Cardinality(M)
    BY <2>3, <2>5, <2>6
  <2>8. QED BY <2>7 DEF M
<1>6. QED BY <1>4, <1>5 DEF Counted, FoundIn

LEMMA RowsStay ==
    ASSUME NEW r, RowFits(r), made \subseteq made'
    PROVE  RowFits(r)'
  BY DEF RowFits

LEMMA UsageInitInv == UsageInit => UsageInv
<1> SUFFICES ASSUME UsageInit PROVE UsageInv
  OBVIOUS
<1>1. IsFiniteSet({}) /\ 0 \in 0..LastDay
  BY UsageAssumption, FS_EmptySet
<1>2. QED BY <1>1 DEF UsageInit, UsageInv, MadeNumbered

LEMMA UsageNextInv == UsageInv /\ [UsageNext]_usageVars => UsageInv'
<1> SUFFICES ASSUME UsageInv, [UsageNext]_usageVars PROVE UsageInv'
  OBVIOUS
<1>1. day \in Nat /\ LastDay \in Nat /\ Cardinality(made) \in Nat /\ IsFiniteSet(made) /\ day <= LastDay
  BY UsageAssumption, FS_CardinalityType DEF UsageInv, MadeNumbered
<1>2. ASSUME UNCHANGED <<day, made>>, DOMAIN events' = Collectors, DOMAIN writing' = Collectors,
             \A c \in Collectors : /\ IsFiniteSet(events'[c]) /\ IsFiniteSet(writing'[c])
                                   /\ events'[c] \cup writing'[c] \subseteq events[c] \cup writing[c]
      PROVE  UsageInv'
  <2>1. MadeNumbered' /\ day' \in 0..LastDay
    BY <1>2 DEF UsageInv, MadeNumbered
  <2>2. ASSUME NEW c \in Collectors, NEW r \in events'[c] \cup writing'[c] PROVE RowFits(r)'
    BY <1>2, RowsStay DEF UsageInv
  <2>3. QED BY <1>2, <2>1, <2>2 DEF UsageInv
<1>3. CASE ToolCall
  <2>1. PICK c \in Collectors, metric \in Metrics, sources \in SUBSET FoundEditions :
          /\ sources # {} => metric = "search"
          /\ EndOfCall(c, metric)
          /\ \/ writing' = [writing EXCEPT ![c] = RowsOf(NextCall, metric, sources)]
             \/ UNCHANGED writing
          /\ UNCHANGED <<day, events>>
    BY <1>3 DEF ToolCall
  <2> DEFINE new == [call |-> NextCall, by |-> c, at |-> day, metric |-> metric]
  <2>2. made' = made \cup {new} /\ new.call = NextCall /\ new.at = day /\ new.metric = metric
    BY <2>1 DEF EndOfCall
  <2>3. NextCall = Cardinality(made) + 1
    BY DEF NextCall
  <2>4. new \notin made
    BY <1>1, <2>2, <2>3 DEF UsageInv, MadeNumbered
  <2> HIDE DEF new
  <2>5. IsFiniteSet(made') /\ Cardinality(made') = Cardinality(made) + 1
    BY <1>1, <2>2, <2>4, FS_AddElement
  <2>6. MadeNumbered' /\ day' \in 0..LastDay
    <3>1. ASSUME NEW m \in made PROVE m.call \in 1..Cardinality(made) /\ m.metric \in Metrics /\ m.at \in 0..day
      BY DEF UsageInv, MadeNumbered
    <3>2. ASSUME NEW m \in made' PROVE m.call \in 1..Cardinality(made') /\ m.metric \in Metrics /\ m.at \in 0..day'
      BY <1>1, <2>1, <2>2, <2>3, <2>5, <3>1
    <3>3. ASSUME NEW m \in made', NEW n \in made', m.call = n.call PROVE m = n
      <4>1. \A k \in made : k.call # new.call
        BY <1>1, <2>2, <2>3, <3>1
      <4>2. QED BY <2>2, <3>3, <4>1 DEF UsageInv, MadeNumbered
    <3>4. QED BY <2>1, <2>5, <3>2, <3>3 DEF UsageInv, MadeNumbered
  <2>7. ASSUME NEW r \in RowsOf(NextCall, metric, sources) PROVE RowFits(r)'
    <3>1. r.call = NextCall /\ r.metric = metric /\ r.at = day /\ (r.source # 0 => sources # {})
      BY DEF RowsOf
    <3>2. QED BY <2>1, <2>2, <3>1 DEF RowFits
  <2>8. IsFiniteSet(RowsOf(NextCall, metric, sources))
    <3> DEFINE row(s) == [call |-> NextCall, index |-> s, at |-> day, metric |-> metric, source |-> s]
               f == [s \in sources |-> row(s)]
    <3>1. IsFiniteSet(sources)
      BY UsageAssumption, FS_Subset
    <3>2. f \in Surjection(sources, {row(s) : s \in sources})
      BY DEF Surjection
    <3>3. IsFiniteSet({row(s) : s \in sources})
      BY <3>1, <3>2, FS_Surjection
    <3>4. QED BY <3>3, FS_Singleton DEF RowsOf
  <2>9. /\ DOMAIN writing' = Collectors /\ events' = events
        /\ \A d \in Collectors : writing'[d] = writing[d] \/ writing'[d] = RowsOf(NextCall, metric, sources)
    BY <2>1 DEF UsageInv
  <2>10. ASSUME NEW d \in Collectors
         PROVE  /\ IsFiniteSet(events'[d]) /\ IsFiniteSet(writing'[d])
                /\ \A r \in events'[d] \cup writing'[d] : RowFits(r)'
    <3>1. IsFiniteSet(events'[d]) /\ IsFiniteSet(writing'[d])
      BY <2>8, <2>9 DEF UsageInv
    <3>2. ASSUME NEW r \in events[d] \cup writing[d] PROVE RowFits(r)'
      BY <2>2, RowsStay DEF UsageInv
    <3>3. QED BY <2>7, <2>9, <3>1, <3>2
  <2>11. QED BY <2>6, <2>9, <2>10 DEF UsageInv
<1>4. CASE NextDay
  <2>1. day' = day + 1 /\ day < LastDay /\ UNCHANGED <<events, writing, made>>
    BY <1>4 DEF NextDay
  <2>2. day' \in 0..LastDay /\ 0..day \subseteq 0..day'
    BY <1>1, <2>1
  <2>3. MadeNumbered'
    BY <2>1, <2>2 DEF UsageInv, MadeNumbered
  <2>4. ASSUME NEW r, RowFits(r) PROVE RowFits(r)'
    BY <2>1, <2>4 DEF RowFits
  <2>5. QED BY <2>1, <2>2, <2>3, <2>4 DEF UsageInv
<1>5. ASSUME NEW c \in Collectors, CommitCall(c) PROVE UsageInv'
  <2>1. /\ events' = [events EXCEPT ![c] = Inserted(Trimmed(Recent(@)), writing[c])]
        /\ writing' = [writing EXCEPT ![c] = {}] /\ UNCHANGED <<day, made>>
    BY <1>5 DEF CommitCall
  <2>2. Trimmed(Recent(events[c])) \subseteq events[c]
    BY DEF Trimmed, RowsLeft, Recent
  <2>3. /\ DOMAIN events' = Collectors /\ DOMAIN writing' = Collectors
        /\ \A d \in Collectors : /\ writing'[d] \in {{}, writing[d]}
                                 /\ events'[d] \subseteq events[d] \cup writing[d]
                                 /\ events'[d] \cup writing'[d] \subseteq events[d] \cup writing[d]
    BY <2>1, <2>2 DEF UsageInv, Inserted
  <2>4. ASSUME NEW d \in Collectors PROVE IsFiniteSet(events'[d]) /\ IsFiniteSet(writing'[d])
    <3>1. IsFiniteSet(events[d] \cup writing[d])
      BY FS_Union DEF UsageInv
    <3>2. events'[d] \in SUBSET (events[d] \cup writing[d]) /\ writing'[d] \in SUBSET (events[d] \cup writing[d])
      BY <2>3
    <3>3. QED BY <3>1, <3>2, FS_Subset
  <2>5. QED BY <1>2, <2>1, <2>3, <2>4
<1>6. ASSUME NEW c \in Collectors, TableBusy(c) PROVE UsageInv'
  <2>1. writing' = [writing EXCEPT ![c] = {}] /\ UNCHANGED <<day, events, made>>
    BY <1>6 DEF TableBusy
  <2>2. \A d \in Collectors : writing'[d] \in {{}, writing[d]} /\ IsFiniteSet({})
    BY <2>1, FS_EmptySet DEF UsageInv
  <2>3. DOMAIN events' = Collectors /\ DOMAIN writing' = Collectors
    BY <2>1 DEF UsageInv
  <2>4. \A d \in Collectors : /\ IsFiniteSet(events'[d]) /\ IsFiniteSet(writing'[d])
                              /\ events'[d] \cup writing'[d] \subseteq events[d] \cup writing[d]
    BY <2>1, <2>2 DEF UsageInv
  <2>5. QED BY <1>2, <2>1, <2>3, <2>4
<1>7. ASSUME NEW c \in Collectors, CollectorRestarts(c) PROVE UsageInv'
  <2>1. /\ writing' = [writing EXCEPT ![c] = {}] /\ events' = [events EXCEPT ![c] = Recent(@)]
        /\ UNCHANGED <<day, made>>
    BY <1>7 DEF CollectorRestarts
  <2>2. /\ DOMAIN events' = Collectors /\ DOMAIN writing' = Collectors
        /\ \A d \in Collectors : writing'[d] \in {{}, writing[d]} /\ events'[d] \in {Recent(events[d]), events[d]}
    BY <2>1 DEF UsageInv
  <2>3. ASSUME NEW d \in Collectors PROVE Recent(events[d]) \in SUBSET events[d] /\ IsFiniteSet(Recent(events[d]))
    <3>1. Recent(events[d]) \in SUBSET events[d]
      BY DEF Recent
    <3>2. QED BY <3>1, FS_Subset DEF UsageInv
  <2>4. \A d \in Collectors : /\ IsFiniteSet(events'[d]) /\ IsFiniteSet(writing'[d])
                              /\ events'[d] \cup writing'[d] \subseteq events[d] \cup writing[d]
    BY <2>2, <2>3, FS_EmptySet DEF UsageInv
  <2>5. QED BY <1>2, <2>1, <2>2, <2>4
<1>8. CASE UNCHANGED usageVars
  <2>1. UNCHANGED <<day, made, events, writing>>
    BY <1>8 DEF usageVars
  <2>2. QED BY <1>2, <2>1 DEF UsageInv
<1>9. QED BY <1>3, <1>4, <1>5, <1>6, <1>7, <1>8 DEF UsageNext

\* For any servers, calls, retention and room: however rows were trimmed, lost or left by calls that
\* found several editions, the totals count no call twice and only calls that were made
\* (usage.py:203-235).
THEOREM TotalsCountCalls == UsageSpec => []TotalsAreCalls
<1>1. UsageSpec => []UsageInv
  BY UsageInitInv, UsageNextInv, PTL DEF UsageSpec
<1>2. QED BY <1>1, TotalsHold, PTL
=============================================================================
